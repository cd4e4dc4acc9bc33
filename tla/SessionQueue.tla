---------------------------- MODULE SessionQueue ----------------------------
(***************************************************************************)
(* The message queue of one gateway session: the adapter's one-event slot  *)
(* and session guard (honeyos/gateway/platforms/base.py), the overflow     *)
(* list and the agent loop of the runner (honeyos/gateway/run.py).         *)
(*                                                                         *)
(* Each background task _process_message_background is a frame, named by   *)
(* the event it was spawned for.  A frame runs the agent, drains the queue *)
(* by recursion up to MaxDepth, sends the reply, and hands the slot to a   *)
(* new frame before it unwinds.  Everything runs on one event loop: a step *)
(* here is the code between two awaits.                                    *)
(*                                                                         *)
(* Left out: messages the running agent takes into its turn (steer,        *)
(* redirect), which never enter the queue; photo and media merging; the    *)
(* text debounce of queue mode; slash commands (/stop, /new, /queue); and  *)
(* gateway shutdown.                                                       *)
(***************************************************************************)
EXTENDS Naturals, Sequences

CONSTANTS
  UserEvents,       \* text messages of the user
  PushEvents,       \* events the gateway puts in the queue: pulse, heartbeat
  NULL,             \* no event
  MaxDepth,         \* _MAX_INTERRUPT_DEPTH
  MaxPending        \* _BUSY_QUEUE_MAX_PENDING

Events == UserEvents \cup PushEvents

ASSUME QueueAssumption ==
  /\ UserEvents \cap PushEvents = {}
  /\ NULL \notin Events
  /\ MaxDepth \in Nat
  /\ MaxPending \in Nat \ {0}

VARIABLES
  slot,       \* adapter._pending_messages[session]
  overflow,   \* conversation.queued_events
  guard,      \* is the session in adapter._active_sessions
  owner,      \* adapter._session_tasks[session]: the frame that owns it
  frame,      \* the background tasks
  checking,   \* messages whose busy handler awaits the compression check
  accepted,   \* history: events the gateway took in, in order
  started     \* history: events given an agent turn, in order

queueVars == <<slot, overflow, guard, owner, frame, checking, accepted, started>>

----------------------------------------------------------------------------
(* A frame starts ("starting"), registers its agent and runs it on         *)
(* "current" at recursion depth "depth" ("agent"); "hit" is an interrupt   *)
(* that reached the running agent.  Then it sends the reply ("respond")    *)
(* and unwinds through its finally block ("finally").                      *)
FrameState ==
  [pc: {"none", "starting", "agent", "respond", "finally", "done"},
   current: Events, depth: 0..MaxDepth, hit: BOOLEAN]

Fresh(e) == [pc |-> "starting", current |-> e, depth |-> 0, hit |-> FALSE]

(* A frame keeps no local that it does not read again.                     *)
Responding(state) == [pc |-> "respond", current |-> state.current, depth |-> 0, hit |-> FALSE]
Resting(f, pc)    == [pc |-> pc, current |-> f, depth |-> 0, hit |-> FALSE]

TypeOK ==
  /\ slot \in Events \cup {NULL}
  /\ overflow \in Seq(Events)
  /\ guard \in BOOLEAN
  /\ owner \in Events \cup {NULL}
  /\ frame \in [Events -> FrameState]
  /\ checking \subseteq UserEvents
  /\ accepted \in Seq(Events) /\ started \in Seq(Events)

Init ==
  /\ slot = NULL /\ overflow = <<>>
  /\ guard = FALSE /\ owner = NULL
  /\ frame = [e \in Events |-> Resting(e, "none")]
  /\ checking = {}
  /\ accepted = <<>> /\ started = <<>>

SeqSet(s) == {s[i] : i \in 1..Len(s)}

New(e)     == e \notin SeqSet(accepted) \cup checking
AgentBusy  == \E f \in Events : frame[f].pc = "agent"
QueueDepth == Len(overflow) + (IF slot = NULL THEN 0 ELSE 1)

\* Mutant: the newest event goes to the front of the overflow.
EnqueueInFront(e) ==
  /\ slot' = IF slot = NULL THEN e ELSE slot
  /\ overflow' = IF slot = NULL THEN overflow ELSE <<e>> \o overflow

(* _enqueue_fifo: the slot if it is free, the end of the overflow if not.  *)
Enqueue(e) ==
  /\ slot' = IF slot = NULL THEN e ELSE slot
  /\ overflow' = IF slot = NULL THEN overflow ELSE Append(overflow, e)

(* A frame for e takes the session over.                                   *)
Spawn(e, others) ==
  /\ guard' = TRUE /\ owner' = e
  /\ frame' = [others EXCEPT ![e] = Fresh(e)]
  /\ started' = Append(started, e)

----------------------------------------------------------------------------
(* handle_message with no guard up: the message is a turn at once, also    *)
(* when older events wait in the queue.                                    *)
StartTurn(e) ==
  /\ New(e) /\ ~guard
  /\ Spawn(e, frame)
  /\ accepted' = Append(accepted, e)
  /\ UNCHANGED <<slot, overflow, checking>>

(* handle_message under the guard calls the busy handler, which asks a     *)
(* worker thread whether a compression runs and awaits the answer.         *)
CheckBusy(e) ==
  /\ New(e) /\ guard
  /\ checking' = checking \cup {e}
  /\ UNCHANGED <<slot, overflow, guard, owner, frame, accepted, started>>

Interrupted == [f \in Events |-> IF frame[f].pc = "agent" THEN [frame[f] EXCEPT !.hit = TRUE]
                                                         ELSE frame[f]]

(* The rest of the busy handler, whatever has become of the session: the   *)
(* message joins the queue, or is dropped by a full one; the agent that    *)
(* runs by now, if any, is interrupted or, demoted to queue mode, is not.  *)
QueueBusyMessage(e) ==
  /\ e \in checking
  /\ checking' = checking \ {e}
  /\ \/ QueueDepth < MaxPending /\ Enqueue(e) /\ accepted' = Append(accepted, e)
     \/ QueueDepth >= MaxPending /\ UNCHANGED <<slot, overflow, accepted>>
  /\ frame' \in {frame, Interrupted}
  /\ UNCHANGED <<guard, owner, started>>

(* The pulse and the heartbeat poller enqueue when no agent is running.    *)
Push(e) ==
  /\ New(e) /\ ~AgentBusy
  /\ Enqueue(e)
  /\ accepted' = Append(accepted, e)
  /\ UNCHANGED <<guard, owner, frame, checking, started>>

----------------------------------------------------------------------------
(* From the message handler to _run_agent.                                 *)

(* The handler registers the frame's agent, after awaits of its own; only  *)
(* now do the pulse and the heartbeat see the session as busy.             *)
Begin(f) ==
  /\ frame[f].pc = "starting"
  /\ frame' = [frame EXCEPT ![f].pc = "agent"]
  /\ UNCHANGED <<slot, overflow, guard, owner, checking, accepted, started>>

(* The handler raises, or answers without an agent.                        *)
TurnAway(f) ==
  /\ frame[f].pc = "starting"
  /\ frame' = [frame EXCEPT ![f] = Responding(@)]
  /\ UNCHANGED <<slot, overflow, guard, owner, checking, accepted, started>>

(* The event the drain takes after a turn: _dequeue_pending_event empties  *)
(* the slot, _promote_queued_event refills it from the overflow or, when   *)
(* it was empty, takes the head of the overflow.                           *)
NextPending == IF slot # NULL THEN slot
               ELSE IF overflow # <<>> THEN Head(overflow) ELSE NULL
Promoted    == IF slot # NULL /\ overflow # <<>> THEN Head(overflow) ELSE NULL
\* Mutant: the head of the overflow is promoted but not removed.
ShortenedNever == overflow
Shortened   == IF overflow # <<>> THEN Tail(overflow) ELSE overflow

(* The turn is over and something is pending: run it by recursion, one     *)
(* level deeper in the same frame.                                         *)
Recurse(f) ==
  /\ frame[f].pc = "agent"
  /\ NextPending # NULL /\ frame[f].depth < MaxDepth
  /\ slot' = Promoted /\ overflow' = Shortened
  /\ frame' = [frame EXCEPT ![f].current = NextPending, ![f].depth = @ + 1, ![f].hit = FALSE]
  /\ started' = Append(started, NextPending)
  /\ UNCHANGED <<guard, owner, checking, accepted>>

\* Mutant: at the depth cap the event is not put back.
StopAtCapDropping(f) ==
  /\ frame[f].pc = "agent"
  /\ NextPending # NULL /\ frame[f].depth = MaxDepth
  /\ slot' = Promoted /\ overflow' = Shortened
  /\ frame' = [frame EXCEPT ![f] = Responding(@)]
  /\ UNCHANGED <<guard, owner, checking, accepted, started>>

(* At the depth cap the event goes back into the slot, over whatever was   *)
(* promoted into it.                                                       *)
StopAtCap(f) ==
  /\ frame[f].pc = "agent"
  /\ NextPending # NULL /\ frame[f].depth = MaxDepth
  /\ slot' = NextPending /\ overflow' = Shortened
  /\ frame' = [frame EXCEPT ![f] = Responding(@)]
  /\ UNCHANGED <<guard, owner, checking, accepted, started>>

(* Nothing is pending, so the reply goes back to the adapter.              *)
ReturnReply(f) ==
  /\ frame[f].pc = "agent" /\ NextPending = NULL
  /\ frame' = [frame EXCEPT ![f] = Responding(@)]
  /\ UNCHANGED <<slot, overflow, guard, owner, checking, accepted, started>>

(* The agent raised: the runner answers with an apology, and the drain of  *)
(* _run_agent is never reached.                                            *)
ReturnError(f) ==
  /\ frame[f].pc = "agent"
  /\ frame' = [frame EXCEPT ![f] = Responding(@)]
  /\ UNCHANGED <<slot, overflow, guard, owner, checking, accepted, started>>

----------------------------------------------------------------------------
(* _process_message_background.                                            *)

\* Mutant: the event is read from the slot but not removed.
InBandDrainPeeking(f) ==
  /\ frame[f].pc = "respond"
  /\ LET unwinding == [frame EXCEPT ![f] = Resting(f, "finally")]
     IN  \/ slot # NULL /\ UNCHANGED slot /\ Spawn(slot, unwinding)
         \/ frame' = unwinding /\ UNCHANGED <<slot, guard, owner, started>>
  /\ UNCHANGED <<overflow, checking, accepted>>

(* The reply is out (or failed): the in-band drain hands the slot, not the *)
(* overflow, to a new frame.  Sending may also end in the except branch,   *)
(* which does not drain.                                                   *)
InBandDrain(f) ==
  /\ frame[f].pc = "respond"
  /\ LET unwinding == [frame EXCEPT ![f] = Resting(f, "finally")]
     IN  \/ /\ slot # NULL
            /\ slot' = NULL
            /\ Spawn(slot, unwinding)
         \/ frame' = unwinding /\ UNCHANGED <<slot, guard, owner, started>>
  /\ UNCHANGED <<overflow, checking, accepted>>

\* Mutant: any frame that ends on an empty slot releases the guard.
FinishAnyOwner(f) ==
  /\ frame[f].pc = "finally"
  /\ LET over == [frame EXCEPT ![f] = Resting(f, "done")]
     IN  \/ slot # NULL /\ owner = f /\ slot' = NULL /\ Spawn(slot, over)
         \/ slot = NULL /\ guard' = FALSE /\ owner' = NULL /\ frame' = over
            /\ UNCHANGED <<slot, started>>
         \/ slot # NULL /\ owner # f /\ frame' = over /\ UNCHANGED <<slot, guard, owner, started>>
  /\ UNCHANGED <<overflow, checking, accepted>>

\* Mutant: no late drain, the guard stays up over a full slot.
FinishStillGuarded(f) ==
  /\ frame[f].pc = "finally"
  /\ frame' = [frame EXCEPT ![f] = Resting(f, "done")]
  /\ IF owner = f /\ slot = NULL THEN guard' = FALSE /\ owner' = NULL
     ELSE UNCHANGED <<guard, owner>>
  /\ UNCHANGED <<slot, overflow, checking, accepted, started>>

(* The end of the finally block.  A late event in the slot gets a new      *)
(* frame, unless another frame owns the session; with an empty slot the    *)
(* owner releases the guard.                                               *)
Finish(f) ==
  /\ frame[f].pc = "finally"
  /\ LET over == [frame EXCEPT ![f] = Resting(f, "done")]
     IN  \/ /\ slot # NULL /\ owner = f
            /\ slot' = NULL
            /\ Spawn(slot, over)
         \/ /\ slot = NULL /\ owner = f
            /\ guard' = FALSE /\ owner' = NULL
            /\ frame' = over
            /\ UNCHANGED <<slot, started>>
         \/ /\ owner # f
            /\ frame' = over
            /\ UNCHANGED <<slot, guard, owner, started>>
  /\ UNCHANGED <<overflow, checking, accepted>>

----------------------------------------------------------------------------
Step(f) ==
  \/ Begin(f) \/ TurnAway(f)
  \/ Recurse(f) \/ StopAtCap(f) \/ ReturnReply(f) \/ ReturnError(f) \/ InBandDrain(f) \/ Finish(f)

Next ==
  \/ \E e \in UserEvents : StartTurn(e) \/ CheckBusy(e) \/ QueueBusyMessage(e)
  \/ \E e \in PushEvents : Push(e)
  \/ \E f \in Events : Step(f)

Spec == Init /\ [][Next]_queueVars

(* Every task of the event loop gets to run; messages need not arrive.     *)
FairSpec ==
  /\ Spec
  /\ \A f \in Events : WF_queueVars(Step(f))
  /\ \A e \in UserEvents : WF_queueVars(QueueBusyMessage(e))

----------------------------------------------------------------------------
(* Safety.                                                                 *)

Waiting == SeqSet(overflow) \cup ({slot} \ {NULL})

Running(f) == frame[f].pc \in {"starting", "agent", "respond"}

(* One agent turn at a time: while a frame unwinds and its successor is    *)
(* already running, a message that arrives still finds the session         *)
(* guarded, so no second turn starts beside it.                            *)
OneTurn ==
  \A f, g \in Events : Running(f) /\ Running(g) => guard /\ f = g

(* No event is run twice: what waits is waiting in one place and has had   *)
(* no turn, through every promotion, requeue and hand-over.                *)
NoRepeat(s) == \A i, j \in 1..Len(s) : s[i] = s[j] => i = j

NoSecondTurn ==
  /\ NoRepeat(started) /\ NoRepeat(overflow)
  /\ Waiting \cap SeqSet(started) = {}
  /\ slot \notin SeqSet(overflow)

(* The overflow keeps arrival order.                                       *)
Before(s, a, b) == \E i, j \in 1..Len(s) : i < j /\ s[i] = a /\ s[j] = b

OverflowInOrder ==
  \A i, j \in 1..Len(overflow) : i < j => Before(accepted, overflow[i], overflow[j])

(* Where an event is, in the words of Inbox.                               *)
OnTurn == {frame[f].current : f \in {g \in Events : Running(g)}}

PhaseOf(e) ==
  IF e \in OnTurn                 THEN "turn"
  ELSE IF e \in SeqSet(started)   THEN "done"
  ELSE IF e \in Waiting           THEN "waiting"
  ELSE IF e \in SeqSet(accepted)  THEN "lost"
  ELSE "new"

(* Slot, overflow and tasks together are the inbox of Inbox: one turn for  *)
(* each event, handed on with no gap, and nothing given up but what the    *)
(* requeue at the depth cap writes over.                                   *)
Inbox == INSTANCE Inbox WITH phase <- [e \in Events |-> PhaseOf(e)]

ImplementsInbox == Inbox!Spec

(* Liveness: an event in the slot of a running session leaves it.          *)
SlotServed == \A e \in Events : (guard /\ slot = e) ~> (slot # e)

----------------------------------------------------------------------------
(* What the comments of the code promise and the code does not keep.       *)

(* An accepted message is not lost: it waits or has had its turn ("queueing*)
(* message instead of recursing" at the depth cap).                        *)
NothingLost == SeqSet(accepted) \subseteq Waiting \cup SeqSet(started)

(* Each queued message has a full turn: an event in the overflow of a      *)
(* running session leaves it.                                              *)
OverflowServed ==
  \A e \in Events : (guard /\ e \in SeqSet(overflow)) ~> e \notin SeqSet(overflow)
============================================================================
