------------------------- MODULE SessionQueueProofs -------------------------
(***************************************************************************)
(* Theorems about SessionQueue, for any events, recursion cap and queue    *)
(* bound.  The owner recorded for the session is what makes one turn at a  *)
(* time inductive: a running frame is the owner, so a frame that unwinds   *)
(* can tell whether a successor has taken over.                            *)
(***************************************************************************)
EXTENDS SessionQueue, TLAPS

(* A running frame owns the guarded session.                               *)
OwnerRuns == \A f \in Events : Running(f) => guard /\ owner = f

IInv == TypeOK /\ OwnerRuns

----------------------------------------------------------------------------
(* What the drain takes and leaves are events of the queue.                *)
LEMMA DrainType ==
  ASSUME TypeOK
  PROVE  /\ NextPending \in Events \cup {NULL}
         /\ Promoted \in Events \cup {NULL}
         /\ Shortened \in Seq(Events)
<1>1. overflow # <<>> => Head(overflow) \in Events /\ Tail(overflow) \in Seq(Events)
  BY DEF TypeOK
<1> QED  BY <1>1 DEF NextPending, Promoted, Shortened, TypeOK

LEMMA EnqueueType ==
  ASSUME TypeOK, NEW e \in Events, Enqueue(e)
  PROVE  slot' \in Events \cup {NULL} /\ overflow' \in Seq(Events)
BY DEF TypeOK, Enqueue

(* A frame that takes the session over is well typed and is the only one   *)
(* that runs, provided the others do not.                                  *)
LEMMA SpawnType ==
  ASSUME NEW e \in Events, NEW others \in [Events -> FrameState],
         started \in Seq(Events), Spawn(e, others)
  PROVE  /\ guard' = TRUE /\ owner' = e
         /\ frame' \in [Events -> FrameState]
         /\ started' \in Seq(Events)
         /\ \A g \in Events \ {e} : frame'[g] = others[g]
<1>1. Fresh(e) \in FrameState
  BY QueueAssumption DEF Fresh, FrameState
<1> QED  BY <1>1 DEF Spawn

(* A frame that moves on keeps the others as they are.                     *)
LEMMA MoveType ==
  ASSUME TypeOK, NEW f \in Events, NEW state \in FrameState
  PROVE  /\ [frame EXCEPT ![f] = state] \in [Events -> FrameState]
         /\ [frame EXCEPT ![f] = state][f] = state
         /\ \A g \in Events \ {f} : [frame EXCEPT ![f] = state][g] = frame[g]
BY DEF TypeOK

LEMMA RestingType ==
  ASSUME NEW f \in Events, NEW pc \in {"none", "finally", "done"}
  PROVE  Resting(f, pc) \in FrameState /\ Resting(f, pc).pc = pc
BY QueueAssumption DEF Resting, FrameState

LEMMA RespondingType ==
  ASSUME NEW state \in FrameState
  PROVE  Responding(state) \in FrameState /\ Responding(state).pc = "respond"
BY QueueAssumption DEF Responding, FrameState

----------------------------------------------------------------------------
LEMMA InitIInv == Init => IInv
<1> SUFFICES ASSUME Init PROVE IInv
  OBVIOUS
<1>1. TypeOK
  <2>1. frame \in [Events -> FrameState]
    BY RestingType DEF Init
  <2>2. accepted \in Seq(Events) /\ started \in Seq(Events) /\ overflow \in Seq(Events)
    BY DEF Init
  <2> QED  BY <2>1, <2>2 DEF Init, TypeOK
<1>2. OwnerRuns
  BY RestingType DEF Init, OwnerRuns, Running
<1> QED  BY <1>1, <1>2 DEF IInv

LEMMA StartTurnIInv ==
  ASSUME IInv, NEW e \in UserEvents, StartTurn(e)
  PROVE  IInv'
<1> USE DEF Events
<1>1. e \in Events /\ TypeOK /\ frame \in [Events -> FrameState] /\ started \in Seq(Events)
  BY DEF IInv, TypeOK
<1>2. Spawn(e, frame)
  BY DEF StartTurn
<1>3. /\ guard' = TRUE /\ owner' = e /\ frame' \in [Events -> FrameState]
      /\ started' \in Seq(Events) /\ \A g \in Events \ {e} : frame'[g] = frame[g]
  BY <1>1, <1>2, SpawnType
<1>4. TypeOK'
  BY <1>1, <1>3 DEF TypeOK, StartTurn
<1>5. OwnerRuns'
  BY <1>3 DEF IInv, OwnerRuns, Running, StartTurn
<1> QED  BY <1>4, <1>5 DEF IInv

LEMMA CheckBusyIInv ==
  ASSUME IInv, NEW e \in UserEvents, CheckBusy(e)
  PROVE  IInv'
BY DEF CheckBusy, IInv, TypeOK, OwnerRuns, Running

LEMMA InterruptedType ==
  ASSUME TypeOK
  PROVE  /\ Interrupted \in [Events -> FrameState]
         /\ \A f \in Events : Interrupted[f].pc = frame[f].pc
BY DEF TypeOK, FrameState, Interrupted

LEMMA QueueBusyMessageIInv ==
  ASSUME IInv, NEW e \in UserEvents, QueueBusyMessage(e)
  PROVE  IInv'
<1>1. e \in Events /\ TypeOK /\ guard' = guard /\ owner' = owner
  BY DEF IInv, Events, QueueBusyMessage
<1>2. frame' \in [Events -> FrameState] /\ \A f \in Events : frame'[f].pc = frame[f].pc
  <2>1. CASE frame' = Interrupted
    BY <2>1, <1>1, InterruptedType
  <2>2. CASE frame' = frame
    BY <2>2, <1>1 DEF TypeOK
  <2> QED  BY <2>1, <2>2 DEF QueueBusyMessage
<1>3. /\ slot' \in Events \cup {NULL} /\ overflow' \in Seq(Events)
      /\ accepted' \in Seq(Events)
  <2>1. CASE Enqueue(e) /\ accepted' = Append(accepted, e)
    BY <1>1, <2>1, EnqueueType DEF TypeOK
  <2>2. CASE UNCHANGED <<slot, overflow, accepted>>
    BY <1>1, <2>2 DEF TypeOK
  <2> QED  BY <2>1, <2>2 DEF QueueBusyMessage
<1>4. TypeOK'
  BY <1>1, <1>2, <1>3 DEF TypeOK, QueueBusyMessage
<1>5. OwnerRuns'
  BY <1>1, <1>2 DEF IInv, OwnerRuns, Running
<1> QED  BY <1>4, <1>5 DEF IInv

LEMMA PushIInv ==
  ASSUME IInv, NEW e \in PushEvents, Push(e)
  PROVE  IInv'
<1>1. e \in Events /\ TypeOK
  BY DEF IInv, Events
<1>2. slot' \in Events \cup {NULL} /\ overflow' \in Seq(Events)
  BY <1>1, EnqueueType DEF Push
<1>3. TypeOK'
  BY <1>1, <1>2 DEF TypeOK, Push
<1>4. OwnerRuns'
  BY DEF IInv, OwnerRuns, Running, Push
<1> QED  BY <1>3, <1>4 DEF IInv

----------------------------------------------------------------------------
LEMMA RecurseIInv ==
  ASSUME IInv, NEW f \in Events, Recurse(f)
  PROVE  IInv'
<1>1. TypeOK /\ Running(f) /\ guard /\ owner = f /\ guard' = guard /\ owner' = owner
  BY DEF IInv, OwnerRuns, Running, Recurse
<1>2. NextPending \in Events /\ Promoted \in Events \cup {NULL} /\ Shortened \in Seq(Events)
  BY <1>1, DrainType DEF Recurse
<1>3. /\ frame' \in [Events -> FrameState]
      /\ \A g \in Events : frame'[g].pc = frame[g].pc
  BY <1>1, <1>2, QueueAssumption DEF TypeOK, FrameState, Recurse
<1>4. TypeOK'
  BY <1>1, <1>2, <1>3 DEF TypeOK, Recurse
<1>5. OwnerRuns'
  BY <1>1, <1>3 DEF IInv, OwnerRuns, Running
<1> QED  BY <1>4, <1>5 DEF IInv

(* A running frame that goes on to another running place keeps the session. *)
LEMMA MoveRunning ==
  ASSUME IInv, NEW f \in Events, Running(f), NEW state \in FrameState,
         frame' = [frame EXCEPT ![f] = state],
         slot' \in Events \cup {NULL}, overflow' \in Seq(Events),
         UNCHANGED <<guard, owner, checking, accepted, started>>
  PROVE  IInv'
<1>1. TypeOK /\ guard /\ owner = f
  BY DEF IInv, OwnerRuns
<1>2. frame' \in [Events -> FrameState] /\ \A g \in Events \ {f} : frame'[g] = frame[g]
  BY <1>1, MoveType
<1>3. TypeOK'
  BY <1>1, <1>2 DEF TypeOK
<1>4. OwnerRuns'
  BY <1>1, <1>2 DEF IInv, OwnerRuns, Running
<1> QED  BY <1>3, <1>4 DEF IInv

LEMMA StopAtCapIInv ==
  ASSUME IInv, NEW f \in Events, StopAtCap(f)
  PROVE  IInv'
<1>1. TypeOK /\ Running(f) /\ frame[f] \in FrameState
  BY DEF IInv, TypeOK, Running, StopAtCap
<1>2. slot' \in Events \cup {NULL} /\ overflow' \in Seq(Events)
  BY <1>1, DrainType DEF StopAtCap
<1>3. Responding(frame[f]) \in FrameState
  BY <1>1, RespondingType
<1> QED  BY <1>1, <1>2, <1>3, MoveRunning DEF StopAtCap

(* ReturnReply, ReturnError and TurnAway only move their frame on.         *)
LEMMA ReturnIInv ==
  ASSUME IInv, NEW f \in Events, ReturnReply(f) \/ ReturnError(f) \/ TurnAway(f)
  PROVE  IInv'
<1>1. /\ TypeOK /\ Running(f) /\ frame[f] \in FrameState
      /\ frame' = [frame EXCEPT ![f] = Responding(frame[f])]
      /\ UNCHANGED <<slot, overflow, guard, owner, checking, accepted, started>>
  BY DEF IInv, TypeOK, Running, ReturnReply, ReturnError, TurnAway
<1>2. Responding(frame[f]) \in FrameState /\ slot' \in Events \cup {NULL} /\ overflow' \in Seq(Events)
  BY <1>1, RespondingType DEF TypeOK
<1> QED  BY <1>1, <1>2, MoveRunning

LEMMA BeginIInv ==
  ASSUME IInv, NEW f \in Events, Begin(f)
  PROVE  IInv'
<1> DEFINE state == [frame[f] EXCEPT !.pc = "agent"]
<1>1. /\ TypeOK /\ Running(f) /\ state \in FrameState
      /\ frame' = [frame EXCEPT ![f] = state]
      /\ UNCHANGED <<slot, overflow, guard, owner, checking, accepted, started>>
  BY DEF IInv, TypeOK, Running, Begin, FrameState
<1>2. slot' \in Events \cup {NULL} /\ overflow' \in Seq(Events)
  BY <1>1 DEF TypeOK
<1> HIDE DEF state
<1> QED  BY <1>1, <1>2, MoveRunning

(* Once a frame has stopped running and gives the slot to a new frame, no  *)
(* other frame runs: the one that did was the owner.                       *)
LEMMA HandOverIInv ==
  ASSUME IInv, NEW f \in Events, NEW pc \in {"finally", "done"}, owner = f,
         slot # NULL, slot' = NULL, Spawn(slot, [frame EXCEPT ![f] = Resting(f, pc)]),
         UNCHANGED <<overflow, checking, accepted>>
  PROVE  IInv'
<1> DEFINE others == [frame EXCEPT ![f] = Resting(f, pc)]
<1>1. TypeOK /\ slot \in Events /\ started \in Seq(Events)
  BY DEF IInv, TypeOK
<1>2. /\ others \in [Events -> FrameState] /\ others[f].pc = pc
      /\ \A g \in Events \ {f} : others[g] = frame[g]
  BY <1>1, MoveType, RestingType
<1>3. /\ guard' = TRUE /\ owner' = slot /\ frame' \in [Events -> FrameState]
      /\ started' \in Seq(Events) /\ \A g \in Events \ {slot} : frame'[g] = others[g]
  <2> HIDE DEF others
  <2>1. Spawn(slot, others)
    BY DEF others
  <2> QED  BY <1>1, <1>2, <2>1, SpawnType
<1>4. TypeOK'
  BY <1>1, <1>3 DEF TypeOK
<1>5. \A g \in Events \ {slot} : others[g].pc \notin {"starting", "agent", "respond"}
  BY <1>2 DEF IInv, OwnerRuns, Running
<1>6. OwnerRuns'
  <2> HIDE DEF others
  <2> QED  BY <1>3, <1>5 DEF OwnerRuns, Running
<1> QED  BY <1>4, <1>6 DEF IInv

LEMMA InBandDrainIInv ==
  ASSUME IInv, NEW f \in Events, InBandDrain(f)
  PROVE  IInv'
<1>1. TypeOK /\ Running(f) /\ guard /\ owner = f
  BY DEF IInv, OwnerRuns, Running, InBandDrain
<1>2. CASE slot # NULL /\ slot' = NULL /\ Spawn(slot, [frame EXCEPT ![f] = Resting(f, "finally")])
  BY <1>1, <1>2, HandOverIInv DEF InBandDrain
<1>3. CASE /\ frame' = [frame EXCEPT ![f] = Resting(f, "finally")]
           /\ UNCHANGED <<slot, guard, owner, started>>
  <2>1. /\ frame' \in [Events -> FrameState] /\ frame'[f].pc = "finally"
        /\ \A g \in Events \ {f} : frame'[g] = frame[g]
    BY <1>1, <1>3, MoveType, RestingType
  <2>2. TypeOK'
    BY <1>1, <1>3, <2>1 DEF TypeOK, InBandDrain
  <2>3. OwnerRuns'
    BY <1>3, <2>1 DEF IInv, OwnerRuns, Running
  <2> QED  BY <2>2, <2>3 DEF IInv
<1> QED  BY <1>2, <1>3 DEF InBandDrain

LEMMA FinishIInv ==
  ASSUME IInv, NEW f \in Events, Finish(f)
  PROVE  IInv'
<1> DEFINE over == [frame EXCEPT ![f] = Resting(f, "done")]
<1>1. TypeOK /\ ~Running(f)
  BY DEF IInv, Running, Finish
<1>2. CASE slot # NULL /\ owner = f /\ slot' = NULL /\ Spawn(slot, over)
  BY <1>2, HandOverIInv DEF Finish
<1>3. over \in [Events -> FrameState] /\ over[f].pc = "done"
      /\ \A g \in Events \ {f} : over[g] = frame[g]
  BY <1>1, MoveType, RestingType
<1>4. CASE /\ slot = NULL /\ owner = f /\ guard' = FALSE /\ owner' = NULL /\ frame' = over
           /\ UNCHANGED <<slot, started>>
  <2>1. TypeOK'
    BY <1>1, <1>3, <1>4 DEF TypeOK, Finish
  <2>2. \A g \in Events : ~Running(g)
    BY <1>1, <1>4 DEF IInv, OwnerRuns
  <2>3. OwnerRuns'
    BY <1>3, <1>4, <2>2 DEF OwnerRuns, Running
  <2> QED  BY <2>1, <2>3 DEF IInv
<1>5. CASE owner # f /\ frame' = over /\ UNCHANGED <<slot, guard, owner, started>>
  <2>1. TypeOK'
    BY <1>1, <1>3, <1>5 DEF TypeOK, Finish
  <2>2. OwnerRuns'
    BY <1>3, <1>5 DEF IInv, OwnerRuns, Running
  <2> QED  BY <2>1, <2>2 DEF IInv
<1> QED  BY <1>2, <1>4, <1>5 DEF Finish

----------------------------------------------------------------------------
LEMMA StepIInv == IInv /\ [Next]_queueVars => IInv'
<1> SUFFICES ASSUME IInv, [Next]_queueVars PROVE IInv'
  OBVIOUS
<1>1. CASE \E e \in UserEvents : StartTurn(e) \/ CheckBusy(e) \/ QueueBusyMessage(e)
  BY <1>1, StartTurnIInv, CheckBusyIInv, QueueBusyMessageIInv
<1>2. CASE \E e \in PushEvents : Push(e)
  BY <1>2, PushIInv
<1>3. CASE \E f \in Events : Step(f)
  BY <1>3, BeginIInv, RecurseIInv, StopAtCapIInv, ReturnIInv, InBandDrainIInv, FinishIInv DEF Step
<1>4. CASE UNCHANGED queueVars
  BY <1>4 DEF queueVars, IInv, TypeOK, OwnerRuns, Running
<1> QED  BY <1>1, <1>2, <1>3, <1>4 DEF Next

(* The inductive invariant of the session queue: types, and a running      *)
(* frame owns the guarded session.                                         *)
THEOREM QueueIntegrity == Spec => []IInv
BY InitIInv, StepIInv, PTL DEF Spec

(* Every variable of the session queue keeps its type; recursion stays     *)
(* within the cap of _run_agent.                                           *)
THEOREM QueueTypes == Spec => []TypeOK
<1>1. IInv => TypeOK
  BY DEF IInv
<1> QED  BY <1>1, QueueIntegrity, PTL

(* However messages, drains and unwinding tasks interleave, at most one    *)
(* task of the session runs the agent or sends its reply.                  *)
THEOREM OneTurnAtATime == Spec => []OneTurn
<1>1. IInv => OneTurn
  BY DEF IInv, OwnerRuns, OneTurn
<1> QED  BY <1>1, QueueIntegrity, PTL

----------------------------------------------------------------------------
(* No event is run twice.  An event is new only until it is accepted, and  *)
(* what waits or has had its turn was accepted; a message whose busy       *)
(* handler still waits is not.                                             *)
Tracked ==
  /\ Waiting \cup SeqSet(started) \subseteq SeqSet(accepted)
  /\ checking \cap SeqSet(accepted) = {}

Once == NoSecondTurn /\ Tracked

LEMMA AppendSet ==
  ASSUME NEW s \in Seq(Events), NEW e \in Events
  PROVE  SeqSet(Append(s, e)) = SeqSet(s) \cup {e}
<1>1. Len(Append(s, e)) = Len(s) + 1 /\ Append(s, e)[Len(s) + 1] = e
  OBVIOUS
<1>2. \A i \in 1..Len(s) : Append(s, e)[i] = s[i]
  OBVIOUS
<1>3. 1..(Len(s) + 1) = 1..Len(s) \cup {Len(s) + 1}
  OBVIOUS
<1> QED  BY <1>1, <1>2, <1>3 DEF SeqSet

LEMMA AppendNoRepeat ==
  ASSUME NEW s \in Seq(Events), NEW e \in Events, NoRepeat(s), e \notin SeqSet(s)
  PROVE  NoRepeat(Append(s, e))
<1>1. Len(Append(s, e)) = Len(s) + 1 /\ Append(s, e)[Len(s) + 1] = e
  OBVIOUS
<1>2. \A i \in 1..Len(s) : Append(s, e)[i] = s[i] /\ s[i] # e
  BY DEF SeqSet
<1> QED  BY <1>1, <1>2 DEF NoRepeat

(* The head of a sequence without repetition is not in its tail.           *)
LEMMA TailSet ==
  ASSUME NEW s \in Seq(Events), s # <<>>, NoRepeat(s)
  PROVE  /\ Head(s) \in SeqSet(s)
         /\ SeqSet(Tail(s)) = SeqSet(s) \ {Head(s)}
         /\ NoRepeat(Tail(s))
<1>1. /\ Len(s) \in Nat \ {0} /\ Head(s) = s[1] /\ Len(Tail(s)) = Len(s) - 1
      /\ \A i \in 1..(Len(s) - 1) : Tail(s)[i] = s[i + 1]
  OBVIOUS
<1>2. Head(s) \in SeqSet(s)
  BY <1>1 DEF SeqSet
<1>3. NoRepeat(Tail(s))
  BY <1>1 DEF NoRepeat
<1>4. SeqSet(Tail(s)) \subseteq SeqSet(s) \ {Head(s)}
  BY <1>1 DEF SeqSet, NoRepeat
<1>5. ASSUME NEW i \in 1..Len(s), s[i] # s[1]
      PROVE  s[i] \in SeqSet(Tail(s))
  <2>1. i - 1 \in 1..(Len(s) - 1) /\ Tail(s)[i - 1] = s[i]
    BY <1>1, <1>5
  <2> QED  BY <1>1, <2>1 DEF SeqSet
<1>6. SeqSet(s) \ {Head(s)} \subseteq SeqSet(Tail(s))
  BY <1>1, <1>5 DEF SeqSet
<1> QED  BY <1>2, <1>3, <1>4, <1>6

(* The drain takes one waiting event out and keeps the rest apart.         *)
LEMMA DrainKeeps ==
  ASSUME TypeOK, NoRepeat(overflow), slot \notin SeqSet(overflow), NextPending # NULL
  PROVE  /\ NextPending \in Waiting
         /\ NoRepeat(Shortened) /\ Promoted \notin SeqSet(Shortened)
         /\ SeqSet(Shortened) \cup ({Promoted} \ {NULL}) \subseteq Waiting \ {NextPending}
<1>1. overflow \in Seq(Events) /\ NULL \notin Events /\ SeqSet(overflow) \subseteq Events
  BY QueueAssumption DEF TypeOK, SeqSet
<1>2. overflow # <<>> => /\ Head(overflow) \in SeqSet(overflow)
                         /\ SeqSet(Tail(overflow)) = SeqSet(overflow) \ {Head(overflow)}
                         /\ NoRepeat(Tail(overflow))
  BY <1>1, TailSet
<1>3. CASE overflow = <<>>
  BY <1>1, <1>3 DEF NextPending, Promoted, Shortened, Waiting
<1>4. CASE overflow # <<>>
  BY <1>1, <1>2, <1>4 DEF NextPending, Promoted, Shortened, Waiting
<1> QED  BY <1>3, <1>4

LEMMA EnqueueOnce ==
  ASSUME TypeOK, Once, NEW e \in Events, e \notin SeqSet(accepted), Enqueue(e),
         accepted' = Append(accepted, e), UNCHANGED started,
         checking' \subseteq checking, e \notin checking'
  PROVE  Once'
<1>1. /\ accepted \in Seq(Events) /\ overflow \in Seq(Events)
      /\ e \notin Waiting /\ e \notin SeqSet(started) /\ NULL \notin Events
  BY QueueAssumption DEF TypeOK, Once, Tracked
<1>2. SeqSet(accepted') = SeqSet(accepted) \cup {e} /\ SeqSet(started') = SeqSet(started)
  BY <1>1, AppendSet
<1>3. CASE slot = NULL
  <2>1. slot' = e /\ overflow' = overflow
    BY <1>3 DEF Enqueue
  <2> QED  BY <1>1, <1>2, <1>3, <2>1 DEF Once, NoSecondTurn, Tracked, Waiting
<1>4. CASE slot # NULL
  <2>1. slot' = slot /\ overflow' = Append(overflow, e)
    BY <1>4 DEF Enqueue
  <2>2. e \notin SeqSet(overflow) /\ e # slot
    BY <1>1, <1>4 DEF Waiting
  <2>3. NoRepeat(overflow') /\ SeqSet(overflow') = SeqSet(overflow) \cup {e}
    BY <1>1, <2>1, <2>2, AppendNoRepeat, AppendSet DEF Once, NoSecondTurn
  <2> QED  BY <1>1, <1>2, <1>4, <2>1, <2>2, <2>3 DEF Once, NoSecondTurn, Tracked, Waiting
<1> QED  BY <1>3, <1>4

(* Event e, which had no turn, gets one and waits no more; what waits then *)
(* waited before.                                                          *)
LEMMA StartOnce ==
  ASSUME TypeOK, Once, NEW e \in Events, e \notin SeqSet(started),
         started' = Append(started, e),
         e \in SeqSet(accepted'), SeqSet(accepted) \subseteq SeqSet(accepted'),
         NoRepeat(overflow'), slot' \notin SeqSet(overflow'),
         Waiting' \subseteq Waiting \ {e}, checking' \cap SeqSet(accepted') = {}
  PROVE  Once'
<1>1. started \in Seq(Events) /\ NoRepeat(started)
  BY DEF TypeOK, Once, NoSecondTurn
<1>2. NoRepeat(started') /\ SeqSet(started') = SeqSet(started) \cup {e}
  BY <1>1, AppendSet, AppendNoRepeat
<1>3. NoSecondTurn'
  BY <1>2 DEF Once, NoSecondTurn
<1>4. Tracked'
  BY <1>2 DEF Once, Tracked
<1> QED  BY <1>3, <1>4 DEF Once

(* Nothing starts and nothing is accepted; what waits waited before.       *)
LEMMA SettleOnce ==
  ASSUME Once, UNCHANGED <<accepted, started>>,
         NoRepeat(overflow'), slot' \notin SeqSet(overflow'),
         Waiting' \subseteq Waiting, checking' \cap SeqSet(accepted) = {}
  PROVE  Once'
BY DEF Once, NoSecondTurn, Tracked

LEMMA ArrivalOnce ==
  ASSUME TypeOK, Once, NEW e \in UserEvents,
         StartTurn(e) \/ CheckBusy(e) \/ QueueBusyMessage(e)
  PROVE  Once'
<1>1. e \in Events /\ accepted \in Seq(Events) /\ NULL \notin Events
  BY QueueAssumption DEF TypeOK, Events
<1>2. CASE StartTurn(e)
  <2>1. /\ e \notin SeqSet(accepted) /\ e \notin checking
        /\ started' = Append(started, e) /\ accepted' = Append(accepted, e)
        /\ UNCHANGED <<slot, overflow, checking>>
    BY <1>2 DEF StartTurn, Spawn, New
  <2>2. SeqSet(accepted') = SeqSet(accepted) \cup {e}
    BY <1>1, <2>1, AppendSet
  <2>3. e \notin SeqSet(started) /\ e \notin Waiting
    BY <2>1 DEF Once, Tracked
  <2>4. Waiting' \subseteq Waiting \ {e}
    BY <2>1, <2>3 DEF Waiting
  <2>5. /\ NoRepeat(overflow') /\ slot' \notin SeqSet(overflow')
        /\ checking' \cap SeqSet(accepted') = {}
    BY <2>1, <2>2 DEF Once, NoSecondTurn, Tracked
  <2> QED  BY <1>1, <2>1, <2>2, <2>3, <2>4, <2>5, StartOnce
<1>3. CASE CheckBusy(e)
  BY <1>3 DEF CheckBusy, New, Once, NoSecondTurn, Tracked, Waiting
<1>4. CASE QueueBusyMessage(e)
  <2>1. e \notin SeqSet(accepted) /\ checking' = checking \ {e} /\ UNCHANGED started
    BY <1>4 DEF QueueBusyMessage, Once, Tracked
  <2>2. CASE Enqueue(e) /\ accepted' = Append(accepted, e)
    BY <1>1, <2>1, <2>2, EnqueueOnce
  <2>3. CASE UNCHANGED <<slot, overflow, accepted>>
    BY <2>1, <2>3 DEF Once, NoSecondTurn, Tracked, Waiting
  <2> QED  BY <1>4, <2>2, <2>3 DEF QueueBusyMessage
<1> QED  BY <1>2, <1>3, <1>4

LEMMA PushOnce ==
  ASSUME TypeOK, Once, NEW e \in PushEvents, Push(e)
  PROVE  Once'
<1>1. /\ e \in Events /\ e \notin SeqSet(accepted) /\ e \notin checking
      /\ Enqueue(e) /\ accepted' = Append(accepted, e) /\ UNCHANGED <<started, checking>>
  BY DEF Push, New, Events
<1> QED  BY <1>1, EnqueueOnce

LEMMA DrainOnce ==
  ASSUME TypeOK, Once, NEW f \in Events, Recurse(f) \/ StopAtCap(f)
  PROVE  Once'
<1>1. /\ NextPending # NULL /\ NextPending \in Events /\ NULL \notin Events
      /\ overflow' = Shortened /\ UNCHANGED <<checking, accepted>>
  BY DrainType, QueueAssumption DEF Recurse, StopAtCap
<1>2. /\ NextPending \in Waiting
      /\ NoRepeat(Shortened) /\ Promoted \notin SeqSet(Shortened)
      /\ SeqSet(Shortened) \cup ({Promoted} \ {NULL}) \subseteq Waiting \ {NextPending}
  BY <1>1, DrainKeeps DEF Once, NoSecondTurn
<1>3. /\ NextPending \in SeqSet(accepted) /\ NextPending \notin SeqSet(started)
      /\ checking' \cap SeqSet(accepted') = {}
  BY <1>1, <1>2 DEF Once, NoSecondTurn, Tracked
<1>4. CASE Recurse(f)
  <2>1. slot' = Promoted /\ started' = Append(started, NextPending)
    BY <1>4 DEF Recurse
  <2>2. Waiting' \subseteq Waiting \ {NextPending}
    BY <1>1, <1>2, <2>1 DEF Waiting
  <2>3. NoRepeat(overflow') /\ slot' \notin SeqSet(overflow')
    BY <1>1, <1>2, <2>1
  <2> HIDE DEF NextPending
  <2> QED  BY <1>1, <1>3, <2>1, <2>2, <2>3, StartOnce
<1>5. CASE StopAtCap(f)
  <2>1. slot' = NextPending /\ UNCHANGED started
    BY <1>5 DEF StopAtCap
  <2>2. Waiting' \subseteq Waiting
    BY <1>1, <1>2, <2>1 DEF Waiting
  <2>3. NoRepeat(overflow') /\ slot' \notin SeqSet(overflow')
    BY <1>1, <1>2, <2>1
  <2> QED  BY <1>1, <1>3, <2>1, <2>2, <2>3, SettleOnce
<1> QED  BY <1>4, <1>5

LEMMA HandOverOnce ==
  ASSUME TypeOK, Once, NEW f \in Events, InBandDrain(f) \/ Finish(f)
  PROVE  Once'
<1>1. UNCHANGED <<overflow, checking, accepted>> /\ NULL \notin Events
  BY QueueAssumption DEF InBandDrain, Finish
<1>2. \/ slot # NULL /\ slot' = NULL /\ started' = Append(started, slot)
      \/ UNCHANGED <<slot, started>>
  BY DEF InBandDrain, Finish, Spawn
<1>3. CASE slot # NULL /\ slot' = NULL /\ started' = Append(started, slot)
  <2>1. /\ slot \in Events /\ slot \in Waiting /\ slot \notin SeqSet(overflow)
        /\ slot \in SeqSet(accepted) /\ slot \notin SeqSet(started)
    BY <1>3 DEF TypeOK, Once, NoSecondTurn, Tracked, Waiting
  <2>2. Waiting' \subseteq Waiting \ {slot}
    BY <1>1, <1>3, <2>1 DEF Waiting
  <2>3. /\ NoRepeat(overflow') /\ slot' \notin SeqSet(overflow')
        /\ checking' \cap SeqSet(accepted') = {}
    BY <1>1, <1>3 DEF TypeOK, SeqSet, Once, NoSecondTurn, Tracked
  <2> QED  BY <1>1, <1>3, <2>1, <2>2, <2>3, StartOnce
<1>4. CASE UNCHANGED <<slot, started>>
  BY <1>1, <1>4 DEF Once, NoSecondTurn, Tracked, Waiting
<1> QED  BY <1>2, <1>3, <1>4

LEMMA StepOnce ==
  ASSUME TypeOK, Once, [Next]_queueVars
  PROVE  Once'
<1>1. CASE \E e \in UserEvents : StartTurn(e) \/ CheckBusy(e) \/ QueueBusyMessage(e)
  BY <1>1, ArrivalOnce
<1>2. CASE \E e \in PushEvents : Push(e)
  BY <1>2, PushOnce
<1>3. CASE \E f \in Events : Recurse(f) \/ StopAtCap(f) \/ InBandDrain(f) \/ Finish(f)
  BY <1>3, DrainOnce, HandOverOnce
<1>4. CASE \/ \E f \in Events : Begin(f) \/ TurnAway(f) \/ ReturnReply(f) \/ ReturnError(f)
           \/ UNCHANGED queueVars
  <2>1. UNCHANGED <<slot, overflow, checking, accepted, started>>
    BY <1>4 DEF Begin, TurnAway, ReturnReply, ReturnError, queueVars
  <2> QED  BY <2>1 DEF Once, NoSecondTurn, Tracked, Waiting
<1> QED  BY <1>1, <1>2, <1>3, <1>4 DEF Next, Step

(* The inductive invariant of the histories.                               *)
THEOREM EachOnce == Spec => []Once
<1>1. Init => Once
  <2> SUFFICES ASSUME Init PROVE Once
    OBVIOUS
  <2>1. SeqSet(<<>>) = {} /\ NoRepeat(<<>>)
    BY DEF SeqSet, NoRepeat
  <2> QED  BY <2>1 DEF Init, Once, NoSecondTurn, Tracked, Waiting
<1>2. TypeOK /\ Once /\ [Next]_queueVars => Once'
  BY StepOnce
<1> QED  BY <1>1, <1>2, QueueTypes, PTL DEF Spec

(* However the drains, the requeue at the recursion cap and the hand-overs *)
(* interleave with arrivals, no event of the session has a second turn.    *)
THEOREM NoEventRunsTwice == Spec => []NoSecondTurn
<1>1. Once => NoSecondTurn
  BY DEF Once
<1> QED  BY <1>1, EachOnce, PTL

----------------------------------------------------------------------------
(* The overflow stays in arrival order: only a new event joins it, at the  *)
(* end, and only its head leaves it.                                       *)
LEMMA BeforeKept ==
  ASSUME NEW s \in Seq(Events), NEW e \in Events, NEW a, NEW b, Before(s, a, b)
  PROVE  Before(Append(s, e), a, b)
<1>1. Len(Append(s, e)) = Len(s) + 1 /\ \A i \in 1..Len(s) : Append(s, e)[i] = s[i]
  OBVIOUS
<1> QED  BY <1>1 DEF Before

LEMMA BeforeNew ==
  ASSUME NEW s \in Seq(Events), NEW e \in Events, NEW a \in SeqSet(s)
  PROVE  Before(Append(s, e), a, e)
<1>1. /\ Len(Append(s, e)) = Len(s) + 1 /\ Append(s, e)[Len(s) + 1] = e
      /\ \A i \in 1..Len(s) : Append(s, e)[i] = s[i]
  OBVIOUS
<1>2. PICK i \in 1..Len(s) : s[i] = a
  BY DEF SeqSet
<1>3. i \in 1..Len(Append(s, e)) /\ Len(s) + 1 \in 1..Len(Append(s, e)) /\ i < Len(s) + 1
  BY <1>1
<1> QED  BY <1>1, <1>2, <1>3 DEF Before

(* An arrival, in the slot, at the end of the overflow, or in neither.     *)
LEMMA ArrivalInOrder ==
  ASSUME TypeOK, Once, OverflowInOrder, NEW e \in Events,
         overflow' \in {overflow, Append(overflow, e)}, accepted' = Append(accepted, e)
  PROVE  OverflowInOrder'
<1>1. /\ accepted \in Seq(Events) /\ overflow \in Seq(Events)
      /\ SeqSet(overflow) \subseteq SeqSet(accepted)
  BY DEF TypeOK, Once, Tracked, Waiting
<1>2. \A i, j \in 1..Len(overflow) : i < j => Before(accepted', overflow[i], overflow[j])
  BY <1>1, BeforeKept DEF OverflowInOrder
<1>3. CASE overflow' = overflow
  BY <1>2, <1>3 DEF OverflowInOrder
<1>4. CASE overflow' = Append(overflow, e)
  <2>1. /\ Len(overflow') = Len(overflow) + 1 /\ overflow'[Len(overflow) + 1] = e
        /\ \A i \in 1..Len(overflow) : overflow'[i] = overflow[i]
    BY <1>1, <1>4
  <2>2. \A i \in 1..Len(overflow) : overflow[i] \in SeqSet(accepted)
    BY <1>1 DEF SeqSet
  <2>3. \A i \in 1..Len(overflow) : Before(accepted', overflow[i], e)
    BY <1>1, <2>2, BeforeNew
  <2>4. ASSUME NEW i \in 1..Len(overflow'), NEW j \in 1..Len(overflow'), i < j
        PROVE  Before(accepted', overflow'[i], overflow'[j])
    <3>1. i \in 1..Len(overflow)
      BY <1>1, <2>1, <2>4
    <3>2. j \in 1..Len(overflow) \/ j = Len(overflow) + 1
      BY <1>1, <2>1
    <3> QED  BY <1>2, <2>1, <2>3, <2>4, <3>1, <3>2
  <2> QED  BY <2>4 DEF OverflowInOrder
<1> QED  BY <1>3, <1>4

LEMMA ShortenInOrder ==
  ASSUME TypeOK, OverflowInOrder, overflow' \in {overflow, Shortened}, UNCHANGED accepted
  PROVE  OverflowInOrder'
<1>1. overflow \in Seq(Events)
  BY DEF TypeOK
<1>2. CASE overflow' = overflow
  BY <1>2 DEF OverflowInOrder
<1>3. CASE overflow # <<>> /\ overflow' = Tail(overflow)
  <2>1. /\ Len(overflow) \in Nat /\ Len(overflow') = Len(overflow) - 1
        /\ \A i \in 1..(Len(overflow) - 1) : overflow'[i] = overflow[i + 1]
    BY <1>1, <1>3
  <2>2. ASSUME NEW i \in 1..Len(overflow'), NEW j \in 1..Len(overflow'), i < j
        PROVE  Before(accepted', overflow'[i], overflow'[j])
    <3>1. i + 1 \in 1..Len(overflow) /\ j + 1 \in 1..Len(overflow) /\ i + 1 < j + 1
      BY <2>1, <2>2
    <3>2. Before(accepted, overflow[i + 1], overflow[j + 1])
      BY <3>1 DEF OverflowInOrder
    <3> QED  BY <2>1, <2>2, <3>2
  <2> QED  BY <2>2 DEF OverflowInOrder
<1> QED  BY <1>2, <1>3 DEF Shortened

LEMMA StepInOrder ==
  ASSUME TypeOK, Once, OverflowInOrder, [Next]_queueVars
  PROVE  OverflowInOrder'
<1>1. ASSUME NEW e \in UserEvents, StartTurn(e) \/ CheckBusy(e) \/ QueueBusyMessage(e)
      PROVE  OverflowInOrder'
  <2>1. e \in Events
    BY DEF Events
  <2>2. \/ UNCHANGED <<overflow, accepted>>
        \/ overflow' \in {overflow, Append(overflow, e)} /\ accepted' = Append(accepted, e)
    BY <1>1 DEF StartTurn, CheckBusy, QueueBusyMessage, Enqueue
  <2> QED  BY <2>1, <2>2, ArrivalInOrder, ShortenInOrder
<1>2. ASSUME NEW e \in PushEvents, Push(e)
      PROVE  OverflowInOrder'
  <2>1. e \in Events
    BY DEF Events
  <2>2. overflow' \in {overflow, Append(overflow, e)} /\ accepted' = Append(accepted, e)
    BY <1>2 DEF Push, Enqueue
  <2> QED  BY <2>1, <2>2, ArrivalInOrder
<1>3. ASSUME (\E f \in Events : Step(f)) \/ UNCHANGED queueVars
      PROVE  OverflowInOrder'
  <2>1. overflow' \in {overflow, Shortened} /\ UNCHANGED accepted
    BY <1>3 DEF Step, Begin, TurnAway, Recurse, StopAtCap, ReturnReply, ReturnError,
                InBandDrain, Finish, queueVars
  <2> QED  BY <2>1, ShortenInOrder
<1> QED  BY <1>1, <1>2, <1>3 DEF Next

(* However promotions, requeues and arrivals interleave, the overflow list *)
(* of the runner stays in the order in which its events were accepted.     *)
THEOREM OverflowKeepsOrder == Spec => []OverflowInOrder
<1>1. Init => OverflowInOrder
  BY DEF Init, OverflowInOrder
<1>2. TypeOK /\ Once /\ OverflowInOrder /\ [Next]_queueVars => OverflowInOrder'
  BY StepInOrder
<1> QED  BY <1>1, <1>2, QueueTypes, EachOnce, PTL DEF Spec
----------------------------------------------------------------------------
(* The session implements Inbox.  An event is where four sets put it: the  *)
(* one on turn, those started, those waiting and those accepted; each      *)
(* action moves one event between them, or drops one at the depth cap.     *)
Underway == OnTurn \subseteq SeqSet(started)

Held == IInv /\ Once /\ Underway

LEMMA PhaseKinds ==
  ASSUME Held, NEW e \in Events
  PROVE  /\ PhaseOf(e) = "turn" <=> e \in OnTurn
         /\ PhaseOf(e) = "waiting" <=> e \in Waiting
         /\ e \notin SeqSet(accepted) => PhaseOf(e) = "new"
BY DEF Held, Underway, Once, NoSecondTurn, Tracked, PhaseOf

LEMMA PhaseSets ==
  ASSUME Held
  PROVE  Inbox!At("turn") = OnTurn \cap Events /\ Inbox!At("waiting") = Waiting \cap Events
BY PhaseKinds DEF Inbox!At

LEMMA Stays ==
  ASSUME OnTurn' = OnTurn, Waiting' = Waiting,
         SeqSet(started') = SeqSet(started), SeqSet(accepted') = SeqSet(accepted)
  PROVE  UNCHANGED [e \in Events |-> PhaseOf(e)]
BY DEF PhaseOf

LEMMA Arrives ==
  ASSUME Held, NEW e \in Events,
         e \notin SeqSet(accepted), SeqSet(accepted') = SeqSet(accepted) \cup {e},
         \/ /\ Waiting' = Waiting \cup {e}
            /\ OnTurn' = OnTurn /\ SeqSet(started') = SeqSet(started)
         \/ /\ Waiting' = Waiting /\ OnTurn = {}
            /\ OnTurn' = {e} /\ SeqSet(started') = SeqSet(started) \cup {e}
  PROVE  Inbox!Arrive(e)
<1>1. PhaseOf(e) = "new" /\ e \notin OnTurn /\ e \notin SeqSet(started)
  BY PhaseKinds DEF Held, Underway, Once, Tracked
<1>2. \A x \in Events \ {e} : PhaseOf(x)' = PhaseOf(x)
  BY DEF PhaseOf
<1>3. CASE Waiting' = Waiting \cup {e} /\ OnTurn' = OnTurn /\ SeqSet(started') = SeqSet(started)
  <2>1. PhaseOf(e)' = "waiting"
    BY <1>1, <1>3 DEF PhaseOf
  <2> QED  BY <1>1, <1>2, <2>1 DEF Inbox!Arrive
<1>4. CASE OnTurn = {} /\ OnTurn' = {e}
  <2>1. PhaseOf(e)' = "turn"
    BY <1>4 DEF PhaseOf
  <2>2. Inbox!At("turn") = {}
    BY <1>4, PhaseSets
  <2> QED  BY <1>1, <1>2, <2>1, <2>2 DEF Inbox!Arrive
<1> QED  BY <1>3, <1>4

LEMMA Served ==
  ASSUME Held, NEW e \in Events,
         e \in Waiting, Waiting' = Waiting \ {e}, OnTurn' = {e},
         SeqSet(started') = SeqSet(started) \cup {e}, SeqSet(accepted') = SeqSet(accepted)
  PROVE  Inbox!Serve(e)
<1>1. PhaseOf(e) = "waiting" /\ PhaseOf(e)' = "turn"
  BY PhaseKinds DEF PhaseOf
<1>2. \A x \in Events \ {e} : PhaseOf(x)' = IF x \in OnTurn THEN "done" ELSE PhaseOf(x)
  BY DEF PhaseOf, Held, Underway
<1> QED  BY <1>1, <1>2, PhaseSets DEF Inbox!Serve

LEMMA Ends ==
  ASSUME Held, NEW e \in Events, OnTurn = {e}, OnTurn' = {}, Waiting' = Waiting,
         SeqSet(started') = SeqSet(started), SeqSet(accepted') = SeqSet(accepted)
  PROVE  Inbox!End(e)
<1>1. PhaseOf(e) = "turn" /\ PhaseOf(e)' = "done"
  BY DEF PhaseOf, Held, Underway
<1>2. \A x \in Events \ {e} : PhaseOf(x)' = PhaseOf(x)
  BY DEF PhaseOf
<1> QED  BY <1>1, <1>2 DEF Inbox!End

LEMMA GivenUp ==
  ASSUME Held, NEW e \in Events,
         e \in Waiting, Waiting' = Waiting \ {e}, OnTurn' = OnTurn,
         (Waiting \cap Events) # {e}, (OnTurn \cap Events) # {},
         SeqSet(started') = SeqSet(started), SeqSet(accepted') = SeqSet(accepted)
  PROVE  Inbox!GiveUp(e)
<1>1. e \in SeqSet(accepted) /\ e \notin SeqSet(started) /\ e \notin OnTurn
  BY DEF Held, Underway, Once, NoSecondTurn, Tracked
<1>2. PhaseOf(e) = "waiting" /\ PhaseOf(e)' = "lost"
  BY <1>1 DEF PhaseOf
<1>3. \A x \in Events \ {e} : PhaseOf(x)' = PhaseOf(x)
  BY DEF PhaseOf
<1> QED  BY <1>2, <1>3, PhaseSets DEF Inbox!GiveUp

----------------------------------------------------------------------------
(* Who is on turn after a step: a frame that takes the session over is the *)
(* one that runs.                                                          *)
LEMMA TurnKept ==
  ASSUME \A g \in Events : /\ Running(g)' <=> Running(g)
                           /\ Running(g) => frame'[g].current = frame[g].current
  PROVE  OnTurn' = OnTurn
BY DEF OnTurn, Running

LEMMA TurnIs ==
  ASSUME OwnerRuns, NEW f \in Events, Running(f), NEW c, c = frame[f].current
  PROVE  OnTurn = {c}
BY DEF OwnerRuns, OnTurn, Running

LEMMA TurnGoesTo ==
  ASSUME OwnerRuns', NEW f \in Events, NEW c, frame'[f].current = c,
         frame'[f].pc \in {"starting", "agent", "respond"}
  PROVE  OnTurn' = {c}
BY DEF OwnerRuns, OnTurn, Running

LEMMA TurnSpawned ==
  ASSUME TypeOK, OwnerRuns', NEW e \in Events, NEW others \in [Events -> FrameState],
         Spawn(e, others)
  PROVE  OnTurn' = {e} /\ SeqSet(started') = SeqSet(started) \cup {e}
<1>1. frame'[e].current = e /\ frame'[e].pc = "starting"
  BY DEF Spawn, Fresh
<1>2. OnTurn' = {e}
  BY <1>1, TurnGoesTo
<1>3. SeqSet(started') = SeqSet(started) \cup {e}
  BY AppendSet DEF Spawn, TypeOK
<1> QED  BY <1>2, <1>3

(* What the drain leaves is what waited but for the event it took.         *)
LEMMA DrainLeaves ==
  ASSUME TypeOK, NoRepeat(overflow), slot \notin SeqSet(overflow), NextPending # NULL
  PROVE  SeqSet(Shortened) \cup ({Promoted} \ {NULL}) = Waiting \ {NextPending}
<1>1. overflow \in Seq(Events) /\ NULL \notin Events /\ SeqSet(overflow) \subseteq Events
  BY QueueAssumption DEF TypeOK, SeqSet
<1>2. overflow # <<>> => /\ Head(overflow) \in SeqSet(overflow)
                         /\ SeqSet(Tail(overflow)) = SeqSet(overflow) \ {Head(overflow)}
  BY <1>1, TailSet
<1>3. CASE overflow = <<>>
  <2>1. SeqSet(overflow) = {}
    BY <1>3 DEF SeqSet
  <2> QED  BY <1>1, <1>3, <2>1 DEF NextPending, Promoted, Shortened, Waiting
<1>4. CASE overflow # <<>>
  BY <1>1, <1>2, <1>4 DEF NextPending, Promoted, Shortened, Waiting
<1> QED  BY <1>3, <1>4

(* A step of Inbox, or none.                                               *)
Steps == Inbox!Next \/ UNCHANGED [e \in Events |-> PhaseOf(e)]

LEMMA EnqueueSteps ==
  ASSUME Held, NEW e \in Events, e \notin SeqSet(accepted), Enqueue(e),
         accepted' = Append(accepted, e), UNCHANGED started, OnTurn' = OnTurn
  PROVE  Steps /\ Underway'
<1>1. accepted \in Seq(Events) /\ overflow \in Seq(Events) /\ NULL \notin Events
  BY QueueAssumption DEF Held, IInv, TypeOK
<1>2. SeqSet(accepted') = SeqSet(accepted) \cup {e}
  BY <1>1, AppendSet
<1>3. Waiting' = Waiting \cup {e}
  <2>1. CASE slot = NULL
    BY <1>1, <2>1 DEF Enqueue, Waiting
  <2>2. CASE slot # NULL
    <3>1. slot' = slot /\ SeqSet(overflow') = SeqSet(overflow) \cup {e}
      BY <1>1, <2>2, AppendSet DEF Enqueue
    <3> QED  BY <3>1 DEF Waiting
  <2> QED  BY <2>1, <2>2
<1>4. SeqSet(started') = SeqSet(started)
  OBVIOUS
<1>5. Inbox!Arrive(e)
  BY <1>2, <1>3, <1>4, Arrives
<1> QED  BY <1>4, <1>5 DEF Steps, Inbox!Next, Held, Underway

LEMMA ArrivalSteps ==
  ASSUME Held, OwnerRuns', NEW e \in UserEvents,
         StartTurn(e) \/ CheckBusy(e) \/ QueueBusyMessage(e)
  PROVE  Steps /\ Underway'
<1>1. e \in Events /\ TypeOK /\ frame \in [Events -> FrameState]
  BY DEF Events, Held, IInv, TypeOK
<1>2. CASE StartTurn(e)
  <2>1. /\ e \notin SeqSet(accepted) /\ Spawn(e, frame) /\ accepted' = Append(accepted, e)
        /\ UNCHANGED <<slot, overflow>> /\ ~guard
    BY <1>2 DEF StartTurn, New
  <2>2. OnTurn' = {e} /\ SeqSet(started') = SeqSet(started) \cup {e}
    BY <1>1, <2>1, TurnSpawned
  <2>3. SeqSet(accepted') = SeqSet(accepted) \cup {e} /\ Waiting' = Waiting
    BY <1>1, <2>1, AppendSet DEF TypeOK, Waiting
  <2>4. OnTurn = {}
    BY <2>1 DEF Held, IInv, OwnerRuns, OnTurn
  <2>5. Inbox!Arrive(e)
    BY <1>1, <2>1, <2>2, <2>3, <2>4, Arrives
  <2> QED  BY <1>1, <2>2, <2>5 DEF Steps, Inbox!Next, Underway
<1>3. CASE CheckBusy(e)
  <2>1. UNCHANGED <<slot, overflow, frame, accepted, started>>
    BY <1>3 DEF CheckBusy
  <2>2. OnTurn' = OnTurn /\ Waiting' = Waiting
    BY <2>1 DEF OnTurn, Running, Waiting
  <2> QED  BY <2>1, <2>2, Stays DEF Steps, Held, Underway
<1>4. CASE QueueBusyMessage(e)
  <2>1. frame' = frame \/ frame' = Interrupted
    BY <1>4 DEF QueueBusyMessage
  <2>2. \A g \in Events : frame'[g].pc = frame[g].pc /\ frame'[g].current = frame[g].current
    BY <1>1, <2>1 DEF FrameState, Interrupted
  <2>3. OnTurn' = OnTurn
    BY <2>2, TurnKept DEF Running
  <2>4. e \notin SeqSet(accepted) /\ UNCHANGED started
    BY <1>4 DEF QueueBusyMessage, Held, Once, Tracked
  <2>5. CASE Enqueue(e) /\ accepted' = Append(accepted, e)
    BY <1>1, <2>3, <2>4, <2>5, EnqueueSteps
  <2>6. CASE UNCHANGED <<slot, overflow, accepted>>
    <3>1. Waiting' = Waiting
      BY <2>6 DEF Waiting
    <3> QED  BY <2>3, <2>4, <2>6, <3>1, Stays DEF Steps, Held, Underway
  <2> QED  BY <1>4, <2>5, <2>6 DEF QueueBusyMessage
<1> QED  BY <1>2, <1>3, <1>4

LEMMA PushSteps ==
  ASSUME Held, NEW e \in PushEvents, Push(e)
  PROVE  Steps /\ Underway'
<1>1. /\ e \in Events /\ e \notin SeqSet(accepted) /\ Enqueue(e)
      /\ accepted' = Append(accepted, e) /\ UNCHANGED <<started, frame>>
  BY DEF Push, New, Events
<1>2. OnTurn' = OnTurn
  BY <1>1 DEF OnTurn, Running
<1> QED  BY <1>1, <1>2, EnqueueSteps

(* A frame that moves on within its turn.                                  *)
LEMMA MoveSteps ==
  ASSUME Held, NEW f \in Events, Begin(f) \/ TurnAway(f) \/ ReturnReply(f) \/ ReturnError(f)
  PROVE  Steps /\ Underway'
<1>1. UNCHANGED <<slot, overflow, accepted, started>>
  BY DEF Begin, TurnAway, ReturnReply, ReturnError
<1>2. /\ frame \in [Events -> FrameState] /\ Running(f)
      /\ \/ frame' = [frame EXCEPT ![f].pc = "agent"]
         \/ frame' = [frame EXCEPT ![f] = Responding(frame[f])]
  BY DEF Held, IInv, TypeOK, Running, Begin, TurnAway, ReturnReply, ReturnError
<1>3. /\ \A g \in Events \ {f} : frame'[g] = frame[g]
      /\ frame'[f].pc \in {"agent", "respond"} /\ frame'[f].current = frame[f].current
  BY <1>2 DEF FrameState, Responding
<1>4. OnTurn' = OnTurn /\ Waiting' = Waiting
  BY <1>1, <1>2, <1>3, TurnKept DEF Running, Waiting
<1> QED  BY <1>1, <1>4, Stays DEF Steps, Held, Underway

LEMMA RecurseSteps ==
  ASSUME Held, OwnerRuns', NEW f \in Events, Recurse(f)
  PROVE  Steps /\ Underway'
<1>1. /\ TypeOK /\ frame \in [Events -> FrameState] /\ NULL \notin Events
      /\ NoRepeat(overflow) /\ slot \notin SeqSet(overflow)
  BY QueueAssumption DEF Held, IInv, TypeOK, Once, NoSecondTurn
<1>2. PICK e \in Events : e = NextPending
  BY <1>1, DrainType DEF Recurse
<1>3. /\ e \in Waiting
      /\ SeqSet(Shortened) \cup ({Promoted} \ {NULL}) = Waiting \ {e}
  BY <1>1, <1>2, DrainKeeps, DrainLeaves
<1>4. /\ slot' = Promoted /\ overflow' = Shortened /\ started' = Append(started, e)
      /\ UNCHANGED accepted
      /\ frame' = [frame EXCEPT ![f].current = e, ![f].depth = @ + 1, ![f].hit = FALSE]
  BY <1>2 DEF Recurse
<1>5. frame'[f].current = e /\ frame'[f].pc = "agent"
  BY <1>1, <1>4 DEF Recurse, FrameState
<1>6. OnTurn' = {e}
  BY <1>5, TurnGoesTo
<1>7. SeqSet(started') = SeqSet(started) \cup {e} /\ Waiting' = Waiting \ {e}
  BY <1>1, <1>3, <1>4, AppendSet DEF TypeOK, Waiting
<1>8. Inbox!Serve(e)
  BY <1>3, <1>4, <1>6, <1>7, Served
<1> QED  BY <1>6, <1>7, <1>8 DEF Steps, Inbox!Next, Underway

(* At the cap the event taken takes the place of the one promoted.         *)
LEMMA StopAtCapSteps ==
  ASSUME Held, NEW f \in Events, StopAtCap(f)
  PROVE  Steps /\ Underway'
<1>1. /\ TypeOK /\ frame \in [Events -> FrameState] /\ NULL \notin Events
      /\ NoRepeat(overflow) /\ slot \notin SeqSet(overflow)
  BY QueueAssumption DEF Held, IInv, TypeOK, Once, NoSecondTurn
<1>2. PICK e \in Events : e = NextPending
  BY <1>1, DrainType DEF StopAtCap
<1>3. PICK p \in Events \cup {NULL} : p = Promoted
  BY <1>1, DrainType
<1>4. /\ e \in Waiting /\ p \notin SeqSet(Shortened)
      /\ SeqSet(Shortened) \cup ({p} \ {NULL}) = Waiting \ {e}
  BY <1>1, <1>2, <1>3, DrainKeeps, DrainLeaves
<1>5. /\ slot' = e /\ overflow' = Shortened /\ UNCHANGED <<accepted, started>>
      /\ frame' = [frame EXCEPT ![f] = Responding(frame[f])] /\ Running(f)
  BY <1>2 DEF StopAtCap, Running
<1>6. /\ \A g \in Events \ {f} : frame'[g] = frame[g]
      /\ frame'[f].pc = "respond" /\ frame'[f].current = frame[f].current
  BY <1>1, <1>5 DEF FrameState, Responding
<1>7. OnTurn' = OnTurn
  BY <1>5, <1>6, TurnKept DEF Running
<1>8. Waiting' = SeqSet(Shortened) \cup {e}
  BY <1>1, <1>5 DEF Waiting
<1>9. Underway'
  BY <1>5, <1>7 DEF Held, Underway
<1>10. CASE p = NULL
  <2>1. Waiting' = Waiting
    BY <1>4, <1>8, <1>10
  <2> QED  BY <1>5, <1>7, <1>9, <2>1, Stays DEF Steps
<1>11. CASE p # NULL
  <2>1. p \in Events /\ p \in Waiting /\ p # e /\ Waiting' = Waiting \ {p}
    BY <1>3, <1>4, <1>8, <1>11
  <2>2. (Waiting \cap Events) # {p}
    BY <1>4, <2>1
  <2>3. frame[f].current \in OnTurn \cap Events
    BY <1>1, <1>5 DEF OnTurn, FrameState
  <2>4. Inbox!GiveUp(p)
    BY <1>5, <1>7, <2>1, <2>2, <2>3, GivenUp
  <2> QED  BY <1>9, <2>1, <2>4 DEF Steps, Inbox!Next
<1> QED  BY <1>10, <1>11

LEMMA HandOverSteps ==
  ASSUME Held, OwnerRuns', NEW others \in [Events -> FrameState],
         slot # NULL, slot' = NULL, Spawn(slot, others), UNCHANGED <<overflow, accepted>>
  PROVE  Steps /\ Underway'
<1>1. PICK e \in Events : e = slot
  BY DEF Held, IInv, TypeOK
<1>2. e \in Waiting /\ e \notin SeqSet(overflow) /\ Spawn(e, others) /\ NULL \notin SeqSet(overflow)
  BY <1>1, QueueAssumption DEF Waiting, Held, IInv, TypeOK, Once, NoSecondTurn, SeqSet
<1>3. OnTurn' = {e} /\ SeqSet(started') = SeqSet(started) \cup {e}
  BY <1>2, TurnSpawned DEF Held, IInv
<1>4. Waiting' = Waiting \ {e}
  BY <1>1, <1>2 DEF Waiting
<1>5. Inbox!Serve(e)
  BY <1>2, <1>3, <1>4, Served
<1> QED  BY <1>3, <1>5 DEF Steps, Inbox!Next, Underway

LEMMA InBandDrainSteps ==
  ASSUME Held, OwnerRuns', NEW f \in Events, InBandDrain(f)
  PROVE  Steps /\ Underway'
<1> DEFINE unwinding == [frame EXCEPT ![f] = Resting(f, "finally")]
<1>1. /\ TypeOK /\ OwnerRuns /\ Running(f) /\ frame \in [Events -> FrameState]
      /\ UNCHANGED <<overflow, accepted>>
  BY DEF Held, IInv, TypeOK, Running, InBandDrain
<1>2. unwinding \in [Events -> FrameState]
      /\ unwinding[f].pc = "finally" /\ \A g \in Events \ {f} : unwinding[g] = frame[g]
  BY <1>1, MoveType, RestingType
<1>3. \/ slot # NULL /\ slot' = NULL /\ Spawn(slot, unwinding)
      \/ frame' = unwinding /\ UNCHANGED <<slot, started>>
  BY DEF InBandDrain
<1> HIDE DEF unwinding
<1>4. CASE slot # NULL /\ slot' = NULL /\ Spawn(slot, unwinding)
  BY <1>1, <1>2, <1>4, HandOverSteps
<1>5. CASE frame' = unwinding /\ UNCHANGED <<slot, started>>
  <2>1. PICK c \in Events : c = frame[f].current
    BY <1>1 DEF FrameState
  <2>2. OnTurn = {c}
    BY <1>1, <2>1, TurnIs
  <2>3. \A g \in Events : ~Running(g)'
    BY <1>1, <1>2, <1>5 DEF OwnerRuns, Running
  <2>4. OnTurn' = {}
    BY <2>3 DEF OnTurn, Running
  <2>5. Waiting' = Waiting
    BY <1>1, <1>5 DEF Waiting
  <2>6. Inbox!End(c)
    BY <1>1, <1>5, <2>2, <2>4, <2>5, Ends
  <2> QED  BY <2>4, <2>6 DEF Steps, Inbox!Next, Underway
<1> QED  BY <1>3, <1>4, <1>5

LEMMA FinishSteps ==
  ASSUME Held, OwnerRuns', NEW f \in Events, Finish(f)
  PROVE  Steps /\ Underway'
<1> DEFINE over == [frame EXCEPT ![f] = Resting(f, "done")]
<1>1. /\ TypeOK /\ ~Running(f) /\ frame \in [Events -> FrameState]
      /\ UNCHANGED <<overflow, accepted>>
  BY DEF Held, IInv, TypeOK, Running, Finish
<1>2. over \in [Events -> FrameState]
      /\ over[f].pc = "done" /\ \A g \in Events \ {f} : over[g] = frame[g]
  BY <1>1, MoveType, RestingType
<1>3. \/ slot # NULL /\ slot' = NULL /\ Spawn(slot, over)
      \/ frame' = over /\ UNCHANGED <<slot, started>>
  BY DEF Finish
<1> HIDE DEF over
<1>4. CASE slot # NULL /\ slot' = NULL /\ Spawn(slot, over)
  BY <1>1, <1>2, <1>4, HandOverSteps
<1>5. CASE frame' = over /\ UNCHANGED <<slot, started>>
  <2>1. OnTurn' = OnTurn
    BY <1>1, <1>2, <1>5, TurnKept DEF Running
  <2>2. Waiting' = Waiting
    BY <1>1, <1>5 DEF Waiting
  <2> QED  BY <1>1, <1>5, <2>1, <2>2, Stays DEF Steps, Held, Underway
<1> QED  BY <1>3, <1>4, <1>5

LEMMA StepSteps ==
  ASSUME Held, OwnerRuns', [Next]_queueVars
  PROVE  Steps /\ Underway'
<1>1. CASE \E e \in UserEvents : StartTurn(e) \/ CheckBusy(e) \/ QueueBusyMessage(e)
  BY <1>1, ArrivalSteps
<1>2. CASE \E e \in PushEvents : Push(e)
  BY <1>2, PushSteps
<1>3. CASE \E f \in Events : Step(f)
  BY <1>3, MoveSteps, RecurseSteps, StopAtCapSteps, InBandDrainSteps, FinishSteps DEF Step
<1>4. CASE UNCHANGED queueVars
  <2>1. UNCHANGED <<slot, overflow, frame, accepted, started>>
    BY <1>4 DEF queueVars
  <2>2. OnTurn' = OnTurn /\ Waiting' = Waiting
    BY <2>1 DEF OnTurn, Running, Waiting
  <2> QED  BY <2>1, <2>2, Stays DEF Steps, Held, Underway
<1> QED  BY <1>1, <1>2, <1>3, <1>4 DEF Next

(* The event of a running task has been started, also after a hand-over.   *)
THEOREM TurnsAreStarted == Spec => []Underway
<1>1. Init => Underway
  BY RestingType DEF Init, Underway, OnTurn, Running
<1>2. IInv /\ Once /\ Underway /\ IInv' /\ [Next]_queueVars => Underway'
  BY StepSteps DEF Held, IInv
<1> QED  BY <1>1, <1>2, QueueIntegrity, EachOnce, PTL DEF Spec

(* The slot, the overflow list and the tasks of a session implement Inbox: *)
(* an event waits, has one turn, which is handed on with no gap, and is    *)
(* given up only where the requeue at the depth cap writes over it.        *)
THEOREM InboxImplemented == Spec => ImplementsInbox
<1>1. Init => Inbox!Init
  <2> SUFFICES ASSUME Init  PROVE Inbox!Init
    OBVIOUS
  <2>1. SeqSet(<<>>) = {}
    BY DEF SeqSet
  <2>2. OnTurn = {}
    BY RestingType DEF Init, OnTurn, Running
  <2>3. Waiting = {} /\ SeqSet(started) = {} /\ SeqSet(accepted) = {}
    BY <2>1 DEF Init, Waiting
  <2>4. \A e \in Events : PhaseOf(e) = "new"
    BY <2>2, <2>3 DEF PhaseOf
  <2> QED  BY <2>4 DEF Inbox!Init
<1>2. IInv /\ Once /\ Underway /\ IInv' /\ [Next]_queueVars
        => [Inbox!Next]_[e \in Events |-> PhaseOf(e)]
  BY StepSteps DEF Held, IInv, Steps
<1> QED
  BY <1>1, <1>2, QueueIntegrity, EachOnce, TurnsAreStarted, PTL DEF Spec, ImplementsInbox, Inbox!Spec
============================================================================
