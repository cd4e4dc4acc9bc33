--------------------------- MODULE TopicDelivery ---------------------------
(***************************************************************************)
(* How a claimed topic reaches the user: the Topic Pool store (TopicPool), *)
(* the pulse of the gateway and the web claim API that take claims from    *)
(* it, and the message queue (SessionQueue) of the one private chat the    *)
(* pulse can push to.  The event that carries delivery d is named d.       *)
(*                                                                         *)
(* Words are abstracted to the fate of a reply: text the adapter sends,    *)
(* text already streamed to the chat, silence, or the apology for an       *)
(* agent that raised.                                                      *)
(***************************************************************************)
EXTENDS TopicPool, Sequences

CONSTANTS
  UserEvents,       \* messages the user writes in the private chat
  MaxDepth, MaxPending,
  Chat, Page,       \* the platforms there can be: a private chat, the web page
  Pulse, Browser,   \* the claimants there can be
  Streaming         \* is token streaming to the chat configured

ASSUME DeliveryAssumption ==
  /\ Chat # Page /\ Chat \in Platforms /\ Platforms \subseteq {Chat, Page}
  /\ Pulse # Browser /\ Pulse \in Claimants /\ Claimants \subseteq {Pulse, Browser}
  /\ Browser \in Claimants => Page \in Platforms
  /\ Streaming \in BOOLEAN
  /\ UserEvents \cap Deliveries = {} /\ NULL \notin UserEvents
  /\ MaxDepth \in Nat /\ MaxPending \in Nat \ {0}

VARIABLES
  slot, overflow, guard, owner, frame, checking, accepted, started,   \* SessionQueue
  inflight,   \* claimant -> the delivery it got from the store and still has
  reply,      \* frame -> what its runner gave back to the adapter
  callback,   \* frames with a post-delivery callback registered for them
  heard       \* history: delivery -> how often its words reached the user

Queue == INSTANCE SessionQueue WITH PushEvents <- Deliveries

sessionVars == <<slot, overflow, guard, owner, frame, checking, accepted, started>>
memoryVars  == <<inflight, reply, callback>>
vars        == <<poolVars, sessionVars, memoryVars, heard>>

Replies == {"text", "streamed", "silent", "apology"}

DeliveryTypeOK ==
  /\ TypeOK /\ Queue!TypeOK
  /\ inflight \in [Claimants -> Deliveries \cup {NULL}]
  /\ reply \in [Queue!Events -> Replies \cup {NULL}]
  /\ callback \subseteq Deliveries
  /\ heard \in [Deliveries -> Nat]

DeliveryInit ==
  /\ Init /\ Queue!Init
  /\ inflight = [c \in Claimants |-> NULL]
  /\ reply = [e \in Queue!Events |-> NULL]
  /\ callback = {}
  /\ heard = [d \in Deliveries |-> 0]

(* finish_delivery returns False, and changes nothing, for a row that is   *)
(* no longer reserved.                                                     *)
Settle(d, success) ==
  IF delivery[d].status = "reserved" THEN FinishDelivery(d, success)
  ELSE UNCHANGED poolVars

(* The words of the turn of event d reach the user.                        *)
Hear(d) == heard' = IF d \in Deliveries THEN [heard EXCEPT ![d] = @ + 1] ELSE heard

----------------------------------------------------------------------------
(* The store on its own: the clock, the Scout, the proactive_companion     *)
(* tool and the page's topic list.                                         *)
Curate ==
  /\ \/ Tick
     \/ \E new \in SUBSET Topics \ {{}} : AddCandidates(new)
     \/ ListOpenTopics
     \/ \E t \in Topics : DismissTopic(t) \/ ConsumeTopic(t)
     \/ \E p \in PrefSettings : UpdatePreferences(p)
  /\ UNCHANGED <<sessionVars, memoryVars, heard>>

----------------------------------------------------------------------------
(* Claims.                                                                 *)

(* A pulse, or a poll by the page; the page gets nothing unless the user's *)
(* latest message came from the web.                                       *)
BeginClaim(c) ==
  /\ inflight[c] = NULL
  /\ c = Browser => LatestChannel(Page, NULL)
  /\ ReadPreferences(c)
  /\ UNCHANGED <<sessionVars, memoryVars, heard>>

ContinueClaim(c) ==
  /\ ReadChannel(c) \/ RollBack(c)
  /\ UNCHANGED <<sessionVars, memoryVars, heard>>

Claimed(c, d) ==
  /\ \E t \in Topics : Reserve(c, d, t)
  /\ inflight' = [inflight EXCEPT ![c] = d]
  /\ UNCHANGED <<sessionVars, reply, callback, heard>>

\* Mutant: handing it to the queue counts as sending it.
HandOverAsSent ==
  /\ inflight[Pulse] # NULL
  /\ LET d == inflight[Pulse]
     IN  \/ /\ delivery[d].platform = Chat /\ ~Queue!AgentBusy
            /\ Queue!Push(d) /\ Settle(d, TRUE)
         \/ Settle(d, FALSE) /\ UNCHANGED sessionVars
  /\ inflight' = [inflight EXCEPT ![Pulse] = NULL]
  /\ UNCHANGED <<reply, callback, heard>>

(* _run_topic_pool_pulse after the reservation: it is handed to the queue, *)
(* or reported failed when the adapter is gone, when the channel cannot be *)
(* pushed to, or when the conversation is busy.                            *)
HandOver ==
  /\ inflight[Pulse] # NULL
  /\ LET d == inflight[Pulse]
     IN  \/ /\ delivery[d].platform = Chat /\ ~Queue!AgentBusy
            /\ Queue!Push(d)
            /\ UNCHANGED poolVars
         \/ Settle(d, FALSE) /\ UNCHANGED sessionVars
  /\ inflight' = [inflight EXCEPT ![Pulse] = NULL]
  /\ UNCHANGED <<reply, callback, heard>>

(* The page runs the prompt it was given as a turn ...                     *)
ShowOnPage ==
  /\ Browser \in Claimants /\ inflight[Browser] # NULL
  /\ heard[inflight[Browser]] = 0
  /\ Hear(inflight[Browser])
  /\ UNCHANGED <<poolVars, sessionVars, memoryVars>>

(* ... and reports how it went, or is closed before it reports.            *)
LeavePage ==
  /\ Browser \in Claimants /\ inflight[Browser] # NULL
  /\ LET d == inflight[Browser]
     IN  Settle(d, heard[d] > 0) \/ UNCHANGED poolVars
  /\ inflight' = [inflight EXCEPT ![Browser] = NULL]
  /\ UNCHANGED <<sessionVars, reply, callback, heard>>

----------------------------------------------------------------------------
(* The private chat.                                                       *)

WriteInChat(e) ==
  /\ Queue!StartTurn(e) \/ Queue!CheckBusy(e) \/ Queue!QueueBusyMessage(e)
  /\ UNCHANGED <<poolVars, memoryVars, heard>>

(* A frame spawned for a message moves the channel clock to the time the   *)
(* message was written, unless a later one has moved it; a message that is *)
(* run by recursion never does.                                            *)
RecordMessage(e) ==
  IF e \in UserEvents
  THEN \E at \in 0..now : /\ activity[Chat] # NULL => activity[Chat] <= at
                         /\ RecordChannelActivity(Chat, at)
  ELSE UNCHANGED poolVars

BeginTurn(f) ==
  /\ Queue!Begin(f)
  /\ RecordMessage(f)
  /\ UNCHANGED <<memoryVars, heard>>

(* Turned away before the agent: the reply is not the companion's, and the *)
(* completion of a delivery is never registered.                           *)
TurnedAway(f) ==
  /\ Queue!TurnAway(f)
  /\ RecordMessage(f) \/ UNCHANGED poolVars
  /\ reply' = [reply EXCEPT ![f] = "silent"]
  /\ UNCHANGED <<inflight, callback, heard>>

WriteOnPage ==
  /\ Page \in Platforms /\ activity[Page] # now
  /\ RecordChannelActivity(Page, now)
  /\ UNCHANGED <<sessionVars, memoryVars, heard>>

(* A reply the agent can end a turn with: an interrupted one has no text.  *)
Ends(f, r) ==
  /\ r \in {"text", "streamed", "silent"}
  /\ r = "streamed" => Streaming
  /\ frame[f].hit => r = "silent"

(* A queued event takes over in the same frame; the reply to the one       *)
(* before is sent directly, which may fail.                                *)
RunQueued(f) ==
  /\ Queue!Recurse(f)
  /\ \E r \in Replies :
       /\ Ends(f, r)
       /\ \/ r \in {"text", "streamed"} /\ Hear(frame[f].current)
          \/ r # "streamed" /\ UNCHANGED heard
  /\ UNCHANGED <<poolVars, memoryVars>>

(* The runner gives the reply of the frame's last turn to the adapter.  If *)
(* the frame was spawned for a delivery, the runner settles it here when   *)
(* it has no text to give back (a streamed reply comes back as None), and  *)
(* otherwise registers a callback.  An agent that raised is answered with  *)
(* an apology, which counts as text, or with nothing if the runner raises. *)
GiveBack(f) ==
  \E r \in Replies :
    /\ \/ r \in {"apology", "silent"} /\ Queue!ReturnError(f)
       \/ Ends(f, r) /\ (Queue!ReturnReply(f) \/ Queue!StopAtCap(f))
    /\ reply' = [reply EXCEPT ![f] = r]
    /\ IF r = "streamed" THEN Hear(frame[f].current) ELSE UNCHANGED heard
    /\ callback' = IF f \in Deliveries /\ r \in {"text", "apology"}
                   THEN callback \cup {f} ELSE callback
    /\ IF f \in Deliveries /\ r \in {"streamed", "silent"}
       THEN Settle(f, FALSE) ELSE UNCHANGED poolVars
    /\ UNCHANGED inflight

(* The adapter sends the reply; the send may fail.                         *)
SendReply(f) ==
  /\ Queue!InBandDrain(f)
  /\ \/ reply[f] = "text" /\ Hear(frame[f].current)
     \/ UNCHANGED heard
  /\ reply' = [reply EXCEPT ![f] = NULL]
  /\ UNCHANGED <<poolVars, inflight, callback>>

(* The finally block fires the callback, whether or not the send worked.   *)
(* It looks the callback up by the run generation it reads from the        *)
(* session guard, so it misses it when a successor has bound its own.      *)
FireCallback(f) ==
  /\ frame[f].pc = "finally" /\ f \in callback
  /\ callback' = callback \ {f}
  /\ Settle(f, TRUE) \/ (owner # f /\ UNCHANGED poolVars)
  /\ UNCHANGED <<sessionVars, inflight, reply, heard>>

Unwind(f) ==
  /\ f \notin callback
  /\ Queue!Finish(f)
  /\ UNCHANGED <<poolVars, memoryVars, heard>>

(* The gateway dies and comes back: its memory is gone, the tables stay.   *)
Restart ==
  /\ slot' = NULL /\ overflow' = <<>> /\ guard' = FALSE /\ owner' = NULL
  /\ frame' = [f \in Queue!Events |->
                 IF frame[f].pc = "none" THEN frame[f] ELSE Queue!Resting(f, "done")]
  /\ claim' = [c \in Claimants |-> Idle]
  /\ inflight' = [c \in Claimants |-> NULL]
  /\ callback' = {} /\ checking' = {}
  /\ reply' = [e \in Queue!Events |-> NULL]
  /\ UNCHANGED <<now, item, delivery, prefs, activity, accepted, started, heard>>

----------------------------------------------------------------------------
Next ==
  \/ Curate
  \/ \E c \in Claimants : BeginClaim(c) \/ ContinueClaim(c)
  \/ \E c \in Claimants, d \in Deliveries : Claimed(c, d)
  \/ HandOver \/ ShowOnPage \/ LeavePage
  \/ \E e \in UserEvents : WriteInChat(e)
  \/ WriteOnPage
  \/ \E f \in Queue!Events :
       BeginTurn(f) \/ TurnedAway(f) \/ RunQueued(f) \/ GiveBack(f) \/ SendReply(f) \/ FireCallback(f) \/ Unwind(f)
  \/ Restart

DeliverySpec == DeliveryInit /\ [][Next]_vars
----------------------------------------------------------------------------
(* Safety.                                                                 *)

(* A row marked sent had a turn of its own, or was shown on the page: what *)
(* was refused at hand-over or waits in the queue is never counted as      *)
(* sent, through restarts, stale claims and late callbacks.                *)
SentHadTurn ==
  \A d \in Sent : d \in Queue!SeqSet(started) \/ heard[d] > 0

(* When a topic is spoken twice, the store lost sight of the first time:   *)
(* one of the two deliveries is marked failed.                             *)
SpokenTwiceOnlyIfFailed ==
  \A d, e \in Deliveries :
    /\ d # e /\ heard[d] > 0 /\ heard[e] > 0
    /\ delivery[d].topic = delivery[e].topic
    => "failed" \in {delivery[d].status, delivery[e].status}

(* A delivery is spoken at most once, whatever promotes, requeues or       *)
(* recovers it.                                                            *)
DeliverySpokenOnce == \A d \in Deliveries : heard[d] <= 1

----------------------------------------------------------------------------
(* What the design document says and the code does not keep.               *)

(* "one topic is delivered proactively at most once"                       *)
TopicSpokenOnce ==
  \A d, e \in Deliveries :
    /\ heard[d] > 0 /\ heard[e] > 0
    /\ delivery[d].topic = delivery[e].topic
    => d = e
============================================================================
