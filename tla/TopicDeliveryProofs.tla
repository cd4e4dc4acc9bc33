------------------------ MODULE TopicDeliveryProofs ------------------------
(***************************************************************************)
(* Theorems about TopicDelivery, for any topics, deliveries, messages,     *)
(* clock and queue bounds.  The inductive invariants of the store and of   *)
(* the session queue hold of the composed system too; what is added is     *)
(* where a delivery is on its way from the one to the other, so that it    *)
(* can only be spoken where it has not been spoken yet.                    *)
(***************************************************************************)
EXTENDS TopicDelivery, TopicClaimsProofs

Lemmas == INSTANCE SessionQueueProofs WITH PushEvents <- Deliveries

----------------------------------------------------------------------------
(* The invariant.                                                          *)

Begun == Lemmas!SeqSet(started)
Taken == Lemmas!SeqSet(accepted)

Memory ==
  /\ inflight \in [Claimants -> Deliveries \cup {NULL}]
  /\ reply \in [Lemmas!Events -> Replies \cup {NULL}]
  /\ callback \subseteq Deliveries
  /\ heard \in [Deliveries -> Nat]

(* A frame was spawned for an event that got its turn, and so did the one  *)
(* it is at; only such a frame has a callback.                             *)
Turned ==
  /\ \A f \in Lemmas!Events : frame[f].pc # "none" => f \in Begun /\ frame[f].current \in Begun
  /\ \A f \in callback : frame[f].pc # "none"

(* What a claimant still holds is a row of its own that no queue has seen. *)
Carried ==
  \A c \in Claimants : inflight[c] # NULL =>
    /\ inflight[c] \notin Taken
    /\ delivery[inflight[c]].status # "unused"
    /\ \A e \in Claimants : inflight[e] = inflight[c] => e = c

Untouched ==
  \A d \in Deliveries : delivery[d].status = "unused" => heard[d] = 0 /\ d \notin Taken

(* The turn of frame f may still bring the words of d to the user.         *)
Speaks(f, d) ==
  /\ frame[f].current = d
  /\ \/ frame[f].pc \in {"starting", "agent"}
     \/ frame[f].pc = "respond" /\ reply[f] = "text"

Coming(d) ==
  \/ inflight[Pulse] = d
  \/ d \in Lemmas!Waiting
  \/ \E f \in Lemmas!Events : Speaks(f, d)

(* What is still to come was not heard yet, and what was heard was once.   *)
ComesUnheard ==
  \A d \in Deliveries : heard[d] <= 1 /\ (Coming(d) => heard[d] = 0)

Told == \A d \in Sent : d \in Begun \/ heard[d] > 0

Queued == Lemmas!IInv /\ Lemmas!Once

Inv ==
  /\ IInv /\ Queued /\ Memory
  /\ Turned /\ Carried /\ Untouched /\ ComesUnheard /\ Told

----------------------------------------------------------------------------
(* The queue of TopicDelivery is the queue the lemmas are about.           *)
LEMMA QueueConstants ==
  /\ UserEvents \cap Deliveries = {} /\ NULL \notin Lemmas!Events
  /\ MaxDepth \in Nat /\ MaxPending \in Nat \ {0}
  /\ NULL \notin Deliveries /\ NULL \notin UserEvents
  /\ Lemmas!Events = UserEvents \cup Deliveries
  /\ Queue!Events = Lemmas!Events
  /\ Pulse \in Claimants
BY DeliveryAssumption, PoolAssumption DEF Lemmas!Events, Queue!Events

LEMMA SameSpeech ==
  ASSUME NEW e
  PROVE  /\ Queue!StartTurn(e) => Lemmas!StartTurn(e)
         /\ Queue!CheckBusy(e) => Lemmas!CheckBusy(e)
         /\ Queue!Push(e) => Lemmas!Push(e)
BY DEF Queue!StartTurn, Lemmas!StartTurn, Queue!CheckBusy, Lemmas!CheckBusy, Queue!Push,
       Lemmas!Push, Queue!New, Lemmas!New, Queue!Spawn, Lemmas!Spawn, Queue!Fresh, Lemmas!Fresh,
       Queue!AgentBusy, Lemmas!AgentBusy, Queue!Events, Lemmas!Events, Queue!Enqueue,
       Lemmas!Enqueue, Queue!SeqSet, Lemmas!SeqSet

LEMMA SameBusy == ASSUME NEW e, Queue!QueueBusyMessage(e) PROVE Lemmas!QueueBusyMessage(e)
BY DEF Queue!QueueBusyMessage, Lemmas!QueueBusyMessage, Queue!Interrupted, Lemmas!Interrupted,
       Queue!Events, Lemmas!Events, Queue!QueueDepth, Lemmas!QueueDepth, Queue!Enqueue,
       Lemmas!Enqueue

LEMMA SameTurn ==
  ASSUME NEW f
  PROVE  /\ Queue!Begin(f) => Lemmas!Begin(f)
         /\ Queue!TurnAway(f) => Lemmas!TurnAway(f)
         /\ Queue!Recurse(f) => Lemmas!Recurse(f)
         /\ Queue!StopAtCap(f) => Lemmas!StopAtCap(f)
         /\ Queue!ReturnReply(f) => Lemmas!ReturnReply(f)
         /\ Queue!ReturnError(f) => Lemmas!ReturnError(f)
BY DEF Queue!Begin, Lemmas!Begin, Queue!TurnAway, Lemmas!TurnAway, Queue!Recurse,
       Lemmas!Recurse, Queue!StopAtCap, Lemmas!StopAtCap, Queue!ReturnReply,
       Lemmas!ReturnReply, Queue!ReturnError, Lemmas!ReturnError, Queue!NextPending,
       Lemmas!NextPending, Queue!Promoted, Lemmas!Promoted, Queue!Shortened,
       Lemmas!Shortened, Queue!Responding, Lemmas!Responding

LEMMA SameEnd ==
  ASSUME NEW f
  PROVE  /\ Queue!InBandDrain(f) => Lemmas!InBandDrain(f)
         /\ Queue!Finish(f) => Lemmas!Finish(f)
BY DEF Queue!InBandDrain, Lemmas!InBandDrain, Queue!Finish, Lemmas!Finish, Queue!Spawn,
       Lemmas!Spawn, Queue!Fresh, Lemmas!Fresh, Queue!Resting, Lemmas!Resting

LEMMA QueueKeeps ==
  ASSUME Queued, Lemmas!Next \/ UNCHANGED sessionVars
  PROVE  Queued'
<1>1. [Lemmas!Next]_(Lemmas!queueVars)
  BY DEF sessionVars, Lemmas!queueVars
<1>2. Lemmas!TypeOK
  BY DEF Queued, Lemmas!IInv
<1> QED  BY <1>1, <1>2, QueueConstants, Lemmas!StepIInv, Lemmas!StepOnce DEF Queued

LEMMA QueueTypes ==
  ASSUME Queued
  PROVE  /\ slot \in Lemmas!Events \cup {NULL} /\ overflow \in Seq(Lemmas!Events)
         /\ frame \in [Lemmas!Events -> Lemmas!FrameState]
         /\ accepted \in Seq(Lemmas!Events) /\ started \in Seq(Lemmas!Events)
         /\ Lemmas!Waiting \cap Begun = {} /\ Lemmas!Waiting \subseteq Taken /\ Begun \subseteq Taken
         /\ Begun \subseteq Lemmas!Events /\ Taken \subseteq Lemmas!Events
         /\ \A f, g \in Lemmas!Events :
              Lemmas!Running(f) /\ Lemmas!Running(g) => f = g
<1>1. /\ Lemmas!TypeOK /\ Lemmas!OwnerRuns
  BY DEF Queued, Lemmas!IInv
<1>2. Lemmas!NoSecondTurn /\ Lemmas!Tracked
  BY DEF Queued, Lemmas!Once
<1>3. \A f, g \in Lemmas!Events : Lemmas!Running(f) /\ Lemmas!Running(g) => f = g
  BY <1>1 DEF Lemmas!OwnerRuns
<1>4. /\ Lemmas!Waiting \cap Begun = {} /\ Lemmas!Waiting \subseteq Taken /\ Begun \subseteq Taken
  BY <1>2 DEF Lemmas!NoSecondTurn, Lemmas!Tracked, Begun, Taken
<1>5. accepted \in Seq(Lemmas!Events) /\ started \in Seq(Lemmas!Events)
      /\ slot \in Lemmas!Events \cup {NULL} /\ overflow \in Seq(Lemmas!Events)
      /\ frame \in [Lemmas!Events -> Lemmas!FrameState]
  BY <1>1 DEF Lemmas!TypeOK
<1>6. Begun \subseteq Lemmas!Events /\ Taken \subseteq Lemmas!Events
  BY <1>5 DEF Begun, Taken, Lemmas!SeqSet
<1> QED  BY <1>3, <1>4, <1>5, <1>6

----------------------------------------------------------------------------
(* What the steps of the queue do to what waits, to the turns had and to   *)
(* the frames.                                                             *)
LEMMA Joins ==
  ASSUME NEW s \in Seq(Lemmas!Events), NEW e \in Lemmas!Events
  PROVE  Lemmas!SeqSet(Append(s, e)) = Lemmas!SeqSet(s) \cup {e}
BY QueueConstants, Lemmas!AppendSet

LEMMA Enqueues ==
  ASSUME Queued, NEW e \in Lemmas!Events, Lemmas!Enqueue(e)
  PROVE  Lemmas!Waiting' \subseteq Lemmas!Waiting \cup {e}
<1>1. CASE slot = NULL
  <2>1. slot' = e /\ overflow' = overflow  BY <1>1 DEF Lemmas!Enqueue
  <2> QED  BY <2>1 DEF Lemmas!Waiting
<1>2. CASE slot # NULL
  <2>1. slot' = slot /\ overflow' = Append(overflow, e)  BY <1>2 DEF Lemmas!Enqueue
  <2>2. Lemmas!SeqSet(overflow') = Lemmas!SeqSet(overflow) \cup {e}  BY <2>1, Joins, QueueTypes
  <2> QED  BY <2>1, <2>2 DEF Lemmas!Waiting
<1> QED  BY <1>1, <1>2

(* A message of the user: the frame it may start is its own.               *)
LEMMA Arrives ==
  ASSUME Queued, NEW e \in UserEvents,
         Lemmas!StartTurn(e) \/ Lemmas!CheckBusy(e) \/ Lemmas!QueueBusyMessage(e)
  PROVE  /\ Begun \subseteq Begun' /\ Taken' \subseteq Taken \cup {e}
         /\ Lemmas!Waiting' \subseteq Lemmas!Waiting \cup {e}
         /\ \A g \in Lemmas!Events :
              \/ frame'[g].pc = frame[g].pc /\ frame'[g].current = frame[g].current
              \/ g = e /\ frame'[g].current = e /\ e \in Begun'
<1>1. e \in Lemmas!Events  BY QueueConstants
<1>2. CASE Lemmas!StartTurn(e)
  <2>1. /\ started' = Append(started, e) /\ accepted' = Append(accepted, e)
        /\ slot' = slot /\ overflow' = overflow
        /\ frame' = [frame EXCEPT ![e] = Lemmas!Fresh(e)]
    BY <1>2 DEF Lemmas!StartTurn, Lemmas!Spawn
  <2>2. Begun' = Begun \cup {e} /\ Taken' = Taken \cup {e}
    BY <1>1, <2>1, Joins, QueueTypes DEF Begun, Taken
  <2>3. Lemmas!Waiting' = Lemmas!Waiting  BY <2>1 DEF Lemmas!Waiting
  <2>4. \A g \in Lemmas!Events :
           frame'[g] = frame[g] \/ (g = e /\ frame'[g].current = e)
    BY <1>1, <2>1, QueueTypes DEF Lemmas!Fresh
  <2> QED  BY <2>2, <2>3, <2>4
<1>3. CASE Lemmas!CheckBusy(e)
  <2>1. UNCHANGED <<slot, overflow, accepted, started, frame>>  BY <1>3 DEF Lemmas!CheckBusy
  <2> QED  BY <2>1 DEF Begun, Taken, Lemmas!Waiting
<1>4. CASE Lemmas!QueueBusyMessage(e)
  <2>1. started' = started /\ frame' \in {frame, Lemmas!Interrupted}
    BY <1>4 DEF Lemmas!QueueBusyMessage
  <2>2. \/ Lemmas!Enqueue(e) /\ accepted' = Append(accepted, e)
        \/ UNCHANGED <<slot, overflow, accepted>>
    BY <1>4 DEF Lemmas!QueueBusyMessage
  <2>3. Taken' \subseteq Taken \cup {e} /\ Lemmas!Waiting' \subseteq Lemmas!Waiting \cup {e}
    <3>1. CASE Lemmas!Enqueue(e) /\ accepted' = Append(accepted, e)
      BY <1>1, <3>1, Enqueues, Joins, QueueTypes DEF Taken
    <3>2. CASE UNCHANGED <<slot, overflow, accepted>>
      BY <3>2 DEF Taken, Lemmas!Waiting
    <3> QED  BY <2>2, <3>1, <3>2
  <2>4. \A g \in Lemmas!Events : /\ Lemmas!Interrupted[g].pc = frame[g].pc
                                /\ Lemmas!Interrupted[g].current = frame[g].current
    BY QueueTypes DEF Lemmas!Interrupted, Lemmas!FrameState
  <2>5. Begun' = Begun  BY <2>1 DEF Begun
  <2> QED  BY <2>1, <2>3, <2>4, <2>5
<1> QED  BY <1>2, <1>3, <1>4

LEMMA Pushed ==
  ASSUME Queued, NEW d \in Deliveries, Lemmas!Push(d)
  PROVE  /\ Begun' = Begun /\ Taken' = Taken \cup {d}
         /\ Lemmas!Waiting' \subseteq Lemmas!Waiting \cup {d}
         /\ frame' = frame
<1>1. d \in Lemmas!Events  BY QueueConstants
<1>2. /\ Lemmas!Enqueue(d) /\ accepted' = Append(accepted, d)
      /\ started' = started /\ frame' = frame
  BY DEF Lemmas!Push
<1> QED  BY <1>1, <1>2, Enqueues, Joins, QueueTypes DEF Begun, Taken

LEMMA Drains ==
  ASSUME Queued, Lemmas!NextPending # NULL
  PROVE  /\ Lemmas!NextPending \in Lemmas!Waiting /\ Lemmas!NextPending \in Lemmas!Events
         /\ Lemmas!SeqSet(Lemmas!Shortened) \cup ({Lemmas!Promoted} \ {NULL})
              \subseteq Lemmas!Waiting \ {Lemmas!NextPending}
<1>1. Lemmas!TypeOK /\ Lemmas!NoRepeat(overflow) /\ slot \notin Lemmas!SeqSet(overflow)
  BY DEF Queued, Lemmas!IInv, Lemmas!Once, Lemmas!NoSecondTurn
<1>2. Lemmas!NextPending \in Lemmas!Events \cup {NULL}
  BY <1>1, QueueConstants, Lemmas!DrainType
<1> QED  BY <1>1, <1>2, QueueConstants, Lemmas!DrainKeeps

(* A frame goes on with the event it is at.                                *)
LEMMA GoesOn ==
  ASSUME Queued, NEW f \in Lemmas!Events,
         \/ Lemmas!Begin(f) \/ Lemmas!TurnAway(f)
         \/ Lemmas!StopAtCap(f) \/ Lemmas!ReturnReply(f) \/ Lemmas!ReturnError(f)
  PROVE  /\ Begun' = Begun /\ Taken' = Taken /\ Lemmas!Waiting' \subseteq Lemmas!Waiting
         /\ frame[f].pc \in {"starting", "agent"}
         /\ frame'[f].pc = IF Lemmas!Begin(f) THEN "agent" ELSE "respond"
         /\ frame'[f].current = frame[f].current
         /\ \A g \in Lemmas!Events \ {f} : frame'[g] = frame[g]
<1>1. accepted' = accepted /\ started' = started
  BY DEF Lemmas!Begin, Lemmas!TurnAway, Lemmas!StopAtCap, Lemmas!ReturnReply, Lemmas!ReturnError
<1>2. Begun' = Begun /\ Taken' = Taken  BY <1>1 DEF Begun, Taken
<1>3. Lemmas!Waiting' \subseteq Lemmas!Waiting
  <2>1. CASE UNCHANGED <<slot, overflow>>  BY <2>1 DEF Lemmas!Waiting
  <2>2. CASE Lemmas!StopAtCap(f)
    <3>1. /\ Lemmas!NextPending # NULL /\ slot' = Lemmas!NextPending
          /\ overflow' = Lemmas!Shortened
      BY <2>2 DEF Lemmas!StopAtCap
    <3> HIDE DEF Lemmas!NextPending, Lemmas!Shortened
    <3> QED  BY <3>1, Drains DEF Lemmas!Waiting
  <2> QED  BY <2>1, <2>2 DEF Lemmas!Begin, Lemmas!TurnAway, Lemmas!ReturnReply, Lemmas!ReturnError
<1>4. frame[f] \in Lemmas!FrameState  BY QueueTypes
<1>5. CASE Lemmas!Begin(f)
  <2>1. frame[f].pc = "starting" /\ frame' = [frame EXCEPT ![f].pc = "agent"]
    BY <1>5 DEF Lemmas!Begin
  <2> QED  BY <1>2, <1>3, <1>4, <1>5, <2>1, QueueTypes DEF Lemmas!FrameState
<1>6. CASE ~Lemmas!Begin(f)
  <2>1. /\ frame[f].pc \in {"starting", "agent"}
        /\ frame' = [frame EXCEPT ![f] = Lemmas!Responding(frame[f])]
    BY <1>6 DEF Lemmas!TurnAway, Lemmas!StopAtCap, Lemmas!ReturnReply, Lemmas!ReturnError
  <2> QED  BY <1>2, <1>3, <1>4, <1>6, <2>1, QueueTypes DEF Lemmas!Responding
<1> QED  BY <1>5, <1>6

(* A frame takes the next event: it waited and had no turn.                *)
LEMMA Recurses ==
  ASSUME Queued, NEW f \in Lemmas!Events, Lemmas!Recurse(f)
  PROVE  \E n \in Lemmas!Waiting \cap Lemmas!Events :
           /\ Begun' = Begun \cup {n} /\ Taken' = Taken
           /\ Lemmas!Waiting' \subseteq Lemmas!Waiting \ {n}
           /\ frame[f].pc = "agent" /\ frame'[f].pc = "agent" /\ frame'[f].current = n
           /\ \A g \in Lemmas!Events \ {f} : frame'[g] = frame[g]
<1> DEFINE n == Lemmas!NextPending
<1>1. /\ n # NULL /\ slot' = Lemmas!Promoted /\ overflow' = Lemmas!Shortened
      /\ started' = Append(started, n) /\ accepted' = accepted
      /\ frame[f].pc = "agent"
      /\ frame' = [frame EXCEPT ![f].current = n, ![f].depth = @ + 1, ![f].hit = FALSE]
  BY DEF Lemmas!Recurse
<1>2. /\ n \in Lemmas!Waiting /\ n \in Lemmas!Events
      /\ Lemmas!SeqSet(Lemmas!Shortened) \cup ({Lemmas!Promoted} \ {NULL})
           \subseteq Lemmas!Waiting \ {n}
  BY <1>1, Drains
<1> HIDE DEF n
<1>3. Begun' = Begun \cup {n} /\ Taken' = Taken
  BY <1>1, <1>2, Joins, QueueTypes DEF Begun, Taken
<1>4. Lemmas!Waiting' \subseteq Lemmas!Waiting \ {n}
  <2>1. Lemmas!Waiting' = Lemmas!SeqSet(Lemmas!Shortened) \cup ({Lemmas!Promoted} \ {NULL})
    BY <1>1 DEF Lemmas!Waiting
  <2> QED  BY <1>2, <2>1
<1>5. /\ frame'[f].pc = "agent" /\ frame'[f].current = n
      /\ \A g \in Lemmas!Events \ {f} : frame'[g] = frame[g]
  BY <1>1, QueueTypes DEF Lemmas!FrameState
<1> QED  BY <1>1, <1>2, <1>3, <1>4, <1>5

(* A frame unwinds; the event in the slot may get a frame of its own.      *)
LEMMA Rests ==
  ASSUME Queued, NEW f \in Lemmas!Events, Lemmas!InBandDrain(f) \/ Lemmas!Finish(f)
  PROVE  /\ Begun \subseteq Begun' /\ Taken' = Taken /\ Lemmas!Waiting' \subseteq Lemmas!Waiting
         /\ frame[f].pc \in {"respond", "finally"}
         /\ \A g \in Lemmas!Events :
              \/ g # f /\ frame'[g] = frame[g]
              \/ g = f /\ frame'[g].pc \in {"finally", "done"} /\ frame'[g].current = g
              \/ /\ g \in Lemmas!Waiting /\ g \notin Lemmas!Waiting'
                 /\ g \in Begun' /\ frame'[g].current = g /\ frame'[g].pc = "starting"
<1>1. PICK pc \in {"finally", "done"} :
        /\ frame[f].pc \in {"respond", "finally"} /\ accepted' = accepted /\ overflow' = overflow
        /\ \/ /\ slot # NULL /\ slot' = NULL
              /\ Lemmas!Spawn(slot, [frame EXCEPT ![f] = Lemmas!Resting(f, pc)])
           \/ /\ frame' = [frame EXCEPT ![f] = Lemmas!Resting(f, pc)]
              /\ slot' = slot /\ started' = started
  <2>1. CASE Lemmas!InBandDrain(f)
    BY <2>1 DEF Lemmas!InBandDrain
  <2>2. CASE Lemmas!Finish(f)
    BY <2>2 DEF Lemmas!Finish
  <2> QED  BY <2>1, <2>2
<1> DEFINE others == [frame EXCEPT ![f] = Lemmas!Resting(f, pc)]
<1>2. /\ others \in [Lemmas!Events -> Lemmas!FrameState \cup {Lemmas!Resting(f, pc)}]
      /\ others[f].pc = pc /\ others[f].current = f
      /\ \A g \in Lemmas!Events \ {f} : others[g] = frame[g]
  BY QueueTypes DEF Lemmas!Resting
<1>3. Taken' = Taken  BY <1>1 DEF Taken
<1>4. CASE slot # NULL /\ slot' = NULL /\ Lemmas!Spawn(slot, others)
  <2>1. /\ frame' = [others EXCEPT ![slot] = Lemmas!Fresh(slot)]
        /\ started' = Append(started, slot) /\ slot \in Lemmas!Events
    BY <1>4, QueueTypes DEF Lemmas!Spawn
  <2> HIDE DEF others
  <2>2. Begun' = Begun \cup {slot}
    BY <2>1, Joins, QueueTypes DEF Begun
  <2>3. /\ frame'[slot].current = slot /\ frame'[slot].pc = "starting"
        /\ \A g \in Lemmas!Events \ {slot} : frame'[g] = others[g]
    BY <1>2, <2>1 DEF Lemmas!Fresh
  <2>4. slot \notin Lemmas!SeqSet(overflow)
    BY DEF Queued, Lemmas!Once, Lemmas!NoSecondTurn
  <2>5. slot \in Lemmas!Waiting /\ slot \notin Lemmas!Waiting' /\ Lemmas!Waiting' \subseteq Lemmas!Waiting
    BY <1>1, <1>4, <2>4 DEF Lemmas!Waiting
  <2> QED  BY <1>1, <1>2, <1>3, <2>1, <2>2, <2>3, <2>5
<1>5. CASE frame' = others /\ slot' = slot /\ started' = started
  <2>1. Begun' = Begun /\ Lemmas!Waiting' = Lemmas!Waiting
    BY <1>1, <1>5 DEF Begun, Lemmas!Waiting
  <2> HIDE DEF others
  <2> QED  BY <1>1, <1>2, <1>3, <1>5, <2>1
<1> QED  BY <1>1, <1>4, <1>5

----------------------------------------------------------------------------
(* What the steps of the store do to the rows.                             *)

LEMMA PoolKeeps ==
  ASSUME IInv, [PoolNext]_poolVars
  PROVE  IInv'
<1>1. TypeOK'  BY StepType DEF IInv
<1> QED  BY <1>1, StepFits

LEMMA Settles ==
  ASSUME IInv, NEW d \in Deliveries, NEW success \in BOOLEAN, Settle(d, success)
  PROVE  /\ IInv'
         /\ \A e \in Deliveries :
              /\ delivery'[e].status = "unused" <=> delivery[e].status = "unused"
              /\ delivery'[e].status = "sent" =>
                   delivery[e].status = "sent" \/ (e = d /\ success)
<1>1. CASE FinishDelivery(d, success)
  <2>1. PoolNext  BY <1>1 DEF PoolNext
  <2>2. delivery \in [Deliveries -> Delivery]  BY DEF IInv, TypeOK
  <2>3. /\ delivery[d].status = "reserved"
        /\ \A e \in Deliveries \ {d} : delivery'[e] = delivery[e]
        /\ delivery'[d].status = IF success THEN "sent" ELSE "failed"
    BY <1>1, <2>2 DEF FinishDelivery, Delivery
  <2> QED  BY <2>1, <2>3, PoolKeeps
<1>2. CASE UNCHANGED poolVars
  <2>1. delivery' = delivery  BY <1>2 DEF poolVars
  <2> QED  BY <1>2, <2>1, PoolKeeps
<1> QED  BY <1>1, <1>2 DEF Settle

LEMMA Records ==
  ASSUME IInv, NEW p \in Platforms, NEW at \in Nat, RecordChannelActivity(p, at)
  PROVE  IInv' /\ delivery' = delivery
<1>1. UNCHANGED <<now, item, delivery, prefs, claim>> /\ activity' = [activity EXCEPT ![p] = at]
  BY DEF RecordChannelActivity
<1>2. TypeOK'  BY <1>1 DEF IInv, TypeOK
<1>3. Fits(item, delivery)'
  BY <1>1 DEF IInv, Fits, NamesTopic, OneFlying, Flying, HeldByRow, HoldsRow, SentCloses,
              VacantRows, NoClash
<1> QED  BY <1>1, <1>2, <1>3 DEF IInv

LEMMA RecordsMessage ==
  ASSUME IInv, NEW e \in Lemmas!Events, RecordMessage(e) \/ UNCHANGED poolVars
  PROVE  IInv' /\ delivery' = delivery
<1>1. CASE UNCHANGED poolVars
  BY <1>1, PoolKeeps DEF poolVars
<1>2. ASSUME NEW at \in 0..now, RecordChannelActivity(Chat, at)
      PROVE  IInv' /\ delivery' = delivery
  <2>1. at \in Nat /\ Chat \in Platforms
    BY DeliveryAssumption DEF IInv, TypeOK
  <2> QED  BY <1>2, <2>1, Records
<1> QED  BY <1>1, <1>2 DEF RecordMessage

LEMMA Reserves ==
  ASSUME IInv, NEW c \in Claimants, NEW d \in Deliveries, NEW t \in Topics, Reserve(c, d, t)
  PROVE  /\ IInv'
         /\ delivery[d].status = "unused" /\ delivery'[d].status = "reserved"
         /\ \A e \in Deliveries \ {d} :
              /\ delivery'[e].status = "unused" <=> delivery[e].status = "unused"
              /\ delivery'[e].status = "sent" => delivery[e].status = "sent"
<1>1. PoolNext  BY DEF PoolNext
<1>2. IInv'  BY <1>1, PoolKeeps
<1>3. delivery \in [Deliveries -> Delivery]  BY DEF IInv, TypeOK
<1>4. delivery[d].status = "unused" /\ delivery'[d].status = "reserved"
  BY <1>3 DEF Reserve
<1>5. ASSUME NEW e \in Deliveries \ {d}
      PROVE  /\ delivery'[e].status = "unused" <=> delivery[e].status = "unused"
             /\ delivery'[e].status = "sent" => delivery[e].status = "sent"
  <2>1. CASE e \in Stale(claim[c].at)
    <3>1. delivery'[e] = [delivery[e] EXCEPT !.status = "failed"]  BY <1>5, <2>1 DEF Reserve
    <3>2. delivery[e].status = "reserved"  BY <2>1 DEF Stale
    <3> QED  BY <1>3, <3>1, <3>2 DEF Delivery
  <2>2. CASE e \notin Stale(claim[c].at)
    <3>1. delivery'[e] = delivery[e]  BY <1>5, <2>2 DEF Reserve
    <3> QED  BY <3>1
  <2> QED  BY <2>1, <2>2
<1> QED  BY <1>2, <1>4, <1>5

----------------------------------------------------------------------------
(* The parts of the invariant, one by one.                                 *)
LEMMA TurnedKept ==
  ASSUME Memory, Turned, Begun \subseteq Begun',
         \A f \in callback' : f \in callback \/ frame'[f].pc # "none",
         \A g \in Lemmas!Events :
           \/ /\ frame'[g].pc # "none" => frame[g].pc # "none"
              /\ frame'[g].current \in {frame[g].current, g}
           \/ g \in Begun' /\ frame'[g].current \in Begun',
         \A g \in Deliveries : frame'[g].pc = "none" => frame[g].pc = "none"
  PROVE  Turned'
<1>1. ASSUME NEW f \in Lemmas!Events, frame'[f].pc # "none"
      PROVE  f \in Begun' /\ frame'[f].current \in Begun'
  BY <1>1 DEF Turned
<1>2. \A f \in callback' : frame'[f].pc # "none"
  BY DEF Turned, Memory
<1> QED  BY <1>1, <1>2 DEF Turned

LEMMA CarriedKept ==
  ASSUME Memory, Carried, inflight' \in [Claimants -> Deliveries \cup {NULL}],
         \A c \in Claimants : inflight'[c] # NULL =>
           inflight'[c] = inflight[c] /\ (inflight[c] \in Taken' => inflight[c] \in Taken),
         \A d \in Deliveries : delivery'[d].status = "unused" => delivery[d].status = "unused"
  PROVE  Carried'
BY DEF Carried, Memory

LEMMA UntouchedKept ==
  ASSUME Untouched,
         \A d \in Deliveries : delivery'[d].status = "unused" =>
           /\ delivery[d].status = "unused"
           /\ heard'[d] = heard[d]
           /\ d \in Taken' => d \in Taken
  PROVE  Untouched'
BY DEF Untouched

(* A step lets nothing new come, or only what was not heard; what it makes *)
(* heard was to come, and comes no more.                                   *)
LEMMA ComesKept ==
  ASSUME Memory, ComesUnheard,
         \A d \in Deliveries :
           \/ heard'[d] = heard[d] /\ (Coming(d)' => Coming(d) \/ heard[d] = 0)
           \/ heard[d] = 0 /\ heard'[d] = 1 /\ ~Coming(d)'
  PROVE  ComesUnheard'
<1>1. \A d \in Deliveries : heard[d] \in Nat  BY DEF Memory
<1>2. ASSUME NEW d \in Deliveries
      PROVE  heard'[d] <= 1 /\ (Coming(d)' => heard'[d] = 0)
  BY <1>1 DEF ComesUnheard
<1> QED  BY <1>2 DEF ComesUnheard

LEMMA ToldKept ==
  ASSUME Told, Begun \subseteq Begun', \A d \in Deliveries : heard[d] > 0 => heard'[d] > 0,
         \A d \in Deliveries : delivery'[d].status = "sent" =>
           delivery[d].status = "sent" \/ d \in Begun' \/ heard'[d] > 0
  PROVE  Told'
BY DEF Told, Sent

(* Everything but the rows as it was.                                      *)
LEMMA RowsMove ==
  ASSUME Inv, UNCHANGED <<sessionVars, reply, heard>>, callback' \subseteq callback,
         IInv', inflight' \in [Claimants -> Deliveries \cup {NULL}],
         \A c \in Claimants : inflight'[c] \in {inflight[c], NULL},
         \A d \in Deliveries :
           /\ delivery'[d].status = "unused" <=> delivery[d].status = "unused"
           /\ delivery'[d].status = "sent" =>
                delivery[d].status = "sent" \/ d \in Begun \/ heard[d] > 0
  PROVE  Inv'
<1>1. Queued' BY QueueKeeps DEF Inv
<1>2. UNCHANGED <<slot, overflow, frame, accepted, started>>  BY DEF sessionVars
<1>3. Begun' = Begun /\ Taken' = Taken /\ Lemmas!Waiting' = Lemmas!Waiting
  BY <1>2 DEF Begun, Taken, Lemmas!Waiting
<1>4. Memory'  BY DEF Inv, Memory
<1>5. Turned'
  <2>1. \A g \in Lemmas!Events : /\ frame'[g].pc = frame[g].pc
                                /\ frame'[g].current = frame[g].current
    BY <1>2
  <2>2. Deliveries \subseteq Lemmas!Events  BY QueueConstants
  <2> QED  BY <1>3, <2>1, <2>2, TurnedKept DEF Inv
<1>6. Carried'  BY <1>3, CarriedKept DEF Inv
<1>7. Untouched'  BY <1>3, UntouchedKept DEF Inv
<1>8. ComesUnheard'
  <2>1. ASSUME NEW d \in Deliveries, Coming(d)'  PROVE Coming(d)
    <3>1. \A f \in Lemmas!Events : Speaks(f, d)' => Speaks(f, d)
      BY <1>2 DEF Speaks
    <3>2. inflight'[Pulse] = d => inflight[Pulse] = d
      BY QueueConstants
    <3> QED  BY <1>3, <2>1, <3>1, <3>2 DEF Coming
  <2> QED  BY <2>1, ComesKept DEF Inv
<1>9. Told'  BY <1>3, ToldKept DEF Inv
<1> QED  BY <1>1, <1>4, <1>5, <1>6, <1>7, <1>8, <1>9 DEF Inv

----------------------------------------------------------------------------
(* The actions.                                                            *)
LEMMA InitInv == DeliveryInit => Inv
<1> SUFFICES ASSUME DeliveryInit PROVE Inv
  OBVIOUS
<1>1. Init /\ Queue!Init
  BY DEF DeliveryInit
<1>2. IInv  BY <1>1, InitFits
<1>3. Lemmas!Init
  BY <1>1 DEF Queue!Init, Lemmas!Init, Queue!Events, Lemmas!Events, Queue!Resting, Lemmas!Resting
<1>4. Lemmas!IInv  BY <1>3, QueueConstants, Lemmas!InitIInv
<1>5. Lemmas!Waiting = {} /\ Begun = {} /\ Taken = {} /\ Lemmas!SeqSet(<<>>) = {}
  BY <1>3 DEF Lemmas!Init, Lemmas!Waiting, Begun, Taken, Lemmas!SeqSet
<1>6. Lemmas!Once
  BY <1>3, <1>5 DEF Lemmas!Init, Lemmas!Once, Lemmas!NoSecondTurn, Lemmas!Tracked,
                    Lemmas!NoRepeat, Begun, Taken, Lemmas!SeqSet
<1>7. /\ Memory /\ inflight = [c \in Claimants |-> NULL]
      /\ heard = [d \in Deliveries |-> 0] /\ callback = {}
  BY QueueConstants DEF DeliveryInit, Memory
<1>8. \A f \in Lemmas!Events : frame[f].pc = "none"
  BY <1>3 DEF Lemmas!Init, Lemmas!Resting
<1>9. Turned  BY <1>7, <1>8 DEF Turned
<1>10. Carried  BY <1>7 DEF Carried
<1>11. Untouched  BY <1>5, <1>7 DEF Untouched
<1>12. ComesUnheard  BY <1>7 DEF ComesUnheard
<1>13. Told  BY <1>1 DEF Told, Sent, Init
<1> QED  BY <1>2, <1>4, <1>6, <1>7, <1>9, <1>10, <1>11, <1>12, <1>13 DEF Inv, Queued

LEMMA CurateKeeps ==
  ASSUME Inv, Curate
  PROVE  Inv'
<1>1. PoolNext /\ delivery' = delivery
  BY DEF Curate, PoolNext, Tick, AddCandidates, ListOpenTopics, DismissTopic, ConsumeTopic,
         UpdatePreferences
<1>2. UNCHANGED <<sessionVars, memoryVars, heard>>  BY DEF Curate
<1>3. IInv'  BY <1>1, PoolKeeps DEF Inv
<1> QED  BY <1>1, <1>2, <1>3, RowsMove DEF memoryVars, Inv, Memory

LEMMA ClaimGoesOn ==
  ASSUME Inv, NEW c \in Claimants, BeginClaim(c) \/ ContinueClaim(c)
  PROVE  Inv'
<1>1. PoolNext /\ delivery' = delivery
  BY DEF BeginClaim, ContinueClaim, PoolNext, ReadPreferences, ReadChannel, RollBack
<1>2. UNCHANGED <<sessionVars, memoryVars, heard>>  BY DEF BeginClaim, ContinueClaim
<1>3. IInv'  BY <1>1, PoolKeeps DEF Inv
<1> QED  BY <1>1, <1>2, <1>3, RowsMove DEF memoryVars, Inv, Memory

LEMMA WriteOnPageKeeps ==
  ASSUME Inv, WriteOnPage
  PROVE  Inv'
<1>1. IInv' /\ delivery' = delivery
  BY Records DEF WriteOnPage, Inv, IInv, TypeOK
<1>2. UNCHANGED <<sessionVars, memoryVars, heard>>  BY DEF WriteOnPage
<1> QED  BY <1>1, <1>2, RowsMove DEF memoryVars, Inv, Memory

(* A claim that is granted is for a row nobody has seen.                   *)
LEMMA ClaimedKeeps ==
  ASSUME Inv, NEW c \in Claimants, NEW d \in Deliveries, Claimed(c, d)
  PROVE  Inv'
<1>1. PICK t \in Topics : Reserve(c, d, t)  BY DEF Claimed
<1>2. /\ IInv' /\ delivery[d].status = "unused" /\ delivery'[d].status = "reserved"
      /\ \A e \in Deliveries \ {d} :
           /\ delivery'[e].status = "unused" <=> delivery[e].status = "unused"
           /\ delivery'[e].status = "sent" => delivery[e].status = "sent"
  BY <1>1, Reserves DEF Inv
<1>3. /\ UNCHANGED <<sessionVars, reply, callback, heard>>
      /\ inflight' = [inflight EXCEPT ![c] = d]
  BY DEF Claimed
<1>4. Queued' BY <1>3, QueueKeeps DEF Inv
<1>5. UNCHANGED <<slot, overflow, frame, accepted, started>>  BY <1>3 DEF sessionVars
<1>6. Begun' = Begun /\ Taken' = Taken /\ Lemmas!Waiting' = Lemmas!Waiting
  BY <1>5 DEF Begun, Taken, Lemmas!Waiting
<1>7. Memory'  BY <1>3 DEF Inv, Memory
<1>8. Turned'  BY <1>3, <1>5, <1>6 DEF Inv, Turned
<1>9. heard[d] = 0 /\ d \notin Taken  BY <1>2 DEF Inv, Untouched
<1>10. \A e \in Claimants : inflight[e] # d
  BY <1>2, QueueConstants DEF Inv, Carried
<1>11. Carried'
  <2>1. \A e \in Claimants : inflight'[e] = IF e = c THEN d ELSE inflight[e]
    BY <1>3 DEF Inv, Memory
  <2>2. ASSUME NEW e \in Claimants, inflight'[e] # NULL
        PROVE  /\ inflight'[e] \notin Taken' /\ delivery'[inflight'[e]].status # "unused"
               /\ \A a \in Claimants : inflight'[a] = inflight'[e] => a = e
    <3>1. CASE e = c
      BY <1>2, <1>6, <1>9, <1>10, <2>1, <3>1
    <3>2. CASE e # c
      <4>1. inflight'[e] = inflight[e] /\ inflight[e] \in Deliveries \ {d}
        BY <1>10, <2>1, <2>2, <3>2 DEF Inv, Memory
      <4> QED  BY <1>2, <1>6, <1>10, <2>1, <2>2, <3>2, <4>1 DEF Inv, Carried
    <3> QED  BY <3>1, <3>2
  <2> QED  BY <2>2 DEF Carried
<1>12. Untouched'  BY <1>2, <1>3, <1>6, UntouchedKept DEF Inv
<1>13. ComesUnheard'
  <2>1. ASSUME NEW e \in Deliveries, Coming(e)'  PROVE Coming(e) \/ heard[e] = 0
    <3>1. \A f \in Lemmas!Events : Speaks(f, e)' => Speaks(f, e)
      BY <1>3, <1>5 DEF Speaks
    <3>2. inflight'[Pulse] = e => inflight[Pulse] = e \/ e = d
      BY <1>3, QueueConstants DEF Inv, Memory
    <3> QED  BY <1>6, <1>9, <2>1, <3>1, <3>2 DEF Coming
  <2> QED  BY <1>3, <2>1, ComesKept DEF Inv
<1>14. Told'
  BY <1>2, <1>3, <1>6, ToldKept DEF Inv
<1> QED  BY <1>2, <1>4, <1>7, <1>8, <1>11, <1>12, <1>13, <1>14 DEF Inv

(* The pulse hands its claim over: it waits in the queue now.              *)
LEMMA HandOverKeeps ==
  ASSUME Inv, HandOver
  PROVE  Inv'
<1> DEFINE d == inflight[Pulse]
<1>1. /\ d \in Deliveries /\ inflight' = [inflight EXCEPT ![Pulse] = NULL]
      /\ UNCHANGED <<reply, callback, heard>>
  BY QueueConstants DEF HandOver, Inv, Memory
<1>2. CASE Settle(d, FALSE) /\ UNCHANGED sessionVars
  <2>1. /\ IInv'
        /\ \A e \in Deliveries :
             /\ delivery'[e].status = "unused" <=> delivery[e].status = "unused"
             /\ delivery'[e].status = "sent" => delivery[e].status = "sent"
    BY <1>1, <1>2, Settles DEF Inv
  <2>2. /\ inflight' \in [Claimants -> Deliveries \cup {NULL}]
        /\ \A c \in Claimants : inflight'[c] \in {inflight[c], NULL}
    BY <1>1 DEF Inv, Memory
  <2> QED  BY <1>1, <1>2, <2>1, <2>2, RowsMove
<1>3. CASE Queue!Push(d) /\ UNCHANGED poolVars
  <2>1. Lemmas!Push(d)  BY <1>3, SameSpeech
  <2>2. Lemmas!Next  BY <1>1, <2>1 DEF Lemmas!Next
  <2>3. IInv' /\ delivery' = delivery  BY <1>3, PoolKeeps DEF Inv, poolVars
  <2>4. Queued'  BY <2>2, QueueKeeps DEF Inv
  <2>5. /\ Begun' = Begun /\ Taken' = Taken \cup {d} /\ frame' = frame
        /\ Lemmas!Waiting' \subseteq Lemmas!Waiting \cup {d}
    BY <1>1, <2>1, Pushed DEF Inv
  <2>6. /\ \A c \in Claimants : inflight'[c] = IF c = Pulse THEN NULL ELSE inflight[c]
        /\ inflight' \in [Claimants -> Deliveries \cup {NULL}]
    BY <1>1 DEF Inv, Memory
  <2>7. \A c \in Claimants \ {Pulse} : inflight[c] # d
    BY <1>1, QueueConstants DEF Inv, Carried
  <2>8. Memory'  BY <1>1, <2>6 DEF Inv, Memory
  <2>9. Turned'  BY <1>1, <2>5 DEF Inv, Turned
  <2>10. Carried'
    BY <2>3, <2>5, <2>6, <2>7, CarriedKept DEF Inv
  <2>11. delivery[d].status # "unused"  BY <1>1, QueueConstants DEF Inv, Carried
  <2>12. Untouched'  BY <1>1, <2>3, <2>5, <2>11, UntouchedKept DEF Inv
  <2>13. ComesUnheard'
    <3>1. ASSUME NEW e \in Deliveries, Coming(e)'  PROVE Coming(e)
      <4>1. \A f \in Lemmas!Events : Speaks(f, e)' => Speaks(f, e)
        BY <1>1, <2>5 DEF Speaks
      <4>2. inflight'[Pulse] # e  BY <2>6, QueueConstants
      <4>3. e \in Lemmas!Waiting' => e \in Lemmas!Waiting \/ e = inflight[Pulse]
        BY <2>5
      <4> QED  BY <3>1, <4>1, <4>2, <4>3 DEF Coming
    <3> QED  BY <1>1, <3>1, ComesKept DEF Inv
  <2>14. Told'  BY <1>1, <2>3, <2>5, ToldKept DEF Inv
  <2> QED  BY <2>3, <2>4, <2>8, <2>9, <2>10, <2>12, <2>13, <2>14 DEF Inv
<1> QED  BY <1>2, <1>3 DEF HandOver

LEMMA ShowOnPageKeeps ==
  ASSUME Inv, ShowOnPage
  PROVE  Inv'
<1> DEFINE d == inflight[Browser]
<1>1. /\ Browser \in Claimants /\ d # NULL /\ d \in Deliveries /\ heard[d] = 0
      /\ heard' = [heard EXCEPT ![d] = @ + 1]
      /\ UNCHANGED <<poolVars, sessionVars, memoryVars>>
  BY DEF ShowOnPage, Hear, Inv, Memory
<1>2. /\ UNCHANGED <<inflight, reply, callback, slot, overflow, frame, accepted, started, delivery>>
  BY <1>1 DEF sessionVars, memoryVars, poolVars
<1>3. Begun' = Begun /\ Taken' = Taken /\ Lemmas!Waiting' = Lemmas!Waiting
  BY <1>2 DEF Begun, Taken, Lemmas!Waiting
<1>4. IInv'  BY <1>1, PoolKeeps DEF Inv
<1>5. Queued'  BY <1>1, QueueKeeps DEF Inv
<1>6. \A e \in Deliveries : heard'[e] = IF e = d THEN 1 ELSE heard[e]
  BY <1>1 DEF Inv, Memory
<1>7. Memory'  BY <1>1, <1>2 DEF Inv, Memory
<1>8. Turned'  BY <1>2, <1>3 DEF Inv, Turned
<1>9. Carried'  BY <1>2, <1>3 DEF Inv, Carried
<1>10. delivery[d].status # "unused" /\ d \notin Taken /\ inflight[Pulse] # d
  BY <1>1, QueueConstants, DeliveryAssumption DEF Inv, Carried
<1>11. Untouched'  BY <1>2, <1>3, <1>6, <1>10, UntouchedKept DEF Inv
<1>12. \A e \in Deliveries : Coming(e)' <=> Coming(e)
  BY <1>2, <1>3 DEF Coming, Speaks
<1>13. ~Coming(d)
  <2>1. d \notin Lemmas!Waiting /\ d \notin Begun  BY <1>10, QueueTypes DEF Inv
  <2>2. \A f \in Lemmas!Events : ~Speaks(f, d)
    BY <2>1 DEF Inv, Turned, Speaks
  <2> QED  BY <1>10, <2>1, <2>2 DEF Coming
<1>14. ComesUnheard'
  <2>1. ASSUME NEW e \in Deliveries
        PROVE  \/ heard'[e] = heard[e] /\ (Coming(e)' => Coming(e) \/ heard[e] = 0)
               \/ heard[e] = 0 /\ heard'[e] = 1 /\ ~Coming(e)'
    BY <1>1, <1>6, <1>12, <1>13
  <2> QED  BY <2>1, ComesKept DEF Inv
<1>15. Told'
  <2>1. \A e \in Deliveries : heard[e] > 0 => heard'[e] > 0  BY <1>6
  <2> QED  BY <1>2, <1>3, <2>1, ToldKept DEF Inv
<1> QED  BY <1>4, <1>5, <1>7, <1>8, <1>9, <1>11, <1>14, <1>15 DEF Inv

LEMMA LeavePageKeeps ==
  ASSUME Inv, LeavePage
  PROVE  Inv'
<1> DEFINE d == inflight[Browser]
<1>1. /\ d \in Deliveries /\ inflight' = [inflight EXCEPT ![Browser] = NULL]
      /\ UNCHANGED <<sessionVars, reply, callback, heard>>
  BY DEF LeavePage, Inv, Memory
<1>2. /\ IInv'
      /\ \A e \in Deliveries :
           /\ delivery'[e].status = "unused" <=> delivery[e].status = "unused"
           /\ delivery'[e].status = "sent" => delivery[e].status = "sent" \/ heard[e] > 0
  <2>1. CASE Settle(d, heard[d] > 0)
    <3> DEFINE shown == heard[d] > 0
    <3>1. shown \in BOOLEAN /\ (shown => heard[d] > 0) /\ Settle(d, shown)
      BY <2>1
    <3> HIDE DEF shown
    <3>2. /\ IInv'
          /\ \A e \in Deliveries :
               /\ delivery'[e].status = "unused" <=> delivery[e].status = "unused"
               /\ delivery'[e].status = "sent" =>
                    delivery[e].status = "sent" \/ (e = d /\ shown)
      BY <1>1, <3>1, Settles DEF Inv
    <3> QED  BY <3>1, <3>2
  <2>2. CASE UNCHANGED poolVars
    BY <2>2, PoolKeeps DEF Inv, poolVars
  <2> QED  BY <2>1, <2>2 DEF LeavePage
<1>3. /\ inflight' \in [Claimants -> Deliveries \cup {NULL}]
      /\ \A c \in Claimants : inflight'[c] \in {inflight[c], NULL}
  BY <1>1 DEF Inv, Memory
<1> QED  BY <1>1, <1>2, <1>3, RowsMove

LEMMA FireCallbackKeeps ==
  ASSUME Inv, NEW f \in Lemmas!Events, FireCallback(f)
  PROVE  Inv'
<1>1. /\ f \in Deliveries /\ f \in Begun /\ callback' = callback \ {f}
      /\ UNCHANGED <<sessionVars, inflight, reply, heard>>
  BY DEF FireCallback, Inv, Memory, Turned
<1>2. /\ IInv'
      /\ \A e \in Deliveries :
           /\ delivery'[e].status = "unused" <=> delivery[e].status = "unused"
           /\ delivery'[e].status = "sent" => delivery[e].status = "sent" \/ e \in Begun
  <2>1. CASE Settle(f, TRUE)
    BY <1>1, <2>1, Settles DEF Inv
  <2>2. CASE UNCHANGED poolVars
    BY <2>2, PoolKeeps DEF Inv, poolVars
  <2> QED  BY <2>1, <2>2 DEF FireCallback
<1> QED  BY <1>1, <1>2, RowsMove DEF Inv, Memory

(* What a step of the session does that hears nothing.                     *)
LEMMA Unheard ==
  ASSUME Inv, Queued', IInv', UNCHANGED <<inflight, heard>>,
         \A d \in Deliveries :
           /\ delivery'[d].status = "unused" <=> delivery[d].status = "unused"
           /\ delivery'[d].status = "sent" => delivery[d].status = "sent",
         Memory', Turned', Begun \subseteq Begun', Taken' \cap Deliveries \subseteq Taken,
         Lemmas!Waiting' \cap Deliveries \subseteq Lemmas!Waiting,
         \A d \in Deliveries, f \in Lemmas!Events : Speaks(f, d)' => Coming(d)
  PROVE  Inv'
<1>1. Carried'
  BY CarriedKept DEF Inv, Memory
<1>2. Untouched'  BY UntouchedKept DEF Inv
<1>3. ComesUnheard'
  <2>1. \A d \in Deliveries : Coming(d)' => Coming(d)  BY DEF Coming
  <2> QED  BY <2>1, ComesKept DEF Inv
<1>4. Told'  BY ToldKept DEF Inv
<1> QED  BY <1>1, <1>2, <1>3, <1>4 DEF Inv

LEMMA WriteInChatKeeps ==
  ASSUME Inv, NEW e \in UserEvents, WriteInChat(e)
  PROVE  Inv'
<1>1. /\ Lemmas!StartTurn(e) \/ Lemmas!CheckBusy(e) \/ Lemmas!QueueBusyMessage(e)
      /\ UNCHANGED <<poolVars, inflight, reply, callback, heard>>
  BY SameSpeech, SameBusy DEF WriteInChat, memoryVars
<1>2. Queued'  BY <1>1, QueueKeeps DEF Inv, Lemmas!Next
<1>3. /\ Begun \subseteq Begun' /\ Taken' \subseteq Taken \cup {e}
      /\ Lemmas!Waiting' \subseteq Lemmas!Waiting \cup {e}
      /\ \A g \in Lemmas!Events :
           \/ frame'[g].pc = frame[g].pc /\ frame'[g].current = frame[g].current
           \/ g = e /\ frame'[g].current = e /\ e \in Begun'
  BY <1>1, Arrives DEF Inv
<1>4. e \notin Deliveries  BY QueueConstants
<1>5. IInv' /\ delivery' = delivery  BY <1>1, PoolKeeps DEF Inv, poolVars
<1>6. Memory'  BY <1>1 DEF Inv, Memory
<1>7. Turned'
  <2>1. \A g \in Deliveries : frame'[g].pc = frame[g].pc
    BY <1>3, <1>4, QueueConstants
  <2> QED  BY <1>1, <1>3, <2>1, TurnedKept DEF Inv
<1>8. \A d \in Deliveries, f \in Lemmas!Events : Speaks(f, d)' => Coming(d)
  BY <1>1, <1>3, <1>4 DEF Speaks, Coming
<1> QED  BY <1>1, <1>2, <1>3, <1>4, <1>5, <1>6, <1>7, <1>8, Unheard

LEMMA BeginTurnKeeps ==
  ASSUME Inv, NEW f \in Lemmas!Events, BeginTurn(f)
  PROVE  Inv'
<1>1. Lemmas!Begin(f) /\ UNCHANGED <<inflight, reply, callback, heard>>
  BY SameTurn DEF BeginTurn, memoryVars
<1>2. Queued'  BY <1>1, QueueKeeps DEF Inv, Lemmas!Next, Lemmas!Step
<1>3. /\ Begun' = Begun /\ Taken' = Taken /\ Lemmas!Waiting' \subseteq Lemmas!Waiting
      /\ frame[f].pc \in {"starting", "agent"} /\ frame'[f].pc = "agent"
      /\ frame'[f].current = frame[f].current
      /\ \A g \in Lemmas!Events \ {f} : frame'[g] = frame[g]
  BY <1>1, GoesOn DEF Inv
<1>4. IInv' /\ delivery' = delivery  BY RecordsMessage DEF BeginTurn, Inv
<1>5. Memory'  BY <1>1 DEF Inv, Memory
<1>6. Turned'
  <2>1. \A g \in Lemmas!Events : /\ frame'[g].pc = "none" <=> frame[g].pc = "none"
                                /\ frame'[g].current = frame[g].current
    BY <1>3
  <2>2. Deliveries \subseteq Lemmas!Events  BY QueueConstants
  <2> QED  BY <1>1, <1>3, <2>1, <2>2, TurnedKept DEF Inv
<1>7. \A d \in Deliveries, g \in Lemmas!Events : Speaks(g, d)' => Coming(d)
  BY <1>1, <1>3 DEF Speaks, Coming
<1> QED  BY <1>1, <1>2, <1>3, <1>4, <1>5, <1>6, <1>7, Unheard

LEMMA TurnedAwayKeeps ==
  ASSUME Inv, NEW f \in Lemmas!Events, TurnedAway(f)
  PROVE  Inv'
<1>1. /\ Lemmas!TurnAway(f) /\ UNCHANGED <<inflight, callback, heard>>
      /\ reply' = [reply EXCEPT ![f] = "silent"]
  BY SameTurn DEF TurnedAway
<1>2. Queued'  BY <1>1, QueueKeeps DEF Inv, Lemmas!Next, Lemmas!Step
<1>3. /\ Begun' = Begun /\ Taken' = Taken /\ Lemmas!Waiting' \subseteq Lemmas!Waiting
      /\ frame[f].pc \in {"starting", "agent"} /\ frame'[f].pc \in {"agent", "respond"}
      /\ frame'[f].current = frame[f].current
      /\ \A g \in Lemmas!Events \ {f} : frame'[g] = frame[g]
  BY <1>1, GoesOn DEF Inv
<1>4. IInv' /\ delivery' = delivery  BY RecordsMessage DEF TurnedAway, Inv
<1>5. Memory' /\ \A g \in Lemmas!Events \ {f} : reply'[g] = reply[g]
  BY <1>1 DEF Inv, Memory, Replies
<1>6. Turned'
  <2>1. \A g \in Lemmas!Events : /\ frame'[g].pc = "none" <=> frame[g].pc = "none"
                                /\ frame'[g].current = frame[g].current
    BY <1>3
  <2>2. Deliveries \subseteq Lemmas!Events  BY QueueConstants
  <2> QED  BY <1>1, <1>3, <2>1, <2>2, TurnedKept DEF Inv
<1>7. \A d \in Deliveries, g \in Lemmas!Events : Speaks(g, d)' => Coming(d)
  BY <1>3, <1>5 DEF Speaks, Coming
<1> QED  BY <1>1, <1>2, <1>3, <1>4, <1>5, <1>6, <1>7, Unheard

(* A frame at event e brings its words to the user and goes on elsewhere.  *)
LEMMA Heard ==
  ASSUME Inv, NEW f \in Lemmas!Events, NEW c, Queued', IInv', inflight' = inflight,
         Hear(c), Speaks(f, c),
         \A d \in Deliveries :
           /\ delivery'[d].status = "unused" <=> delivery[d].status = "unused"
           /\ delivery'[d].status = "sent" => delivery[d].status = "sent",
         Memory', Turned', Begun \subseteq Begun', Taken' \cap Deliveries \subseteq Taken,
         Lemmas!Waiting' \cap Deliveries \subseteq Lemmas!Waiting,
         \A d \in Deliveries, g \in Lemmas!Events : Speaks(g, d)' => Coming(d),
         \A g \in Lemmas!Events : ~Speaks(g, c)'
  PROVE  Inv'
<1>1. Carried'
  BY CarriedKept DEF Inv, Memory
<1>2. c \in Begun /\ c \in Taken /\ c \notin Lemmas!Waiting /\ c # NULL
  BY QueueConstants, QueueTypes DEF Inv, Turned, Speaks
<1>3. c \in Deliveries => delivery[c].status # "unused" /\ heard[c] = 0
  BY <1>2 DEF Inv, Untouched, ComesUnheard, Coming
<1>4. \A d \in Deliveries : heard'[d] = IF d = c THEN 1 ELSE heard[d]
  <2>1. CASE c \in Deliveries
    BY <1>3, <2>1 DEF Hear, Inv, Memory
  <2>2. CASE c \notin Deliveries
    BY <2>2 DEF Hear
  <2> QED  BY <2>1, <2>2
<1>5. Untouched'  BY <1>3, <1>4, UntouchedKept DEF Inv
<1>6. \A d \in Deliveries : Coming(d)' => Coming(d)  BY DEF Coming
<1>7. inflight[Pulse] # c
  BY <1>2, QueueConstants DEF Inv, Carried
<1>8. c \in Deliveries => ~Coming(c)'
  BY <1>2, <1>7 DEF Coming
<1>9. ComesUnheard'
  <2>1. ASSUME NEW d \in Deliveries
        PROVE  \/ heard'[d] = heard[d] /\ (Coming(d)' => Coming(d) \/ heard[d] = 0)
               \/ heard[d] = 0 /\ heard'[d] = 1 /\ ~Coming(d)'
    BY <1>3, <1>4, <1>6, <1>8
  <2> QED  BY <2>1, ComesKept DEF Inv
<1>10. Told'
  <2>1. \A d \in Deliveries : heard[d] > 0 => heard'[d] > 0  BY <1>4
  <2> QED  BY <2>1, ToldKept DEF Inv
<1> QED  BY <1>1, <1>5, <1>9, <1>10 DEF Inv

(* Only the frame whose turn it is can speak.                              *)
LEMMA OneSpeaks ==
  ASSUME Inv, NEW f \in Lemmas!Events, frame[f].pc \in {"starting", "agent", "respond"},
         NEW g \in Lemmas!Events \ {f}, NEW d
  PROVE  ~Speaks(g, d)
<1>1. Lemmas!Running(f)  BY DEF Lemmas!Running
<1>2. Speaks(g, d) => Lemmas!Running(g)  BY DEF Speaks, Lemmas!Running
<1> QED  BY <1>1, <1>2, QueueTypes DEF Inv

LEMMA RunQueuedKeeps ==
  ASSUME Inv, NEW f \in Lemmas!Events, RunQueued(f)
  PROVE  Inv'
<1>1. Lemmas!Recurse(f) /\ UNCHANGED <<poolVars, inflight, reply, callback>>
  BY SameTurn DEF RunQueued, memoryVars
<1>2. Queued'  BY <1>1, QueueKeeps DEF Inv, Lemmas!Next, Lemmas!Step
<1>3. PICK n \in Lemmas!Waiting \cap Lemmas!Events :
        /\ Begun' = Begun \cup {n} /\ Taken' = Taken
        /\ Lemmas!Waiting' \subseteq Lemmas!Waiting \ {n}
        /\ frame[f].pc = "agent" /\ frame'[f].pc = "agent" /\ frame'[f].current = n
        /\ \A g \in Lemmas!Events \ {f} : frame'[g] = frame[g]
  BY <1>1, Recurses DEF Inv
<1>4. IInv' /\ delivery' = delivery  BY <1>1, PoolKeeps DEF Inv, poolVars
<1>5. PICK c \in Begun : c = frame[f].current  BY <1>3 DEF Inv, Turned
<1>6. heard' = heard \/ Hear(c)  BY <1>5 DEF RunQueued
<1>7. Memory'
  <2>1. heard' \in [Deliveries -> Nat]  BY <1>6 DEF Hear, Inv, Memory
  <2> QED  BY <1>1, <2>1 DEF Inv, Memory
<1>8. Turned'
  <2>1. ASSUME NEW g \in Lemmas!Events
        PROVE  /\ frame'[g].pc = "none" <=> frame[g].pc = "none"
               /\ frame'[g].pc # "none" => g \in Begun' /\ frame'[g].current \in Begun'
    BY <1>3 DEF Inv, Turned
  <2>2. callback \subseteq Lemmas!Events  BY QueueConstants DEF Inv, Memory
  <2> QED  BY <1>1, <2>1, <2>2 DEF Inv, Turned
<1>9. c # n  BY <1>3, <1>5, QueueTypes DEF Inv
<1>10. \A g \in Lemmas!Events : \A d : Speaks(g, d)' => g = f /\ d = n
  <2>1. ASSUME NEW g \in Lemmas!Events, NEW d, Speaks(g, d)'  PROVE g = f
    <3>1. g # f => Speaks(g, d)  BY <1>1, <1>3, <2>1 DEF Speaks
    <3> QED  BY <1>3, <3>1, OneSpeaks
  <2> QED  BY <1>3, <2>1 DEF Speaks
<1>11. \A d \in Deliveries, g \in Lemmas!Events : Speaks(g, d)' => Coming(d)
  BY <1>3, <1>10 DEF Coming
<1>12. \A g \in Lemmas!Events : ~Speaks(g, c)'
  BY <1>9, <1>10
<1>13. CASE heard' = heard
  BY <1>1, <1>2, <1>3, <1>4, <1>7, <1>8, <1>11, <1>13, Unheard
<1>14. CASE Hear(c)
  <2>1. Speaks(f, c)  BY <1>3, <1>5 DEF Speaks
  <2> QED  BY <1>1, <1>2, <1>3, <1>4, <1>7, <1>8, <1>11, <1>12, <1>14, <2>1, Heard
<1> QED  BY <1>6, <1>13, <1>14

LEMMA GiveBackKeeps ==
  ASSUME Inv, NEW f \in Lemmas!Events, GiveBack(f)
  PROVE  Inv'
<1>1. PICK r \in Replies :
        /\ \/ r \in {"apology", "silent"} /\ Queue!ReturnError(f)
           \/ Ends(f, r) /\ (Queue!ReturnReply(f) \/ Queue!StopAtCap(f))
        /\ reply' = [reply EXCEPT ![f] = r]
        /\ IF r = "streamed" THEN Hear(frame[f].current) ELSE UNCHANGED heard
        /\ callback' = IF f \in Deliveries /\ r \in {"text", "apology"}
                       THEN callback \cup {f} ELSE callback
        /\ IF f \in Deliveries /\ r \in {"streamed", "silent"}
           THEN Settle(f, FALSE) ELSE UNCHANGED poolVars
        /\ UNCHANGED inflight
  BY DEF GiveBack
<1>2. Lemmas!ReturnError(f) \/ Lemmas!ReturnReply(f) \/ Lemmas!StopAtCap(f)
  BY <1>1, SameTurn
<1>3. Queued'  BY <1>2, QueueKeeps DEF Inv, Lemmas!Next, Lemmas!Step
<1>4. /\ Begun' = Begun /\ Taken' = Taken /\ Lemmas!Waiting' \subseteq Lemmas!Waiting
      /\ frame[f].pc = "agent" /\ frame'[f].pc = "respond"
      /\ frame'[f].current = frame[f].current
      /\ \A g \in Lemmas!Events \ {f} : frame'[g] = frame[g]
  <2>1. frame[f].pc = "agent"
    BY <1>2 DEF Lemmas!ReturnError, Lemmas!ReturnReply, Lemmas!StopAtCap
  <2>2. ~Lemmas!Begin(f)  BY <2>1 DEF Lemmas!Begin
  <2> QED  BY <1>2, <2>1, <2>2, GoesOn DEF Inv
<1>5. /\ IInv'
      /\ \A d \in Deliveries :
           /\ delivery'[d].status = "unused" <=> delivery[d].status = "unused"
           /\ delivery'[d].status = "sent" => delivery[d].status = "sent"
  <2>1. CASE f \in Deliveries /\ Settle(f, FALSE)
    BY <2>1, Settles DEF Inv
  <2>2. CASE UNCHANGED poolVars
    BY <2>2, PoolKeeps DEF Inv, poolVars
  <2> QED  BY <1>1, <2>1, <2>2
<1>6. PICK c \in Begun : c = frame[f].current  BY <1>4 DEF Inv, Turned
<1>7. \/ r # "streamed" /\ heard' = heard
      \/ r = "streamed" /\ Hear(c)
  BY <1>1, <1>6
<1>8. /\ reply'[f] = r /\ \A g \in Lemmas!Events \ {f} : reply'[g] = reply[g]
      /\ reply' \in [Lemmas!Events -> Replies \cup {NULL}]
  BY <1>1 DEF Inv, Memory
<1>9. callback' \subseteq callback \cup ({f} \cap Deliveries)  BY <1>1
<1>10. Memory'
  <2>1. heard' \in [Deliveries -> Nat]  BY <1>7 DEF Hear, Inv, Memory
  <2> QED  BY <1>1, <1>8, <1>9, <2>1 DEF Inv, Memory
<1>11. Turned'
  <2>1. \A g \in Lemmas!Events : /\ frame'[g].pc = "none" <=> frame[g].pc = "none"
                                /\ frame'[g].current = frame[g].current
    BY <1>4
  <2>2. Deliveries \subseteq Lemmas!Events  BY QueueConstants
  <2>3. \A g \in callback' : g \in callback \/ frame'[g].pc # "none"
    BY <1>4, <1>9
  <2> QED  BY <1>4, <2>1, <2>2, <2>3, TurnedKept DEF Inv
<1>12. \A g \in Lemmas!Events : \A d : Speaks(g, d)' => g = f /\ d = c /\ r = "text"
  <2>1. ASSUME NEW g \in Lemmas!Events, NEW d, Speaks(g, d)'  PROVE g = f
    <3>1. g # f => Speaks(g, d)  BY <1>4, <1>8, <2>1 DEF Speaks
    <3> QED  BY <1>4, <3>1, OneSpeaks
  <2> QED  BY <1>4, <1>6, <1>8, <2>1 DEF Speaks
<1>13. Speaks(f, c)  BY <1>4, <1>6 DEF Speaks
<1>14. \A d \in Deliveries, g \in Lemmas!Events : Speaks(g, d)' => Coming(d)
  BY <1>12, <1>13 DEF Coming
<1>15. CASE r # "streamed" /\ heard' = heard
  BY <1>1, <1>3, <1>4, <1>5, <1>10, <1>11, <1>14, <1>15, Unheard
<1>16. CASE r = "streamed" /\ Hear(c)
  <2>1. \A g \in Lemmas!Events : ~Speaks(g, c)'  BY <1>12, <1>16
  <2> QED  BY <1>1, <1>3, <1>4, <1>5, <1>10, <1>11, <1>13, <1>14, <1>16, <2>1, Heard
<1> QED  BY <1>7, <1>15, <1>16

(* A frame that unwinds speaks no more; a successor may.                   *)
LEMMA EndTurned ==
  ASSUME Inv, NEW f \in Lemmas!Events, Lemmas!InBandDrain(f) \/ Lemmas!Finish(f),
         callback' = callback
  PROVE  Turned'
<1>1. /\ Begun \subseteq Begun' /\ frame[f].pc \in {"respond", "finally"}
      /\ \A g \in Lemmas!Events :
           \/ g # f /\ frame'[g] = frame[g]
           \/ g = f /\ frame'[g].pc \in {"finally", "done"} /\ frame'[g].current = g
           \/ g \in Begun' /\ frame'[g].current = g /\ frame'[g].pc = "starting"
  BY Rests DEF Inv
<1>2. ASSUME NEW g \in Lemmas!Events
      PROVE  \/ /\ frame'[g].pc # "none" => frame[g].pc # "none"
                /\ frame'[g].current \in {frame[g].current, g}
             \/ g \in Begun' /\ frame'[g].current \in Begun'
  BY <1>1
<1>3. \A g \in Deliveries : frame'[g].pc = "none" => frame[g].pc = "none"
  BY <1>1, QueueConstants
<1> QED  BY <1>1, <1>2, <1>3, TurnedKept DEF Inv

LEMMA EndSpeaks ==
  ASSUME Inv, NEW f \in Lemmas!Events, Lemmas!InBandDrain(f) \/ Lemmas!Finish(f),
         \A g \in Lemmas!Events \ {f} : reply'[g] = reply[g],
         NEW g \in Lemmas!Events, NEW d, Speaks(g, d)'
  PROVE  d \in Lemmas!Waiting \/ (g # f /\ Speaks(g, d))
<1>1. \/ g # f /\ frame'[g] = frame[g]
      \/ g = f /\ frame'[g].pc \in {"finally", "done"}
      \/ g \in Lemmas!Waiting /\ frame'[g].current = g
  BY Rests DEF Inv
<1> QED  BY <1>1 DEF Speaks

LEMMA SendReplyKeeps ==
  ASSUME Inv, NEW f \in Lemmas!Events, SendReply(f)
  PROVE  Inv'
<1>1. /\ Lemmas!InBandDrain(f) /\ frame[f].pc = "respond"
      /\ reply' = [reply EXCEPT ![f] = NULL]
      /\ UNCHANGED <<poolVars, inflight, callback>>
  BY SameEnd DEF SendReply, Queue!InBandDrain
<1>2. Queued'  BY <1>1, QueueKeeps DEF Inv, Lemmas!Next, Lemmas!Step
<1>3. Begun \subseteq Begun' /\ Taken' = Taken /\ Lemmas!Waiting' \subseteq Lemmas!Waiting
  BY <1>1, Rests DEF Inv
<1>4. IInv' /\ delivery' = delivery  BY <1>1, PoolKeeps DEF Inv, poolVars
<1>5. PICK c \in Begun : c = frame[f].current  BY <1>1 DEF Inv, Turned
<1>6. heard' = heard \/ (reply[f] = "text" /\ Hear(c))  BY <1>5 DEF SendReply
<1>7. /\ \A g \in Lemmas!Events \ {f} : reply'[g] = reply[g]
      /\ reply' \in [Lemmas!Events -> Replies \cup {NULL}]
  BY <1>1 DEF Inv, Memory
<1>8. Memory'
  <2>1. heard' \in [Deliveries -> Nat]  BY <1>6 DEF Hear, Inv, Memory
  <2> QED  BY <1>1, <1>7, <2>1 DEF Inv, Memory
<1>9. Turned'  BY <1>1, EndTurned
<1>10. \A d : \A g \in Lemmas!Events :
         Speaks(g, d)' => d \in Lemmas!Waiting \/ (g # f /\ Speaks(g, d))
  BY <1>1, <1>7, EndSpeaks
<1>11. \A d \in Deliveries, g \in Lemmas!Events : Speaks(g, d)' => Coming(d)
  BY <1>10 DEF Coming
<1>12. CASE heard' = heard
  BY <1>1, <1>2, <1>3, <1>4, <1>8, <1>9, <1>11, <1>12, Unheard
<1>13. CASE reply[f] = "text" /\ Hear(c)
  <2>1. Speaks(f, c)  BY <1>1, <1>5, <1>13 DEF Speaks
  <2>2. c \notin Lemmas!Waiting  BY <1>5, QueueTypes DEF Inv
  <2>3. ASSUME NEW g \in Lemmas!Events, Speaks(g, c)'  PROVE FALSE
    <3>1. g # f /\ Speaks(g, c)  BY <1>10, <2>2, <2>3
    <3> QED  BY <1>1, <3>1, OneSpeaks
  <2> QED  BY <1>1, <1>2, <1>3, <1>4, <1>8, <1>9, <1>11, <1>13, <2>1, <2>3, Heard
<1> QED  BY <1>6, <1>12, <1>13

LEMMA UnwindKeeps ==
  ASSUME Inv, NEW f \in Lemmas!Events, Unwind(f)
  PROVE  Inv'
<1>1. /\ Lemmas!Finish(f)
      /\ UNCHANGED <<poolVars, inflight, reply, callback, heard>>
  BY SameEnd DEF Unwind, memoryVars
<1>2. Queued'  BY <1>1, QueueKeeps DEF Inv, Lemmas!Next, Lemmas!Step
<1>3. Begun \subseteq Begun' /\ Taken' = Taken /\ Lemmas!Waiting' \subseteq Lemmas!Waiting
  BY <1>1, Rests DEF Inv
<1>4. IInv' /\ delivery' = delivery  BY <1>1, PoolKeeps DEF Inv, poolVars
<1>5. Memory'  BY <1>1 DEF Inv, Memory
<1>6. Turned'  BY <1>1, EndTurned
<1>7. \A d : \A g \in Lemmas!Events :
        Speaks(g, d)' => d \in Lemmas!Waiting \/ (g # f /\ Speaks(g, d))
  BY <1>1, EndSpeaks
<1>8. \A d \in Deliveries, g \in Lemmas!Events : Speaks(g, d)' => Coming(d)
  BY <1>7 DEF Coming
<1> QED  BY <1>1, <1>2, <1>3, <1>4, <1>5, <1>6, <1>8, Unheard


(* The gateway restarts: no frame is left that could speak, and nothing    *)
(* waits.                                                                  *)
LEMMA RestartKeeps ==
  ASSUME Inv, Restart
  PROVE  Inv'
<1>1. /\ slot' = NULL /\ overflow' = <<>> /\ guard' = FALSE /\ owner' = NULL
      /\ claim' = [c \in Claimants |-> Idle] /\ inflight' = [c \in Claimants |-> NULL]
      /\ callback' = {} /\ checking' = {} /\ reply' = [e \in Lemmas!Events |-> NULL]
      /\ UNCHANGED <<now, item, delivery, prefs, activity, accepted, started, heard>>
  BY QueueConstants DEF Restart
<1>2. /\ Lemmas!TypeOK
      /\ frame' = [f \in Lemmas!Events |->
                     IF frame[f].pc = "none" THEN frame[f] ELSE Lemmas!Resting(f, "done")]
  BY QueueConstants DEF Restart, Queue!Resting, Lemmas!Resting, Inv, Queued, Lemmas!IInv
<1>3. \A f \in Lemmas!Events :
        /\ frame'[f].pc \in {"none", "done"}
        /\ frame'[f].pc = "none" <=> frame[f].pc = "none"
        /\ frame'[f].current \in {frame[f].current, f}
  BY <1>2 DEF Lemmas!Resting
<1>4. IInv'
  <2>1. TypeOK'  BY <1>1 DEF Inv, IInv, TypeOK, ClaimState
  <2>2. Fits(item, delivery)'
    BY <1>1 DEF Inv, IInv, Fits, NamesTopic, OneFlying, Flying, HeldByRow, HoldsRow,
                SentCloses, VacantRows, NoClash
  <2> QED  BY <2>1, <2>2 DEF IInv
<1>5. Lemmas!SeqSet(<<>>) = {} /\ Lemmas!NoRepeat(<<>>)
  BY DEF Lemmas!SeqSet, Lemmas!NoRepeat
<1>6. Lemmas!Waiting' = {} /\ Begun' = Begun /\ Taken' = Taken
  BY <1>1, <1>5 DEF Lemmas!Waiting, Begun, Taken
<1>7. Queued'
  <2>1. frame' \in [Lemmas!Events -> Lemmas!FrameState]
    <3>1. \A f \in Lemmas!Events : Lemmas!Resting(f, "done") \in Lemmas!FrameState
      BY QueueConstants, Lemmas!RestingType
    <3>2. frame \in [Lemmas!Events -> Lemmas!FrameState]  BY <1>2 DEF Lemmas!TypeOK
    <3> QED  BY <1>2, <3>1, <3>2
  <2>2. Lemmas!TypeOK'
    <3>1. accepted \in Seq(Lemmas!Events) /\ started \in Seq(Lemmas!Events)
      BY <1>2 DEF Lemmas!TypeOK
    <3>2. overflow' \in Seq(Lemmas!Events)  BY <1>1
    <3> QED  BY <1>1, <2>1, <3>1, <3>2 DEF Lemmas!TypeOK
  <2>3. Lemmas!OwnerRuns'
    BY <1>3 DEF Lemmas!OwnerRuns, Lemmas!Running
  <2>4. Lemmas!Once'
    <3>1. Lemmas!NoRepeat(overflow') /\ slot' \notin Lemmas!SeqSet(overflow')
      BY <1>1, <1>5
    <3>2. UNCHANGED <<accepted, started>> /\ checking' \cap Lemmas!SeqSet(accepted) = {}
      BY <1>1
    <3>3. Lemmas!Once /\ Lemmas!Waiting' \subseteq Lemmas!Waiting
      BY <1>6 DEF Inv, Queued
    <3> QED  BY <3>1, <3>2, <3>3, QueueConstants, Lemmas!SettleOnce
  <2> QED  BY <2>2, <2>3, <2>4 DEF Queued, Lemmas!IInv
<1>8. Memory'  BY <1>1 DEF Inv, Memory
<1>9. Turned'  BY <1>1, <1>3, <1>6 DEF Inv, Turned
<1>10. Carried'  BY <1>1 DEF Carried
<1>11. Untouched'  BY <1>1, <1>6, UntouchedKept DEF Inv
<1>12. ComesUnheard'
  <2>1. \A d \in Deliveries : ~Coming(d)'
    BY <1>1, <1>3, <1>6, QueueConstants DEF Coming, Speaks
  <2> QED  BY <1>1, <2>1, ComesKept DEF Inv
<1>13. Told'  BY <1>1, <1>6, ToldKept DEF Inv
<1> QED  BY <1>4, <1>7, <1>8, <1>9, <1>10, <1>11, <1>12, <1>13 DEF Inv

LEMMA NextKeeps == Inv /\ [Next]_vars => Inv'
<1> SUFFICES ASSUME Inv, [Next]_vars PROVE Inv'
  OBVIOUS
<1>1. CASE \/ Curate
           \/ \E c \in Claimants : BeginClaim(c) \/ ContinueClaim(c)
           \/ \E c \in Claimants, d \in Deliveries : Claimed(c, d)
  BY <1>1, CurateKeeps, ClaimGoesOn, ClaimedKeeps
<1>2. CASE HandOver \/ ShowOnPage \/ LeavePage \/ WriteOnPage
  BY <1>2, HandOverKeeps, ShowOnPageKeeps, LeavePageKeeps, WriteOnPageKeeps
<1>3. CASE \E e \in UserEvents : WriteInChat(e)
  BY <1>3, WriteInChatKeeps
<1>4. CASE \E f \in Lemmas!Events :
              \/ BeginTurn(f) \/ TurnedAway(f) \/ RunQueued(f) \/ GiveBack(f)
              \/ SendReply(f) \/ FireCallback(f) \/ Unwind(f)
  BY <1>4, BeginTurnKeeps, TurnedAwayKeeps, RunQueuedKeeps, GiveBackKeeps, SendReplyKeeps,
     FireCallbackKeeps, UnwindKeeps
<1>5. CASE Restart
  BY <1>5, RestartKeeps
<1>6. CASE UNCHANGED vars
  <2>1. UNCHANGED <<poolVars, sessionVars, memoryVars, heard>>  BY <1>6 DEF vars
  <2>2. IInv' /\ delivery' = delivery  BY <2>1, PoolKeeps DEF Inv, poolVars
  <2> QED  BY <2>1, <2>2, RowsMove DEF memoryVars, Inv, Memory
<1> QED  BY <1>1, <1>2, <1>3, <1>4, <1>5, <1>6, QueueConstants DEF Next

----------------------------------------------------------------------------
(* The theorems.                                                           *)

(* The inductive invariant of the delivery of topics: the store's and the  *)
(* queue's own, and where a delivery is on its way between them.           *)
THEOREM DeliveryIntegrity == DeliverySpec => []Inv
BY InitInv, NextKeeps, PTL DEF DeliverySpec

(* Every variable of the composed system keeps its type.                   *)
THEOREM DeliveryTypes == DeliverySpec => []DeliveryTypeOK
<1>1. Inv => DeliveryTypeOK
  <2> SUFFICES ASSUME Inv PROVE DeliveryTypeOK
    OBVIOUS
  <2>1. TypeOK /\ Lemmas!TypeOK  BY DEF Inv, IInv, Queued, Lemmas!IInv
  <2>2. Queue!TypeOK
    BY <2>1, QueueConstants DEF Lemmas!TypeOK, Queue!TypeOK, Lemmas!FrameState, Queue!FrameState
  <2> QED  BY <2>1, <2>2, QueueConstants DEF Inv, Memory, DeliveryTypeOK
<1> QED  BY <1>1, DeliveryIntegrity, PTL

(* A row is marked sent only after its delivery had a turn of its own or   *)
(* was shown on the page: a hand-over the queue refused, an event that     *)
(* still waits or one a restart dropped is never counted as sent.          *)
THEOREM SentHadTheirTurn == DeliverySpec => []SentHadTurn
<1>1. Inv => SentHadTurn
  BY DEF Inv, Told, SentHadTurn, Begun, Lemmas!SeqSet, Queue!SeqSet
<1> QED  BY <1>1, DeliveryIntegrity, PTL

(* When the user hears one topic in two deliveries, the store marked one   *)
(* of them failed: the claims themselves never overlap.                    *)
THEOREM SpokenTwiceAfterFailure == DeliverySpec => []SpokenTwiceOnlyIfFailed
<1>1. Inv => SpokenTwiceOnlyIfFailed
  <2> SUFFICES ASSUME Inv, NEW d \in Deliveries, NEW e \in Deliveries,
                      d # e, heard[d] > 0, heard[e] > 0,
                      delivery[d].topic = delivery[e].topic
               PROVE  "failed" \in {delivery[d].status, delivery[e].status}
    BY DEF SpokenTwiceOnlyIfFailed
  <2>1. delivery[d].status # "unused" /\ delivery[e].status # "unused"
    BY DEF Inv, Untouched
  <2>2. \A a \in Deliveries : delivery[a].status \in {"unused", "reserved", "sent", "failed"}
    BY DEF Inv, IInv, TypeOK, Delivery
  <2>3. ~(Flying(delivery, d) /\ Flying(delivery, e))
    BY DEF Inv, IInv, Fits, OneFlying
  <2> QED  BY <2>1, <2>2, <2>3 DEF Flying
<1> QED  BY <1>1, DeliveryIntegrity, PTL

(* A delivery is spoken to the user at most once, through recursion,       *)
(* promotion, requeueing, restarts and the recovery of stale claims.       *)
THEOREM SpokenOnce == DeliverySpec => []DeliverySpokenOnce
<1>1. Inv => DeliverySpokenOnce
  BY DEF Inv, ComesUnheard, DeliverySpokenOnce
<1> QED  BY <1>1, DeliveryIntegrity, PTL

(* What the store guarantees on its own it guarantees with the pulse, the  *)
(* page and the chat at work on it and with restarts of the gateway.       *)
THEOREM StoreHolds == DeliverySpec => [](OpenIsUnclaimed /\ HolderAgrees /\ SourceSentOnce)
<1>1. Inv => OpenIsUnclaimed /\ HolderAgrees /\ SourceSentOnce
  BY FitsOpen, FitsHolders, FitsSources DEF Inv
<1> QED  BY <1>1, DeliveryIntegrity, PTL

(* The queue is only ever touched by its own actions, or emptied by a      *)
(* restart of the gateway.                                                 *)
LEMMA QueueSteps ==
  ASSUME Inv, Next
  PROVE  Lemmas!Next \/ UNCHANGED sessionVars \/ Restart
<1>1. CASE \/ Curate
           \/ \E c \in Claimants : BeginClaim(c) \/ ContinueClaim(c)
           \/ \E c \in Claimants, d \in Deliveries : Claimed(c, d)
           \/ ShowOnPage \/ LeavePage \/ WriteOnPage
  BY <1>1 DEF Curate, BeginClaim, ContinueClaim, Claimed, ShowOnPage, LeavePage, WriteOnPage
<1>2. CASE HandOver
  <2>1. inflight[Pulse] \in Deliveries
    BY <1>2, QueueConstants DEF HandOver, Inv, Memory
  <2>2. Queue!Push(inflight[Pulse]) \/ UNCHANGED sessionVars
    BY <1>2 DEF HandOver
  <2> QED  BY <2>1, <2>2, SameSpeech DEF Lemmas!Next
<1>3. ASSUME NEW e \in UserEvents, WriteInChat(e)
      PROVE  Lemmas!Next
  BY <1>3, SameSpeech, SameBusy DEF WriteInChat, Lemmas!Next
<1>4. ASSUME NEW f \in Lemmas!Events, BeginTurn(f) \/ TurnedAway(f) \/ RunQueued(f)
      PROVE  Lemmas!Next
  BY <1>4, SameTurn DEF BeginTurn, TurnedAway, RunQueued, Lemmas!Next, Lemmas!Step
<1>5. ASSUME NEW f \in Lemmas!Events, GiveBack(f)
      PROVE  Lemmas!Next
  <2>1. Queue!ReturnError(f) \/ Queue!ReturnReply(f) \/ Queue!StopAtCap(f)
    BY <1>5 DEF GiveBack
  <2> QED  BY <2>1, SameTurn DEF Lemmas!Next, Lemmas!Step
<1>6. ASSUME NEW f \in Lemmas!Events, SendReply(f) \/ FireCallback(f) \/ Unwind(f)
      PROVE  Lemmas!Next \/ UNCHANGED sessionVars
  BY <1>6, SameEnd DEF SendReply, FireCallback, Unwind, Lemmas!Next, Lemmas!Step
<1> QED  BY <1>1, <1>2, <1>3, <1>4, <1>5, <1>6, QueueConstants DEF Next

(* Nor do pushed deliveries and restarts let two turns run at once, an     *)
(* event have a second one, or a later message overtake in the overflow.   *)
THEOREM QueueHolds ==
  DeliverySpec => [](Queue!OneTurn /\ Queue!NoSecondTurn /\ Queue!OverflowInOrder)
<1>1. Inv => Queue!OneTurn /\ Queue!NoSecondTurn
  <2> SUFFICES ASSUME Inv PROVE Queue!OneTurn /\ Queue!NoSecondTurn
    OBVIOUS
  <2>1. Lemmas!OwnerRuns /\ Lemmas!NoSecondTurn
    BY DEF Inv, Queued, Lemmas!IInv, Lemmas!Once
  <2>2. Queue!OneTurn
    BY <2>1, QueueConstants DEF Lemmas!OwnerRuns, Lemmas!Running, Queue!Running, Queue!OneTurn
  <2>3. Queue!NoSecondTurn
    BY <2>1 DEF Lemmas!NoSecondTurn, Queue!NoSecondTurn, Lemmas!NoRepeat, Queue!NoRepeat,
                Lemmas!Waiting, Queue!Waiting, Lemmas!SeqSet, Queue!SeqSet
  <2> QED  BY <2>2, <2>3
<1>2. DeliveryInit => Lemmas!OverflowInOrder
  BY DEF DeliveryInit, Queue!Init, Lemmas!OverflowInOrder
<1>3. Inv /\ Lemmas!OverflowInOrder /\ [Next]_vars => Lemmas!OverflowInOrder'
  <2> SUFFICES ASSUME Inv, Lemmas!OverflowInOrder, [Next]_vars
               PROVE  Lemmas!OverflowInOrder'
    OBVIOUS
  <2>1. CASE Restart
    BY <2>1 DEF Restart, Lemmas!OverflowInOrder
  <2>2. CASE Lemmas!Next \/ UNCHANGED sessionVars
    <3>1. [Lemmas!Next]_(Lemmas!queueVars)
      BY <2>2 DEF sessionVars, Lemmas!queueVars
    <3>2. Lemmas!TypeOK /\ Lemmas!Once
      BY DEF Inv, Queued, Lemmas!IInv
    <3> QED  BY <3>1, <3>2, QueueConstants, Lemmas!StepInOrder
  <2> QED  BY <2>1, <2>2, QueueSteps DEF vars
<1>4. Lemmas!OverflowInOrder => Queue!OverflowInOrder
  BY DEF Lemmas!OverflowInOrder, Queue!OverflowInOrder, Lemmas!Before, Queue!Before
<1> QED  BY <1>1, <1>2, <1>3, <1>4, DeliveryIntegrity, PTL DEF DeliverySpec

(* Every step of the composed system is one of the store's, or leaves its  *)
(* rows and the clock alone and at most forgets claims under way.          *)
Apart ==
  /\ UNCHANGED <<now, item, delivery>>
  /\ \A c \in Claimants : claim'[c] \in {claim[c], Idle}

LEMMA StoreSteps ==
  ASSUME Inv, Next
  PROVE  [PoolNext]_poolVars \/ Apart
<1>1. ASSUME NEW d \in Deliveries, NEW success \in BOOLEAN, Settle(d, success)
      PROVE  [PoolNext]_poolVars
  BY <1>1 DEF Settle, PoolNext
<1>2. ASSUME NEW e, RecordMessage(e)
      PROVE  Apart
  BY <1>2 DEF RecordMessage, RecordChannelActivity, poolVars, Apart
<1>3. \A c \in Claimants : inflight[c] # NULL => inflight[c] \in Deliveries
  BY DEF Inv, Memory
<1>4. CASE Curate
  BY <1>4 DEF Curate, PoolNext
<1>5. CASE \E c \in Claimants : BeginClaim(c) \/ ContinueClaim(c)
  BY <1>5 DEF BeginClaim, ContinueClaim, PoolNext
<1>6. CASE \E c \in Claimants, d \in Deliveries : Claimed(c, d)
  BY <1>6 DEF Claimed, PoolNext
<1>7. CASE HandOver
  BY <1>1, <1>3, <1>7, QueueConstants DEF HandOver
<1>8. CASE LeavePage
  <2> DEFINE shown == heard[inflight[Browser]] > 0
  <2>1. /\ inflight[Browser] \in Deliveries /\ shown \in BOOLEAN
        /\ Settle(inflight[Browser], shown) \/ UNCHANGED poolVars
    BY <1>3, <1>8 DEF LeavePage
  <2> HIDE DEF shown
  <2> QED  BY <1>1, <2>1
<1>9. CASE ShowOnPage \/ WriteOnPage \/ Restart \/ \E e \in UserEvents : WriteInChat(e)
  BY <1>9 DEF ShowOnPage, WriteOnPage, RecordChannelActivity, Restart, WriteInChat, poolVars,
               Apart
<1>10. ASSUME NEW f \in Queue!Events, BeginTurn(f) \/ TurnedAway(f)
       PROVE  [PoolNext]_poolVars \/ Apart
  BY <1>2, <1>10 DEF BeginTurn, TurnedAway
<1>11. ASSUME NEW f \in Queue!Events, RunQueued(f) \/ SendReply(f) \/ Unwind(f)
       PROVE  UNCHANGED poolVars
  BY <1>11 DEF RunQueued, SendReply, Unwind
<1>12. ASSUME NEW f \in Queue!Events, GiveBack(f)
       PROVE  [PoolNext]_poolVars
  <2>1. UNCHANGED poolVars \/ (f \in Deliveries /\ Settle(f, FALSE))
    BY <1>12 DEF GiveBack
  <2> QED  BY <1>1, <2>1
<1>13. ASSUME NEW f \in Queue!Events, FireCallback(f)
       PROVE  [PoolNext]_poolVars
  <2>1. f \in Deliveries /\ (Settle(f, TRUE) \/ UNCHANGED poolVars)
    BY <1>13 DEF FireCallback, Inv, Memory
  <2> QED  BY <1>1, <2>1
<1> QED
  BY <1>4, <1>5, <1>6, <1>7, <1>8, <1>9, <1>10, <1>11, <1>12, <1>13 DEF Next

(* With the pulse, the page, the chat and restarts of the gateway at work  *)
(* on it the store still implements the abstract claims: a topic is        *)
(* offered once, granted to one claim at a time and retired for good.      *)
THEOREM ClaimsStillImplemented == DeliverySpec => ImplementsClaims
<1>1. DeliveryInit => Claims!Init
  BY InitClaims DEF DeliveryInit
<1>2. Inv /\ Inv' /\ [Next]_vars => [Claims!Next]_(Claims!claimVars)
  <2> SUFFICES ASSUME Inv, Inv', [Next]_vars PROVE [Claims!Next]_(Claims!claimVars)
    OBVIOUS
  <2>1. IInv /\ TypeOK'  BY DEF Inv, IInv
  <2>2. [PoolNext]_poolVars \/ Apart
    BY StoreSteps DEF vars
  <2>3. CASE [PoolNext]_poolVars
    BY <2>1, <2>3, StepClaims
  <2>4. CASE Apart
    BY <2>4, SameClaims DEF Apart
  <2> QED  BY <2>2, <2>3, <2>4
<1> QED
  BY <1>1, <1>2, DeliveryIntegrity, PTL DEF DeliverySpec, ImplementsClaims, Claims!Spec

(* No interleaving of pulse, page, chat and restarts brings a topic back   *)
(* that was consumed, dismissed or expired.                                *)
THEOREM RetiredForGood == DeliverySpec => RetiredIsFinal
<1>1. Inv /\ [Next]_vars =>
        [\A t \in Topics : item[t].status \in Retired => item'[t].status = item[t].status]_poolVars
  <2> SUFFICES ASSUME Inv, [Next]_vars
               PROVE  [\A t \in Topics : item[t].status \in Retired =>
                         item'[t].status = item[t].status]_poolVars
    OBVIOUS
  <2>1. [PoolNext]_poolVars \/ Apart  BY StoreSteps DEF vars
  <2>2. IInv  BY DEF Inv
  <2> QED  BY <2>1, <2>2, StepFinal DEF Apart
<1> QED  BY <1>1, DeliveryIntegrity, PTL DEF DeliverySpec, RetiredIsFinal

(* Nor does a claim lose its topic to another before its 15 minutes are    *)
(* over: a restart forgets claims under way, and dates nothing.            *)
THEOREM StillNotStolen == DeliverySpec => ClaimNotStolen
<1>1. DeliveryInit => Dated
  BY InitDated DEF DeliveryInit
<1>2. Inv /\ Dated /\ [Next]_vars => Dated'
  <2> SUFFICES ASSUME Inv, Dated, [Next]_vars PROVE Dated'
    OBVIOUS
  <2>1. [PoolNext]_poolVars \/ Apart  BY StoreSteps DEF vars
  <2>2. TypeOK  BY DEF Inv, IInv
  <2>3. CASE [PoolNext]_poolVars  BY <2>2, <2>3, StepDated
  <2>4. CASE Apart
    <3>1. \A c \in Claimants : claim'[c].pc # "idle" => claim'[c] = claim[c]
      BY <2>4 DEF Apart, Idle
    <3> QED  BY <2>4, <3>1 DEF Apart, Dated
  <2> QED  BY <2>1, <2>3, <2>4
<1>3. Inv /\ Dated /\ [Next]_vars =>
        [\A t \in Topics : Passed(t) =>
            /\ delivery'[item[t].holder].status = "failed"
            /\ now - delivery[item[t].holder].created_at >= ClaimTimeout]_poolVars
  <2> SUFFICES ASSUME Inv, Dated, [Next]_vars
               PROVE  [\A t \in Topics : Passed(t) =>
                         /\ delivery'[item[t].holder].status = "failed"
                         /\ now - delivery[item[t].holder].created_at >= ClaimTimeout]_poolVars
    OBVIOUS
  <2>1. [PoolNext]_poolVars \/ Apart  BY StoreSteps DEF vars
  <2>2. IInv  BY DEF Inv
  <2>3. Apart => \A t \in Topics : ~Passed(t)  BY DEF Apart, Passed
  <2> QED  BY <2>1, <2>2, <2>3, StepNotStolen
<1> QED
  BY <1>1, <1>2, <1>3, DeliveryIntegrity, PTL DEF DeliverySpec, ClaimNotStolen, Passed
============================================================================
