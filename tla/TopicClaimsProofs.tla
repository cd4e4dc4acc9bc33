------------------------- MODULE TopicClaimsProofs -------------------------
(* The tables of the Topic Pool implement the abstract claims of           *)
(* TopicClaims: every transaction is one step of the abstraction or a      *)
(* stutter, for every value of the constants.                              *)
EXTENDS TopicPoolProofs

USE DEF Item, ItemStatus, Retired, Vacant

Offered == {"open", "reserved"}

(* The refinement mapping of TopicPool!Claims, named.                      *)
Phase(rows) == [t \in Topics |-> PhaseOf(rows[t].status)]

State(table) ==
  [d \in Deliveries |->
     IF table[d].status = "reserved" THEN "held" ELSE table[d].status]

Subject(table) == [d \in Deliveries |-> {table[d].topic} \ {NULL}]

(* The phase of a topic decides which kind of status its row has.          *)
LEMMA PhaseKinds ==
  ASSUME NEW rows \in [Topics -> Item], NEW t \in Topics
  PROVE  /\ Phase(rows)[t] = "unknown" <=> rows[t].status = "absent"
         /\ Phase(rows)[t] = "offered" <=> rows[t].status \in Offered
         /\ Phase(rows)[t] = "retired" <=> rows[t].status \in Retired
         /\ Phase(rows)[t] \in {"unknown", "offered", "retired"}
<1>1. rows[t].status \in ItemStatus
  OBVIOUS
<1>2. /\ PhaseOf("absent") = "unknown"
      /\ \A s \in Offered : PhaseOf(s) = "offered"
      /\ \A s \in Retired : PhaseOf(s) = "retired"
  BY DEF PhaseOf, Offered
<1> QED
  BY <1>1, <1>2 DEF Phase, Offered

(* An update of the rows that only offers new topics and retires offered   *)
(* ones is a Move of the abstraction.                                      *)
Retires(rows, next, new, gone) ==
  /\ \A t \in new  : rows[t].status = "absent"
  /\ \A t \in gone : (rows[t].status \in Offered \/ t \in new) /\ next[t].status \in Retired
  /\ \A t \in new \ gone : next[t].status \in Offered
  /\ \A t \in Topics \ (new \cup gone) : Phase(next)[t] = Phase(rows)[t]

Moves(rows, next, new, gone) ==
  /\ \A t \in new  : Phase(rows)[t] = "unknown"
  /\ \A t \in gone : Phase(rows)[t] = "offered" \/ t \in new
  /\ Phase(next) = [t \in Topics |-> IF t \in gone THEN "retired"
                                     ELSE IF t \in new THEN "offered" ELSE Phase(rows)[t]]

LEMMA MoveStep ==
  ASSUME NEW rows \in [Topics -> Item], NEW next \in [Topics -> Item],
         NEW new \in SUBSET Topics, NEW gone \in SUBSET Topics,
         Retires(rows, next, new, gone)
  PROVE  Moves(rows, next, new, gone)
<1> USE DEF Retires
<1>1. \A t \in Topics : Phase(next)[t] = IF t \in gone THEN "retired"
                                         ELSE IF t \in new THEN "offered" ELSE Phase(rows)[t]
  <2> TAKE t \in Topics
  <2>1. CASE t \in gone
    BY <2>1, PhaseKinds
  <2>2. CASE t \in new \ gone
    BY <2>2, PhaseKinds
  <2>3. CASE t \notin new \cup gone
    BY <2>3
  <2> QED
    BY <2>1, <2>2, <2>3
<1>2. Phase(next) = [t \in Topics |-> Phase(next)[t]]
  BY DEF Phase
<1> QED
  BY <1>1, <1>2, PhaseKinds DEF Moves

(* An update of the rows alone is a Curate step.                           *)
LEMMA CurateStep ==
  ASSUME TypeOK, TypeOK', delivery' = delivery,
         \A t \in Topics :
           \/ item[t].status = "absent"
           \/ item[t].status \in Offered /\ item'[t].status # "absent"
           \/ item[t].status \in Retired /\ item'[t].status \in Retired
  PROVE  Claims!Curate
<1> DEFINE new  == {t \in Topics : item[t].status = "absent" /\ item'[t].status # "absent"}
           gone == {t \in Topics : item[t].status \notin Retired /\ item'[t].status \in Retired}
<1>1. item \in [Topics -> Item] /\ item' \in [Topics -> Item]
  BY DEF TypeOK
<1>2. \A t \in Topics \ (new \cup gone) : Phase(item')[t] = Phase(item)[t]
  <2> TAKE t \in Topics \ (new \cup gone)
  <2>1. \/ item[t].status = "absent" /\ item'[t].status = "absent"
        \/ item[t].status \in Offered /\ item'[t].status \in Offered
        \/ item[t].status \in Retired /\ item'[t].status \in Retired
    BY <1>1 DEF Offered
  <2> QED
    BY <1>1, <2>1, PhaseKinds
<1>3. new \in SUBSET Topics /\ gone \in SUBSET Topics
  OBVIOUS
<1>4. Retires(item, item', new, gone)
  BY <1>1, <1>2 DEF Retires, Offered
<1> HIDE DEF new, gone
<1>5. Moves(item, item', new, gone)
  BY <1>1, <1>3, <1>4, MoveStep
<1>6. Claims!Move(new, gone)
  BY <1>5 DEF Claims!Move, Moves, Phase
<1>7. State(delivery') = State(delivery) /\ Subject(delivery') = Subject(delivery)
  OBVIOUS
<1> QED
  BY <1>3, <1>6, <1>7 DEF Claims!Curate, State, Subject

(* The claim transaction is a Grant: it withdraws what expired, takes back *)
(* the stale claims and grants a topic nobody holds any more.              *)
LEMMA GrantStep ==
  ASSUME IInv, TypeOK', NEW c \in Claimants, NEW d \in Deliveries, NEW t \in Topics,
         Reserve(c, d, t)
  PROVE  Claims!Grant(d, t)
<1> DEFINE at    == claim[c].at
           back  == Stale(at)
           swept == Expire(item, at)
           rows  == Release(swept, back)
           gone  == {u \in Topics : item[u].status \in Offered /\ swept[u].status = "expired"}
<1>1. /\ item \in [Topics -> Item] /\ item' \in [Topics -> Item]
      /\ swept \in [Topics -> Item] /\ rows \in [Topics -> Item]
      /\ delivery \in [Deliveries -> Delivery] /\ delivery' \in [Deliveries -> Delivery]
  BY ExpireType, ReleaseType DEF IInv, TypeOK
<1>2. \A u \in Topics : \/ swept[u] = item[u]
                        \/ u \in gone
  BY DEF Expire, Offered
<1>3. back \in SUBSET Deliveries /\ \A e \in back : delivery[e].status = "reserved"
  BY DEF Stale
<1> HIDE DEF back, swept
<1>4. \A u \in Topics :
        \/ rows[u] = swept[u]
           /\ ~\E e \in back : swept[u] = [status |-> "reserved", holder |-> e]
                               /\ delivery[e].topic = u
        \/ /\ swept[u].status = "reserved"
           /\ \E e \in back : delivery[e].topic = u /\ swept[u].holder = e
           /\ rows[u] = [status |-> "open", holder |-> NULL]
  BY <1>1 DEF Release
<1>5. /\ item' = [rows EXCEPT ![t] = [status |-> "reserved", holder |-> d]]
      /\ rows[t].status = "open"
      /\ delivery[d].status = "unused"
      /\ delivery' = [e \in Deliveries |->
           IF e = d THEN [status |-> "reserved", topic |-> t,
                          platform |-> claim[c].platform, created_at |-> at, sent_at |-> NULL]
           ELSE IF e \in back THEN [delivery[e] EXCEPT !.status = "failed"]
           ELSE delivery[e]]
  BY DEF Reserve, Best, back, swept
<1>6. gone \in SUBSET Topics
      /\ \A u \in gone : item[u].status \in Offered /\ swept[u].status = "expired"
  OBVIOUS
<1> HIDE DEF rows, gone
<1>7. item[t].status \in Offered /\ t \notin gone /\ swept[t] = item[t]
  BY <1>2, <1>4, <1>5, <1>6 DEF Offered
<1>8. \A u \in Topics :
        \/ u \in gone /\ item'[u].status = "expired"
        \/ /\ u \notin gone
           /\ \/ item'[u].status = item[u].status
              \/ item'[u].status \in Offered /\ item[u].status \in Offered
  <2> TAKE u \in Topics
  <2>1. CASE u = t
    BY <1>1, <1>5, <1>7, <2>1 DEF Offered
  <2>2. CASE u # t
    <3>1. item'[u] = rows[u]
      BY <1>1, <1>5, <2>2
    <3> QED
      BY <1>2, <1>4, <1>6, <3>1 DEF Offered
  <2> QED
    BY <2>1, <2>2
<1>9. Claims!Move({}, gone)
  <2>1. \A u \in Topics \ gone : Phase(item')[u] = Phase(item)[u]
    <3> TAKE u \in Topics \ gone
    <3>1. \/ item'[u].status = item[u].status
          \/ item'[u].status \in Offered /\ item[u].status \in Offered
      BY <1>8
    <3> QED
      BY <1>1, <3>1, PhaseKinds DEF Phase
  <2>2. Retires(item, item', {}, gone)
    BY <1>6, <1>8, <2>1 DEF Retires
  <2>3. Moves(item, item', {}, gone)
    BY <1>1, <1>6, <2>2, MoveStep
  <2> QED
    BY <2>3 DEF Claims!Move, Moves, Phase
<1>10. Phase(item)[t] = "offered"
  BY <1>1, <1>7, PhaseKinds
<1>11. \A e \in Deliveries :
         State(delivery)[e] = "held" /\ t \in Subject(delivery)[e] => e \in back
  <2> SUFFICES ASSUME NEW e \in Deliveries, State(delivery)[e] = "held",
                      t \in Subject(delivery)[e]
               PROVE  e \in back
    OBVIOUS
  <2>1. delivery[e].status = "reserved" /\ delivery[e].topic = t
    BY <1>1 DEF State, Subject, Delivery
  <2>2. item[t] = [status |-> "reserved", holder |-> e]
    BY <1>7, <2>1 DEF IInv, Fits, HoldsRow, Offered
  <2> QED
    BY <1>4, <1>5, <1>7, <2>2
<1>12. State(delivery') = [e \in Deliveries |-> IF e = d THEN "held"
                             ELSE IF e \in back THEN "failed" ELSE State(delivery)[e]]
  <2>1. \A e \in Deliveries :
          State(delivery')[e] = IF e = d THEN "held"
                                ELSE IF e \in back THEN "failed" ELSE State(delivery)[e]
    <3> TAKE e \in Deliveries
    <3>1. delivery[e] \in Delivery
      BY <1>1
    <3>2. delivery'[e].status = IF e = d THEN "reserved"
                                ELSE IF e \in back THEN "failed" ELSE delivery[e].status
      BY <1>5, <3>1 DEF Delivery
    <3> QED
      BY <3>2 DEF State
  <2> QED
    BY <2>1 DEF State
<1>13. Subject(delivery') = [Subject(delivery) EXCEPT ![d] = {t}]
  <2>1. \A e \in Deliveries :
          Subject(delivery')[e] = IF e = d THEN {t} ELSE Subject(delivery)[e]
    <3> TAKE e \in Deliveries
    <3>1. delivery[e] \in Delivery
      BY <1>1
    <3>2. delivery'[e].topic = IF e = d THEN t ELSE delivery[e].topic
      BY <1>5, <3>1 DEF Delivery
    <3>3. {t} \ {NULL} = {t}
      BY PoolAssumption
    <3> QED
      BY <3>2, <3>3 DEF Subject
  <2> QED
    BY <2>1 DEF Subject
<1>14. State(delivery)[d] = "unused" /\ \A b \in back : State(delivery)[b] = "held"
  BY <1>3, <1>5 DEF State
<1> QED
  <2>1. Claims!HeldOn(t) = {e \in Deliveries : State(delivery)[e] = "held"
                                               /\ t \in Subject(delivery)[e]}
    BY DEF Claims!HeldOn, State, Subject
  <2>2. Claims!HeldOn(t) \subseteq back
    BY <1>11, <2>1
  <2> QED
    BY <1>3, <1>6, <1>7, <1>9, <1>10, <1>12, <1>13, <1>14, <2>2
    DEF Claims!Grant, Phase, State, Subject

(* A report ends the claim, sent or failed; a topic that expired under the *)
(* claim is retired already when the report comes.                         *)
LEMMA AnswerStep ==
  ASSUME IInv, TypeOK', NEW d \in Deliveries, NEW success \in BOOLEAN,
         FinishDelivery(d, success)
  PROVE  IF success THEN Claims!Deliver(d) ELSE Claims!Fail(d)
<1> DEFINE t == delivery[d].topic
<1>1. /\ item \in [Topics -> Item] /\ item' \in [Topics -> Item]
      /\ delivery \in [Deliveries -> Delivery] /\ delivery' \in [Deliveries -> Delivery]
  BY DEF IInv, TypeOK
<1>2. /\ delivery[d].status = "reserved" /\ t \in Topics
      /\ \/ item[t] = [status |-> "reserved", holder |-> d]
         \/ item[t].status = "expired" /\ item[t].holder = NULL
  BY DEF FinishDelivery, IInv, Fits, NamesTopic, HoldsRow, VacantRows
<1>3. /\ \A u \in Topics \ {t} : item'[u] = item[u]
      /\ \/ item[t].status = "expired" /\ item'[t] = item[t]
         \/ /\ item[t].status = "reserved"
            /\ item'[t].status = IF success THEN "consumed" ELSE "open"
  BY <1>1, <1>2, PoolAssumption DEF FinishDelivery
<1>4. \A e \in Deliveries :
        /\ delivery'[e].topic = delivery[e].topic
        /\ delivery'[e].status = IF e # d THEN delivery[e].status
                                 ELSE IF success THEN "sent" ELSE "failed"
  <2>1. delivery[d] \in Delivery
    BY <1>1
  <2> QED
    BY <1>1, <2>1 DEF FinishDelivery, Delivery
<1>5. State(delivery)[d] = "held"
  BY <1>2 DEF State
<1>6. State(delivery') = [State(delivery) EXCEPT ![d] = IF success THEN "sent" ELSE "failed"]
  BY <1>4 DEF State
<1>7. Subject(delivery') = Subject(delivery)
  BY <1>4 DEF Subject
<1>8. Subject(delivery)[d] = {t}
  BY <1>2, PoolAssumption DEF Subject
<1>9. CASE success
  <2>1. \A u \in Topics : Phase(item')[u] = IF u = t THEN "retired" ELSE Phase(item)[u]
    <3>1. Phase(item')[t] = "retired"
      BY <1>1, <1>2, <1>3, <1>9, PhaseKinds
    <3>2. \A u \in Topics \ {t} : Phase(item')[u] = Phase(item)[u]
      BY <1>3 DEF Phase
    <3> QED
      BY <3>1, <3>2
  <2>2. Phase(item') = [u \in Topics |-> IF u \in Subject(delivery)[d]
                                         THEN "retired" ELSE Phase(item)[u]]
    BY <1>8, <2>1 DEF Phase
  <2> QED
    BY <1>5, <1>6, <1>7, <1>9, <2>2 DEF Claims!Deliver, Phase, State, Subject
<1>10. CASE ~success
  <2>1. \A u \in Topics : Phase(item')[u] = Phase(item)[u]
    <3>1. Phase(item')[t] = Phase(item)[t]
      <4>1. CASE item[t].status = "expired"
        BY <1>2, <1>3, <4>1 DEF Phase
      <4>2. CASE item[t].status = "reserved"
        <5>1. item[t].status \in Offered /\ item'[t].status \in Offered
          BY <1>3, <1>10, <4>2 DEF Offered
        <5> QED
          BY <1>1, <1>2, <5>1, PhaseKinds
      <4> QED
        BY <1>2, <4>1, <4>2
    <3>2. \A u \in Topics \ {t} : Phase(item')[u] = Phase(item)[u]
      BY <1>3 DEF Phase
    <3> QED
      BY <3>1, <3>2
  <2>2. Phase(item') = Phase(item)
    BY <2>1 DEF Phase
  <2> QED
    BY <1>5, <1>6, <1>7, <1>10, <2>2 DEF Claims!Fail, Phase, State, Subject
<1> QED
  BY <1>9, <1>10

----------------------------------------------------------------------------
(* The initial states map to an initial state, and every step of the store *)
(* maps to a step of the claims or a stutter.                              *)
LEMMA InitClaims == Init => Claims!Init
<1> SUFFICES ASSUME Init PROVE Claims!Init
  OBVIOUS
<1>1. Phase(item) = [t \in Topics |-> "unknown"]
  <2>1. PhaseOf("absent") = "unknown"
    BY DEF PhaseOf
  <2> QED
    BY <2>1 DEF Init, Phase
<1>2. State(delivery) = [d \in Deliveries |-> "unused"]
  BY DEF Init, State
<1>3. Subject(delivery) = [d \in Deliveries |-> {}]
  BY DEF Init, Subject
<1> QED
  BY <1>1, <1>2, <1>3 DEF Claims!Init, Phase, State, Subject

LEMMA SameClaims ==
  ASSUME item' = item, delivery' = delivery
  PROVE  UNCHANGED Claims!claimVars
BY DEF Claims!claimVars

LEMMA StepClaims == IInv /\ TypeOK' /\ [PoolNext]_poolVars => [Claims!Next]_(Claims!claimVars)
<1> SUFFICES ASSUME IInv, TypeOK', [PoolNext]_poolVars
             PROVE  Claims!Next \/ UNCHANGED Claims!claimVars
  OBVIOUS
<1>1. item' = item /\ delivery' = delivery => UNCHANGED Claims!claimVars
  BY SameClaims
<1>2. \A t \in Topics : item[t].status \in ItemStatus
  BY DEF IInv, TypeOK
<1>3. ASSUME NEW new \in SUBSET Topics, AddCandidates(new)
      PROVE  Claims!Curate
  <2> DEFINE rows == [t \in Topics |-> IF t \in new THEN Vacant("open") ELSE item[t]]
  <2>1. \A t \in Topics : \/ rows[t] = item[t] /\ t \notin new
                          \/ /\ item[t].status = "absent" /\ t \in new
                             /\ rows[t] = [status |-> "open", holder |-> NULL]
    BY <1>3 DEF AddCandidates
  <2>2. item' = Expire(rows, now) /\ delivery' = delivery
    BY <1>3 DEF AddCandidates
  <2> HIDE DEF rows
  <2>3. \A t \in Topics : \/ item'[t] = rows[t]
                          \/ rows[t].status \in Offered /\ item'[t].status = "expired"
    BY <2>2 DEF Expire, Offered
  <2> QED
    BY <1>2, <2>1, <2>2, <2>3, CurateStep DEF IInv, Offered
<1>4. ASSUME ListOpenTopics
      PROVE  Claims!Curate
  <2>1. \A t \in Topics : \/ item'[t] = item[t]
                          \/ item[t].status \in Offered /\ item'[t].status = "expired"
    BY <1>4 DEF ListOpenTopics, Expire, Offered
  <2> QED
    BY <1>2, <1>4, <2>1, CurateStep DEF ListOpenTopics, IInv, Offered
<1>5. ASSUME NEW t \in Topics, DismissTopic(t)
      PROVE  Claims!Curate
  <2>1. \A u \in Topics : \/ item'[u] = item[u]
                          \/ item[u].status = "open" /\ item'[u].status = "dismissed"
    BY <1>5 DEF DismissTopic, IInv, TypeOK
  <2> QED
    BY <1>2, <1>5, <2>1, CurateStep DEF DismissTopic, IInv, Offered
<1>6. ASSUME NEW t \in Topics, ConsumeTopic(t)
      PROVE  Claims!Curate
  <2> DEFINE rows == Expire(item, now)
  <2>1. rows \in [Topics -> Item]
    BY ExpireType DEF IInv, TypeOK
  <2>2. \A u \in Topics : \/ rows[u] = item[u]
                          \/ item[u].status \in Offered /\ rows[u].status = "expired"
    BY DEF Expire, Offered
  <2>3. /\ delivery' = delivery
        /\ \/ item' = rows
           \/ rows[t].status = "open" /\ item' = [rows EXCEPT ![t].status = "consumed"]
    BY <1>6 DEF ConsumeTopic
  <2> HIDE DEF rows
  <2>4. \A u \in Topics : \/ item'[u] = rows[u]
                          \/ rows[u].status = "open" /\ item'[u].status = "consumed"
    BY <2>1, <2>3
  <2> QED
    BY <1>2, <2>2, <2>3, <2>4, CurateStep DEF IInv, Offered
<1>7. ASSUME NEW c \in Claimants, NEW d \in Deliveries, NEW t \in Topics, Reserve(c, d, t)
      PROVE  Claims!Grant(d, t)
  BY <1>7, GrantStep
<1>8. ASSUME NEW d \in Deliveries, NEW success \in BOOLEAN, FinishDelivery(d, success)
      PROVE  Claims!Deliver(d) \/ Claims!Fail(d)
  BY <1>8, AnswerStep
<1>9. CASE UNCHANGED poolVars
  BY <1>1, <1>9 DEF poolVars
<1>10. CASE PoolNext
  <2>1. CASE \/ Tick
             \/ \E p \in PrefSettings : UpdatePreferences(p)
             \/ \E p \in Platforms, at \in {now} \cup (Nat \cap {now - 1}) :
                  RecordChannelActivity(p, at)
             \/ \E c \in Claimants : ReadPreferences(c) \/ ReadChannel(c) \/ RollBack(c)
    BY <1>1, <2>1 DEF Tick, UpdatePreferences, RecordChannelActivity, ReadPreferences,
                      ReadChannel, RollBack
  <2>2. CASE \/ \E new \in SUBSET Topics : AddCandidates(new)
             \/ ListOpenTopics
             \/ \E t \in Topics : DismissTopic(t) \/ ConsumeTopic(t)
    BY <1>3, <1>4, <1>5, <1>6, <2>2 DEF Claims!Next
  <2>3. CASE \E c \in Claimants, d \in Deliveries, t \in Topics : Reserve(c, d, t)
    BY <1>7, <2>3 DEF Claims!Next
  <2>4. CASE \E d \in Deliveries, success \in BOOLEAN : FinishDelivery(d, success)
    BY <1>8, <2>4 DEF Claims!Next
  <2> QED
    BY <1>10, <2>1, <2>2, <2>3, <2>4 DEF PoolNext
<1> QED
  BY <1>9, <1>10

(* The tables implement the abstract claims: whatever the transactions of  *)
(* the Scout, the tools, the claimants and the clock, a reader of the pool *)
(* sees topics offered once, granted to one claim at a time, delivered at  *)
(* most once and retired for good.                                         *)
THEOREM ClaimsImplemented == Spec => ImplementsClaims
BY InitClaims, StepClaims, Integrity, TypeCorrect, PTL DEF Spec, ImplementsClaims, Claims!Spec
============================================================================
