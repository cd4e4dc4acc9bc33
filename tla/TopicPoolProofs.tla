-------------------------- MODULE TopicPoolProofs --------------------------
(* Theorems about the Topic Pool store, for every set of topics, deliveries,*)
(* platforms and claimants, every clock bound and every preference set.     *)
EXTENDS TopicPool, TLAPS

USE DEF Item, ItemStatus, Retired, Vacant

----------------------------------------------------------------------------
(* The row maps shared by the transactions keep items items.               *)

LEMMA ExpireType ==
  ASSUME NEW rows \in [Topics -> Item], NEW at
  PROVE  Expire(rows, at) \in [Topics -> Item]
  BY DEF Expire

LEMMA ReleaseType ==
  ASSUME NEW rows \in [Topics -> Item], NEW ds
  PROVE  Release(rows, ds) \in [Topics -> Item]
  BY DEF Release

----------------------------------------------------------------------------
LEMMA InitType == Init => TypeOK
BY PoolAssumption DEF Init, TypeOK, Delivery, ClaimState, Idle

LEMMA StepType == TypeOK /\ [PoolNext]_poolVars => TypeOK'
<1> SUFFICES ASSUME TypeOK, [PoolNext]_poolVars
             PROVE  TypeOK'
  OBVIOUS
<1>1. CASE Tick
  BY <1>1 DEF Tick, TypeOK
<1>2. ASSUME NEW new \in SUBSET Topics, AddCandidates(new)
      PROVE  TypeOK'
  <2> DEFINE rows == [t \in Topics |-> IF t \in new THEN Vacant("open") ELSE item[t]]
  <2>1. rows \in [Topics -> Item]
    BY DEF TypeOK
  <2>2. item' = Expire(rows, now)
    BY <1>2 DEF AddCandidates
  <2> QED
    BY <1>2, <2>1, <2>2, ExpireType DEF AddCandidates, TypeOK
<1>3. CASE ListOpenTopics
  BY <1>3, ExpireType DEF ListOpenTopics, TypeOK
<1>4. ASSUME NEW t \in Topics, DismissTopic(t)
      PROVE  TypeOK'
  BY <1>4 DEF DismissTopic, TypeOK
<1>5. ASSUME NEW t \in Topics, ConsumeTopic(t)
      PROVE  TypeOK'
  <2>1. Expire(item, now) \in [Topics -> Item]
    BY ExpireType DEF TypeOK
  <2>2. item' \in [Topics -> Item]
    BY <1>5, <2>1 DEF ConsumeTopic
  <2> QED
    BY <1>5, <2>2 DEF ConsumeTopic, TypeOK
<1>6. ASSUME NEW p \in PrefSettings, UpdatePreferences(p)
      PROVE  TypeOK'
  BY <1>6 DEF UpdatePreferences, TypeOK
<1>7. ASSUME NEW p \in Platforms, NEW at \in {now} \cup (Nat \cap {now - 1}),
             RecordChannelActivity(p, at)
      PROVE  TypeOK'
  BY <1>7 DEF RecordChannelActivity, TypeOK
<1>8. ASSUME NEW c \in Claimants, ReadPreferences(c)
      PROVE  TypeOK'
  BY <1>8 DEF ReadPreferences, TypeOK, ClaimState
<1>9. ASSUME NEW c \in Claimants, ReadChannel(c)
      PROVE  TypeOK'
  <2>1. claim[c] \in [pc: {"prefs"}, at: Nat, prefs: PrefSettings]
    BY <1>9 DEF ReadChannel, TypeOK, ClaimState, Idle
  <2>2. claim' \in [Claimants -> ClaimState]
    BY <1>9, <2>1 DEF ReadChannel, TypeOK, ClaimState
  <2> QED
    BY <1>9, <2>2 DEF ReadChannel, TypeOK
<1>10. ASSUME NEW c \in Claimants, RollBack(c)
       PROVE  TypeOK'
  BY <1>10 DEF RollBack, TypeOK, ClaimState
<1>11. ASSUME NEW c \in Claimants, NEW d \in Deliveries, NEW t \in Topics,
              Reserve(c, d, t)
       PROVE  TypeOK'
  <2> DEFINE rows == Release(Expire(item, claim[c].at), Stale(claim[c].at))
  <2>1. rows \in [Topics -> Item]
    BY ExpireType, ReleaseType DEF TypeOK
  <2>2. item' \in [Topics -> Item]
    BY <1>11, <2>1 DEF Reserve
  <2>3. claim[c].at \in Nat /\ claim[c].platform \in Platforms
    BY <1>11 DEF Reserve, TypeOK, ClaimState, Idle
  <2>4. delivery' \in [Deliveries -> Delivery]
    <3>1. ASSUME NEW e \in Deliveries
          PROVE  delivery'[e] \in Delivery
      <4>1. CASE e = d
        BY <1>11, <2>3, <4>1 DEF Reserve, Delivery
      <4>2. CASE e # d /\ e \in Stale(claim[c].at)
        <5>1. delivery'[e] = [delivery[e] EXCEPT !.status = "failed"]
          BY <1>11, <4>2 DEF Reserve
        <5> QED
          BY <5>1 DEF TypeOK, Delivery
      <4>3. CASE e # d /\ e \notin Stale(claim[c].at)
        BY <1>11, <4>3 DEF Reserve, TypeOK
      <4> QED
        BY <4>1, <4>2, <4>3
    <3> QED
      BY <1>11, <3>1 DEF Reserve
  <2>5. claim' \in [Claimants -> ClaimState]
    BY <1>11 DEF Reserve, TypeOK, ClaimState
  <2> QED
    BY <1>11, <2>2, <2>4, <2>5 DEF Reserve, TypeOK
<1>12. ASSUME NEW d \in Deliveries, NEW success \in BOOLEAN, FinishDelivery(d, success)
       PROVE  TypeOK'
  <2>1. delivery' \in [Deliveries -> Delivery]
    <3> DEFINE row == [delivery[d] EXCEPT
                         !.status  = IF success THEN "sent" ELSE "failed",
                         !.sent_at = IF success THEN now ELSE NULL]
    <3>1. row \in Delivery
      BY DEF TypeOK, Delivery
    <3>2. delivery' = [delivery EXCEPT ![d] = row]
      BY <1>12 DEF FinishDelivery
    <3> QED
      BY <3>1, <3>2 DEF TypeOK
  <2>2. item' \in [Topics -> Item]
    BY <1>12 DEF FinishDelivery, TypeOK
  <2> QED
    BY <1>12, <2>1, <2>2 DEF FinishDelivery, TypeOK
<1>13. CASE UNCHANGED poolVars
  BY <1>13 DEF poolVars, TypeOK
<1> QED
  BY <1>1, <1>2, <1>3, <1>4, <1>5, <1>6, <1>7, <1>8, <1>9, <1>10, <1>11, <1>12, <1>13
  DEF PoolNext

(* Every variable keeps its type, whatever order the transactions of the   *)
(* claimants, the user and the clock run in.                               *)
THEOREM TypeCorrect == Spec => []TypeOK
BY InitType, StepType, PTL DEF Spec

----------------------------------------------------------------------------
(* The inductive invariant, stated of any pair of tables so that the       *)
(* transactions can be composed from their row maps.  HolderAgrees alone   *)
(* is not inductive: a failure report reopens the item its delivery holds, *)
(* so one must know that no second delivery is live on that topic, that a  *)
(* sent topic is closed, and that only claimed or consumed rows name a     *)
(* holder.                                                                 *)
Flying(table, d) == table[d].status \in {"reserved", "sent"}

NamesTopic(rows, table) ==
  \A d \in Deliveries : table[d].status # "unused" =>
    table[d].topic \in Topics /\ rows[table[d].topic].status # "absent"

OneFlying(table) ==
  \A d, e \in Deliveries :
    Flying(table, d) /\ Flying(table, e) /\ table[d].topic = table[e].topic => d = e

HeldByRow(rows, table) ==
  \A t \in Topics : rows[t].status = "reserved" =>
    \E d \in Deliveries : /\ rows[t].holder = d
                         /\ table[d].status = "reserved" /\ table[d].topic = t

HoldsRow(rows, table) ==
  \A d \in Deliveries : table[d].status = "reserved" =>
    \/ rows[table[d].topic] = [status |-> "reserved", holder |-> d]
    \/ rows[table[d].topic].status = "expired"

SentCloses(rows, table) ==
  \A d \in Deliveries : table[d].status = "sent" =>
    rows[table[d].topic].status \in {"consumed", "expired"}

VacantRows(rows) ==
  \A t \in Topics : rows[t].status \in {"absent", "open", "expired", "dismissed"}
                     => rows[t].holder = NULL

NoClash(rows) ==
  \A t, u \in Topics :
    rows[t].status # "absent" /\ rows[u].status # "absent" /\ Clash(t, u) => t = u

Fits(rows, table) ==
  /\ NamesTopic(rows, table)
  /\ OneFlying(table)
  /\ HeldByRow(rows, table)
  /\ HoldsRow(rows, table)
  /\ SentCloses(rows, table)
  /\ VacantRows(rows)
  /\ NoClash(rows)

IInv == TypeOK /\ Fits(item, delivery)

(* The sweep of expired rows keeps any two tables fitting.                 *)
LEMMA ExpireFits ==
  ASSUME NEW rows \in [Topics -> Item], NEW table \in [Deliveries -> Delivery],
         NEW at, Fits(rows, table)
  PROVE  Fits(Expire(rows, at), table)
<1> DEFINE new == Expire(rows, at)
<1>1. \A t \in Topics : \/ new[t] = rows[t]
                        \/ /\ rows[t].status \in {"open", "reserved"}
                           /\ new[t] = [status |-> "expired", holder |-> NULL]
  BY DEF Expire
<1> HIDE DEF new
<1>2. NamesTopic(new, table)
  BY <1>1 DEF Fits, NamesTopic
<1>3. OneFlying(table)
  BY DEF Fits
<1>4. HeldByRow(new, table)
  BY <1>1 DEF Fits, HeldByRow
<1>5. HoldsRow(new, table)
  BY <1>1 DEF Fits, HoldsRow, NamesTopic
<1>6. SentCloses(new, table)
  BY <1>1 DEF Fits, SentCloses, NamesTopic
<1>7. VacantRows(new)
  BY <1>1 DEF Fits, VacantRows
<1>8. NoClash(new)
  BY <1>1 DEF Fits, NoClash
<1> QED
  BY <1>2, <1>3, <1>4, <1>5, <1>6, <1>7, <1>8 DEF Fits, new

(* Marking claims in flight failed while their items are released does too.*)
LEMMA RecoverFits ==
  ASSUME NEW rows \in [Topics -> Item], NEW table \in [Deliveries -> Delivery],
         NEW ds \in SUBSET Deliveries,
         \A d \in ds : delivery[d].status = "reserved",
         TypeOK, Fits(rows, delivery),
         \A d \in Deliveries \ ds : table[d] = delivery[d],
         \A d \in ds : table[d] = [delivery[d] EXCEPT !.status = "failed"]
  PROVE  Fits(Release(rows, ds), table)
<1> DEFINE new == Release(rows, ds)
<1>1. \A t \in Topics :
        \/ new[t] = rows[t] /\ ~\E d \in ds : rows[t] = [status |-> "reserved", holder |-> d]
                                              /\ delivery[d].topic = t
        \/ /\ rows[t].status = "reserved"
           /\ \E d \in ds : delivery[d].topic = t /\ rows[t].holder = d
           /\ new[t] = [status |-> "open", holder |-> NULL]
  BY DEF Release
<1>2. \A d \in Deliveries :
        /\ table[d].topic = delivery[d].topic
        /\ table[d].status = IF d \in ds THEN "failed" ELSE delivery[d].status
  <2> TAKE d \in Deliveries
  <2>1. CASE d \in ds
    <3>1. delivery[d] \in Delivery
      BY DEF TypeOK
    <3> QED
      BY <2>1, <3>1 DEF Delivery
  <2>2. CASE d \notin ds
    BY <2>2
  <2> QED
    BY <2>1, <2>2
<1> HIDE DEF new
<1>3. NamesTopic(new, table)
  BY <1>1, <1>2 DEF Fits, NamesTopic
<1>4. OneFlying(table)
  BY <1>2 DEF Fits, OneFlying, Flying
<1>5. HeldByRow(new, table)
  BY <1>1, <1>2 DEF Fits, HeldByRow
<1>6. HoldsRow(new, table)
  <2> SUFFICES ASSUME NEW d \in Deliveries, table[d].status = "reserved"
               PROVE  \/ new[table[d].topic] = [status |-> "reserved", holder |-> d]
                      \/ new[table[d].topic].status = "expired"
    BY DEF HoldsRow
  <2> DEFINE t == delivery[d].topic
  <2>1. d \notin ds /\ delivery[d].status = "reserved" /\ table[d].topic = t
    BY <1>2
  <2>2. t \in Topics
    BY <2>1 DEF Fits, NamesTopic
  <2>3. \/ rows[t] = [status |-> "reserved", holder |-> d]
        \/ rows[t].status = "expired"
    BY <2>1 DEF Fits, HoldsRow
  <2>4. new[t] = rows[t]
    BY <1>1, <2>1, <2>2, <2>3
  <2> QED
    BY <2>1, <2>3, <2>4
<1>7. SentCloses(new, table)
  BY <1>1, <1>2 DEF Fits, SentCloses, NamesTopic
<1>8. VacantRows(new)
  BY <1>1 DEF Fits, VacantRows
<1>9. NoClash(new)
  BY <1>1 DEF Fits, NoClash
<1> QED
  BY <1>3, <1>4, <1>5, <1>6, <1>7, <1>8, <1>9 DEF Fits, new

(* Claiming an open topic for a delivery that was not used yet.            *)
LEMMA ClaimFits ==
  ASSUME NEW rows \in [Topics -> Item],
         NEW table \in [Deliveries -> Delivery], NEW table2 \in [Deliveries -> Delivery],
         NEW t \in Topics, NEW d \in Deliveries,
         Fits(rows, table), rows[t].status = "open", table[d].status = "unused",
         \A e \in Deliveries \ {d} : table2[e] = table[e],
         table2[d].status = "reserved", table2[d].topic = t
  PROVE  Fits([rows EXCEPT ![t] = [status |-> "reserved", holder |-> d]], table2)
<1> DEFINE new == [rows EXCEPT ![t] = [status |-> "reserved", holder |-> d]]
<1>1. /\ new[t] = [status |-> "reserved", holder |-> d]
      /\ \A u \in Topics \ {t} : new[u] = rows[u]
  OBVIOUS
<1>2. \A e \in Deliveries : Flying(table, e) => table[e].topic # t
  <2> SUFFICES ASSUME NEW e \in Deliveries, Flying(table, e), table[e].topic = t
               PROVE  FALSE
    OBVIOUS
  <2>1. CASE table[e].status = "reserved"
    <3>1. rows[t] = [status |-> "reserved", holder |-> e] \/ rows[t].status = "expired"
      BY <2>1 DEF Fits, HoldsRow
    <3> QED
      BY <3>1
  <2>2. CASE table[e].status = "sent"
    BY <2>2 DEF Fits, SentCloses
  <2> QED
    BY <2>1, <2>2 DEF Flying
<1> HIDE DEF new
<1>3. NamesTopic(new, table2)
  BY <1>1 DEF Fits, NamesTopic
<1>4. OneFlying(table2)
  BY <1>2 DEF Fits, OneFlying, Flying
<1>5. HeldByRow(new, table2)
  BY <1>1 DEF Fits, HeldByRow
<1>6. HoldsRow(new, table2)
  <2> SUFFICES ASSUME NEW e \in Deliveries, table2[e].status = "reserved"
               PROVE  \/ new[table2[e].topic] = [status |-> "reserved", holder |-> e]
                      \/ new[table2[e].topic].status = "expired"
    BY DEF HoldsRow
  <2>1. CASE e = d
    BY <2>1, <1>1
  <2>2. CASE e # d
    <3>1. table2[e] = table[e] /\ table[e].topic \in Topics \ {t}
      BY <2>2, <1>2 DEF Fits, NamesTopic, Flying
    <3> QED
      BY <3>1, <1>1 DEF Fits, HoldsRow
  <2> QED
    BY <2>1, <2>2
<1>7. SentCloses(new, table2)
  <2> SUFFICES ASSUME NEW e \in Deliveries, table2[e].status = "sent"
               PROVE  new[table2[e].topic].status \in {"consumed", "expired"}
    BY DEF SentCloses
  <2>1. e # d /\ table2[e] = table[e]
    OBVIOUS
  <2>2. table[e].topic \in Topics \ {t}
    BY <2>1, <1>2 DEF Fits, NamesTopic, Flying
  <2> QED
    BY <2>1, <2>2, <1>1 DEF Fits, SentCloses
<1>8. VacantRows(new)
  BY <1>1 DEF Fits, VacantRows
<1>9. NoClash(new)
  BY <1>1 DEF Fits, NoClash
<1> QED
  BY <1>3, <1>4, <1>5, <1>6, <1>7, <1>8, <1>9 DEF Fits, new

(* A report by the delivery's own caller, success or failure.              *)
LEMMA FinishFits ==
  ASSUME TypeOK, Fits(item, delivery), NEW d \in Deliveries, NEW success \in BOOLEAN,
         FinishDelivery(d, success), TypeOK'
  PROVE  Fits(item, delivery)'
<1> DEFINE t == delivery[d].topic
<1>1. /\ delivery[d].status = "reserved" /\ t \in Topics
      /\ \/ item[t] = [status |-> "reserved", holder |-> d]
         \/ item[t].status = "expired" /\ item[t].holder = NULL
  BY DEF FinishDelivery, Fits, NamesTopic, HoldsRow, VacantRows
<1>2. \A e \in Deliveries : /\ delivery'[e].topic = delivery[e].topic
                            /\ e # d => delivery'[e].status = delivery[e].status
  <2>1. delivery[d] \in Delivery
    BY DEF TypeOK
  <2> QED
    BY <2>1 DEF FinishDelivery, Delivery, TypeOK
<1>3. delivery'[d].status = IF success THEN "sent" ELSE "failed"
  <2>1. delivery[d] \in Delivery
    BY DEF TypeOK
  <2> QED
    BY <2>1 DEF FinishDelivery, Delivery, TypeOK
<1>4. /\ \A u \in Topics \ {t} : item'[u] = item[u]
      /\ \/ item[t].status = "expired" /\ item'[t] = item[t]
         \/ /\ item[t].status = "reserved"
            /\ item'[t] = IF success THEN [status |-> "consumed", holder |-> d]
                                     ELSE [status |-> "open", holder |-> NULL]
  BY <1>1, PoolAssumption DEF FinishDelivery, TypeOK
<1>5. \A e \in Deliveries \ {d} : Flying(delivery, e) => delivery[e].topic # t
  BY <1>1 DEF Fits, OneFlying, Flying
<1>6. NamesTopic(item, delivery)'
  BY <1>1, <1>2, <1>4 DEF Fits, NamesTopic
<1>7. OneFlying(delivery)'
  BY <1>1, <1>2, <1>5, <1>3 DEF Fits, OneFlying, Flying
<1>8. HeldByRow(item, delivery)'
  BY <1>1, <1>2, <1>4 DEF Fits, HeldByRow
<1>9. HoldsRow(item, delivery)'
  <2> SUFFICES ASSUME NEW e \in Deliveries, delivery'[e].status = "reserved"
               PROVE  \/ item'[delivery'[e].topic] = [status |-> "reserved", holder |-> e]
                      \/ item'[delivery'[e].topic].status = "expired"
    BY DEF HoldsRow
  <2>1. e # d /\ delivery[e].status = "reserved"
    BY <1>2, <1>3
  <2>2. delivery[e].topic \in Topics \ {t}
    BY <2>1, <1>5 DEF Fits, NamesTopic, Flying
  <2> QED
    BY <2>1, <2>2, <1>2, <1>4 DEF Fits, HoldsRow
<1>10. SentCloses(item, delivery)'
  <2> SUFFICES ASSUME NEW e \in Deliveries, delivery'[e].status = "sent"
               PROVE  item'[delivery'[e].topic].status \in {"consumed", "expired"}
    BY DEF SentCloses
  <2>1. CASE e = d
    BY <2>1, <1>2, <1>3, <1>4
  <2>2. CASE e # d
    <3>1. delivery[e].status = "sent" /\ delivery[e].topic \in Topics \ {t}
      BY <2>2, <1>2, <1>5 DEF Fits, NamesTopic, Flying
    <3> QED
      BY <3>1, <1>2, <1>4 DEF Fits, SentCloses
  <2> QED
    BY <2>1, <2>2
<1>11. VacantRows(item)'
  BY <1>4 DEF Fits, VacantRows
<1>12. NoClash(item)'
  BY <1>4, <1>1 DEF Fits, NoClash
<1> QED
  BY <1>6, <1>7, <1>8, <1>9, <1>10, <1>11, <1>12 DEF Fits

LEMMA InitFits == Init => IInv
<1> SUFFICES ASSUME Init
             PROVE  Fits(item, delivery)
  BY PoolAssumption DEF IInv, Init, TypeOK, Delivery, ClaimState, Idle
<1> QED
  BY DEF Init, Fits, NamesTopic, OneFlying, Flying, HeldByRow, HoldsRow,
         SentCloses, VacantRows, NoClash

LEMMA StepFits == IInv /\ TypeOK' /\ [PoolNext]_poolVars => IInv'
<1> SUFFICES ASSUME TypeOK, Fits(item, delivery), TypeOK', [PoolNext]_poolVars
             PROVE  Fits(item, delivery)'
  BY DEF IInv
<1>1. ASSUME item' = item, delivery' = delivery
      PROVE  Fits(item, delivery)'
  BY <1>1 DEF Fits, NamesTopic, OneFlying, Flying, HeldByRow, HoldsRow,
              SentCloses, VacantRows, NoClash
<1>2. ASSUME NEW rows \in [Topics -> Item], Fits(rows, delivery),
             item' = rows, delivery' = delivery
      PROVE  Fits(item, delivery)'
  BY <1>2 DEF Fits, NamesTopic, OneFlying, Flying, HeldByRow, HoldsRow,
              SentCloses, VacantRows, NoClash
<1>3. ASSUME NEW new \in SUBSET Topics, AddCandidates(new)
      PROVE  Fits(item, delivery)'
  <2> DEFINE rows == [t \in Topics |-> IF t \in new THEN Vacant("open") ELSE item[t]]
  <2>1. rows \in [Topics -> Item]
    BY DEF TypeOK
  <2>2. \A t \in Topics : \/ rows[t] = item[t] /\ t \notin new
                          \/ /\ item[t].status = "absent" /\ t \in new
                             /\ rows[t] = [status |-> "open", holder |-> NULL]
    BY <1>3 DEF AddCandidates
  <2>3. NoClash(rows)
    <3> SUFFICES ASSUME NEW t \in Topics, NEW u \in Topics, rows[t].status # "absent",
                        rows[u].status # "absent", Clash(t, u)
                 PROVE  t = u
      BY DEF NoClash
    <3>1. Clash(u, t)
      BY DEF Clash
    <3>2. CASE t \in new /\ u \in new
      BY <3>2, <1>3 DEF AddCandidates
    <3>3. CASE t \in new /\ u \notin new
      BY <3>3, <2>2, <1>3 DEF AddCandidates, Duplicate
    <3>4. CASE t \notin new /\ u \in new
      BY <3>1, <3>4, <2>2, <1>3 DEF AddCandidates, Duplicate
    <3>5. CASE t \notin new /\ u \notin new
      BY <3>5, <2>2 DEF Fits, NoClash
    <3> QED
      BY <3>2, <3>3, <3>4, <3>5
  <2> HIDE DEF rows
  <2>4. NamesTopic(rows, delivery)
    BY <2>2 DEF Fits, NamesTopic
  <2>5. HeldByRow(rows, delivery)
    BY <2>2 DEF Fits, HeldByRow
  <2>6. HoldsRow(rows, delivery)
    BY <2>2 DEF Fits, HoldsRow, NamesTopic
  <2>7. SentCloses(rows, delivery)
    BY <2>2 DEF Fits, SentCloses, NamesTopic
  <2>8. VacantRows(rows)
    BY <2>2 DEF Fits, VacantRows
  <2>9. Fits(rows, delivery)
    BY <2>3, <2>4, <2>5, <2>6, <2>7, <2>8 DEF Fits
  <2>10. Fits(Expire(rows, now), delivery)
    BY <2>1, <2>9, ExpireFits DEF TypeOK
  <2> QED
    BY <1>2, <1>3, <2>1, <2>10, ExpireType DEF AddCandidates, rows
<1>4. CASE ListOpenTopics
  BY <1>4, <1>2, ExpireFits, ExpireType DEF ListOpenTopics, TypeOK
<1>5. ASSUME NEW rows \in [Topics -> Item], Fits(rows, delivery), NEW t \in Topics,
             rows[t].status = "open", delivery' = delivery,
             \/ item' = [rows EXCEPT ![t] = Vacant("dismissed")]
             \/ item' = [rows EXCEPT ![t].status = "consumed"]
      PROVE  Fits(item, delivery)'
  <2>1. /\ \A u \in Topics \ {t} : item'[u] = rows[u]
        /\ item'[t].status \in {"dismissed", "consumed"}
        /\ item'[t].holder = NULL
    BY <1>5 DEF Fits, VacantRows
  <2>2. \A d \in Deliveries : Flying(delivery, d) => delivery[d].topic # t
    <3> SUFFICES ASSUME NEW d \in Deliveries, Flying(delivery, d), delivery[d].topic = t
                 PROVE  FALSE
      OBVIOUS
    <3>1. CASE delivery[d].status = "reserved"
      <4>1. rows[t] = [status |-> "reserved", holder |-> d] \/ rows[t].status = "expired"
        BY <1>5, <3>1 DEF Fits, HoldsRow
      <4> QED
        BY <1>5, <4>1
    <3>2. CASE delivery[d].status = "sent"
      BY <1>5, <3>2 DEF Fits, SentCloses
    <3> QED
      BY <3>1, <3>2 DEF Flying
  <2>3. NamesTopic(item, delivery)'
    BY <1>5, <2>1 DEF Fits, NamesTopic
  <2>4. OneFlying(delivery)'
    BY <1>5 DEF Fits, OneFlying, Flying
  <2>5. HeldByRow(item, delivery)'
    BY <1>5, <2>1 DEF Fits, HeldByRow
  <2>6. HoldsRow(item, delivery)'
    BY <1>5, <2>1, <2>2 DEF Fits, HoldsRow, NamesTopic, Flying
  <2>7. SentCloses(item, delivery)'
    BY <1>5, <2>1, <2>2 DEF Fits, SentCloses, NamesTopic, Flying
  <2>8. VacantRows(item)'
    BY <1>5, <2>1 DEF Fits, VacantRows
  <2>9. NoClash(item)'
    BY <1>5, <2>1 DEF Fits, NoClash
  <2> QED
    BY <2>3, <2>4, <2>5, <2>6, <2>7, <2>8, <2>9 DEF Fits
<1>6. ASSUME NEW t \in Topics, DismissTopic(t)
      PROVE  Fits(item, delivery)'
  BY <1>5, <1>6 DEF DismissTopic, TypeOK
<1>7. ASSUME NEW t \in Topics, ConsumeTopic(t)
      PROVE  Fits(item, delivery)'
  <2>1. Expire(item, now) \in [Topics -> Item] /\ Fits(Expire(item, now), delivery)
    BY ExpireType, ExpireFits DEF TypeOK
  <2> QED
    BY <1>2, <1>5, <1>7, <2>1 DEF ConsumeTopic
<1>8. ASSUME NEW c \in Claimants, NEW d \in Deliveries, NEW t \in Topics,
             Reserve(c, d, t)
      PROVE  Fits(item, delivery)'
  <2> DEFINE at    == claim[c].at
             stale == Stale(at)
             swept == Expire(item, at)
             rows  == Release(swept, stale)
             table == [e \in Deliveries |-> IF e \in stale
                         THEN [delivery[e] EXCEPT !.status = "failed"] ELSE delivery[e]]
  <2>1. swept \in [Topics -> Item] /\ Fits(swept, delivery)
    BY ExpireType, ExpireFits DEF TypeOK
  <2>2. stale \in SUBSET Deliveries /\ \A e \in stale : delivery[e].status = "reserved"
    BY DEF Stale
  <2>3. table \in [Deliveries -> Delivery]
    <3> SUFFICES ASSUME NEW e \in Deliveries
                 PROVE  table[e] \in Delivery
      OBVIOUS
    <3>1. delivery[e] \in Delivery
      BY DEF TypeOK
    <3> QED
      BY <3>1 DEF Delivery
  <2>4. rows \in [Topics -> Item] /\ Fits(rows, table)
    BY <2>1, <2>2, <2>3, RecoverFits, ReleaseType
  <2>5. rows[t].status = "open"
    BY <1>8 DEF Reserve, Best
  <2>6. d \notin stale /\ table[d].status = "unused"
    BY <1>8 DEF Reserve, Stale
  <2>7. /\ \A e \in Deliveries \ {d} : delivery'[e] = table[e]
        /\ delivery'[d].status = "reserved" /\ delivery'[d].topic = t
    BY <1>8 DEF Reserve
  <2>8. item' = [rows EXCEPT ![t] = [status |-> "reserved", holder |-> d]]
    BY <1>8 DEF Reserve
  <2>9. delivery' \in [Deliveries -> Delivery]
    BY DEF TypeOK
  <2> HIDE DEF rows, table, swept, stale
  <2>10. Fits([rows EXCEPT ![t] = [status |-> "reserved", holder |-> d]], delivery')
    BY <2>3, <2>4, <2>5, <2>6, <2>7, <2>9, ClaimFits
  <2> QED
    BY <2>8, <2>10 DEF Fits, NamesTopic, OneFlying, Flying, HeldByRow, HoldsRow,
                       SentCloses, VacantRows, NoClash
<1>9. ASSUME NEW d \in Deliveries, NEW success \in BOOLEAN, FinishDelivery(d, success)
      PROVE  Fits(item, delivery)'
  BY <1>9, FinishFits
<1> QED
  BY <1>1, <1>3, <1>4, <1>6, <1>7, <1>8, <1>9
  DEF PoolNext, poolVars, Tick, UpdatePreferences, RecordChannelActivity,
      ReadPreferences, ReadChannel, RollBack

(* The tables fit each other in every reachable state.                     *)
THEOREM Integrity == Spec => []IInv
BY InitFits, StepFits, TypeCorrect, PTL DEF Spec

----------------------------------------------------------------------------
(* What the invariant says of open topics, of holders and of what is sent. *)
LEMMA FitsOpen == IInv => OpenIsUnclaimed
<1> SUFFICES ASSUME IInv, NEW d \in Deliveries, Live(d)
             PROVE  item[delivery[d].topic].status # "open"
  BY DEF OpenIsUnclaimed
<1>1. CASE delivery[d].status = "reserved"
  <2>1. \/ item[delivery[d].topic] = [status |-> "reserved", holder |-> d]
        \/ item[delivery[d].topic].status = "expired"
    BY <1>1 DEF IInv, Fits, HoldsRow
  <2> QED
    BY <2>1
<1>2. CASE delivery[d].status = "sent"
  BY <1>2 DEF IInv, Fits, SentCloses
<1> QED
  BY <1>1, <1>2 DEF Live

LEMMA FitsHolders == IInv => HolderAgrees
BY DEF IInv, Fits, HeldByRow, HoldsRow, HolderAgrees

LEMMA FitsSources == IInv => SourceSentOnce
<1> SUFFICES ASSUME IInv, NEW d \in Sent, NEW e \in Sent,
                    Clash(delivery[d].topic, delivery[e].topic)
             PROVE  d = e
  BY DEF SourceSentOnce
<1>1. /\ d \in Deliveries /\ Flying(delivery, d)
      /\ e \in Deliveries /\ Flying(delivery, e)
  BY DEF Sent, Flying
<1>2. delivery[d].topic = delivery[e].topic
  BY <1>1 DEF IInv, Fits, NamesTopic, NoClash, Flying
<1> QED
  BY <1>1, <1>2 DEF IInv, Fits, OneFlying

(* An open topic has no claim in flight and was never sent, so the partial *)
(* unique index never refuses a claim of reserve_due_delivery.             *)
THEOREM OpenUnclaimed == Spec => []OpenIsUnclaimed
BY FitsOpen, Integrity, PTL

(* Items and delivery rows agree about who holds what.                     *)
THEOREM HoldersAgree == Spec => []HolderAgrees
BY FitsHolders, Integrity, PTL

(* No page and no source entry is marked sent twice, in any number of      *)
(* retries, stale claims and late answers.                                 *)
THEOREM SentOnce == Spec => []SourceSentOnce
BY FitsSources, Integrity, PTL

LEMMA StepFinal ==
  IInv /\ [PoolNext]_poolVars =>
    [\A t \in Topics : item[t].status \in Retired => item'[t].status = item[t].status]_poolVars
<1> SUFFICES ASSUME IInv, PoolNext, NEW t \in Topics, item[t].status \in Retired
             PROVE  item'[t].status = item[t].status
  OBVIOUS
<1>1. CASE item' = item
  BY <1>1
<1>2. ASSUME NEW new \in SUBSET Topics, AddCandidates(new)
      PROVE  item'[t].status = item[t].status
  BY <1>2 DEF AddCandidates, Expire
<1>3. CASE ListOpenTopics
  BY <1>3 DEF ListOpenTopics, Expire
<1>4. ASSUME NEW u \in Topics, DismissTopic(u) \/ ConsumeTopic(u)
      PROVE  item'[t].status = item[t].status
  BY <1>4 DEF DismissTopic, ConsumeTopic, Expire, IInv, TypeOK
<1>5. ASSUME NEW c \in Claimants, NEW d \in Deliveries, NEW u \in Topics,
             Reserve(c, d, u)
      PROVE  item'[t].status = item[t].status
  BY <1>5 DEF Reserve, Best, Release, Expire
<1>6. ASSUME NEW d \in Deliveries, NEW success \in BOOLEAN,
             FinishDelivery(d, success)
      PROVE  item'[t].status = item[t].status
  <2>1. CASE t = delivery[d].topic
    <3>1. \/ item[t] = [status |-> "reserved", holder |-> d]
          \/ item[t].status = "expired" /\ item[t].holder = NULL
      BY <1>6, <2>1 DEF FinishDelivery, IInv, Fits, HoldsRow, VacantRows
    <3> QED
      BY <3>1, <1>6, <2>1, PoolAssumption DEF FinishDelivery
  <2>2. CASE t # delivery[d].topic
    BY <1>6, <2>2 DEF FinishDelivery, IInv, TypeOK
  <2> QED
    BY <2>1, <2>2
<1> QED
  BY <1>1, <1>2, <1>3, <1>4, <1>5, <1>6
  DEF PoolNext, Tick, UpdatePreferences, RecordChannelActivity,
      ReadPreferences, ReadChannel, RollBack

(* What left the pool never comes back: the only updates that reopen an    *)
(* item are for the claim that still holds it.                             *)
THEOREM Finality == Spec => RetiredIsFinal
BY StepFinal, Integrity, PTL DEF Spec, RetiredIsFinal
----------------------------------------------------------------------------
(* Time: a claim carries the clock it read first, which is behind the      *)
(* store's, and a row is dated by the claim that wrote it.  Without this   *)
(* the 15 minutes of a stale claim could not be turned into real time.     *)
Dated ==
  /\ \A c \in Claimants : claim[c].pc # "idle" => claim[c].at \in Nat /\ claim[c].at <= now
  /\ \A d \in Deliveries : delivery[d].status = "reserved" =>
       delivery[d].created_at \in Nat /\ delivery[d].created_at <= now

LEMMA InitDated == Init => Dated
BY DEF Init, Dated, Idle

LEMMA StepDated == TypeOK /\ Dated /\ [PoolNext]_poolVars => Dated'
<1> SUFFICES ASSUME TypeOK, Dated, [PoolNext]_poolVars
             PROVE  Dated'
  OBVIOUS
<1>1. ASSUME delivery' = delivery, claim' = claim, now' = now \/ now' = now + 1
      PROVE  Dated'
  BY <1>1 DEF Dated, TypeOK
<1>2. ASSUME NEW c \in Claimants, ReadPreferences(c)
      PROVE  Dated'
  BY <1>2 DEF ReadPreferences, Dated, TypeOK
<1>3. ASSUME NEW c \in Claimants, ReadChannel(c)
      PROVE  Dated'
  BY <1>3 DEF ReadChannel, Dated, TypeOK, Idle
<1>4. ASSUME NEW c \in Claimants, RollBack(c)
      PROVE  Dated'
  BY <1>4 DEF RollBack, Dated, TypeOK, Idle
<1>5. ASSUME NEW c \in Claimants, NEW d \in Deliveries, NEW t \in Topics,
             Reserve(c, d, t)
      PROVE  Dated'
  <2>1. claim[c].at \in Nat /\ claim[c].at <= now /\ now' = now
    BY <1>5 DEF Reserve, Dated
  <2>2. ASSUME NEW e \in Deliveries, delivery'[e].status = "reserved"
        PROVE  delivery'[e].created_at \in Nat /\ delivery'[e].created_at <= now'
    <3>1. CASE e = d
      BY <1>5, <2>1, <3>1 DEF Reserve
    <3>2. CASE e # d /\ e \in Stale(claim[c].at)
      <4>1. delivery'[e] = [delivery[e] EXCEPT !.status = "failed"]
        BY <1>5, <3>2 DEF Reserve
      <4>2. delivery[e] \in Delivery
        BY DEF TypeOK
      <4> QED
        BY <4>1, <4>2, <2>2 DEF Delivery
    <3>3. CASE e # d /\ e \notin Stale(claim[c].at)
      BY <1>5, <2>1, <2>2, <3>3 DEF Reserve, Dated
    <3> QED
      BY <3>1, <3>2, <3>3
  <2> QED
    BY <1>5, <2>2 DEF Reserve, Dated, TypeOK, Idle
<1>6. ASSUME NEW d \in Deliveries, NEW success \in BOOLEAN, FinishDelivery(d, success)
      PROVE  Dated'
  <2>1. \A e \in Deliveries : delivery'[e].status = "reserved" => delivery'[e] = delivery[e]
    <3>1. delivery[d] \in Delivery
      BY DEF TypeOK
    <3> QED
      BY <1>6, <3>1 DEF FinishDelivery, TypeOK, Delivery
  <2> QED
    BY <1>6, <2>1 DEF FinishDelivery, Dated
<1> QED
  BY <1>1, <1>2, <1>3, <1>4, <1>5, <1>6
  DEF PoolNext, poolVars, Tick, AddCandidates, ListOpenTopics, DismissTopic,
      ConsumeTopic, UpdatePreferences, RecordChannelActivity

(* No clock is ahead of the store's: neither the time a claim started with *)
(* nor the time at which a row in flight was made.                         *)
THEOREM RowsDated == Spec => []Dated
BY InitDated, StepDated, TypeCorrect, PTL DEF Spec

Passed(t) ==
  /\ item[t].status = "reserved"
  /\ item'[t].status = "reserved" /\ item'[t].holder # item[t].holder

LEMMA StepNotStolen ==
  IInv /\ Dated /\ [PoolNext]_poolVars =>
    [\A t \in Topics : Passed(t) =>
        /\ delivery'[item[t].holder].status = "failed"
        /\ now - delivery[item[t].holder].created_at >= ClaimTimeout]_poolVars
<1> USE DEF Passed
<1> SUFFICES ASSUME IInv, Dated, PoolNext, NEW t \in Topics, Passed(t)
             PROVE  /\ delivery'[item[t].holder].status = "failed"
                    /\ now - delivery[item[t].holder].created_at >= ClaimTimeout
  OBVIOUS
<1>1. CASE item' = item
  BY <1>1
<1>2. ASSUME NEW new \in SUBSET Topics, AddCandidates(new)
      PROVE  FALSE
  BY <1>2 DEF AddCandidates, Expire
<1>3. CASE ListOpenTopics
  BY <1>3 DEF ListOpenTopics, Expire
<1>4. ASSUME NEW u \in Topics, DismissTopic(u) \/ ConsumeTopic(u)
      PROVE  FALSE
  <2>1. CASE DismissTopic(u)
    BY <2>1 DEF DismissTopic, IInv, TypeOK
  <2>2. CASE ConsumeTopic(u)
    <3> DEFINE rows == Expire(item, now)
    <3>1. rows \in [Topics -> Item]
      BY ExpireType DEF IInv, TypeOK
    <3>2. rows[t] = item[t] \/ rows[t].status = "expired"
      BY DEF Expire
    <3>3. item' = rows \/ (rows[u].status = "open" /\ item' = [rows EXCEPT ![u].status = "consumed"])
      BY <2>2 DEF ConsumeTopic
    <3> HIDE DEF rows
    <3> QED
      BY <3>1, <3>2, <3>3
  <2> QED
    BY <1>4, <2>1, <2>2
<1>5. ASSUME NEW c \in Claimants, NEW d \in Deliveries, NEW u \in Topics,
             Reserve(c, d, u)
      PROVE  /\ delivery'[item[t].holder].status = "failed"
             /\ now - delivery[item[t].holder].created_at >= ClaimTimeout
  <2> DEFINE at    == claim[c].at
             swept == Expire(item, at)
             rows  == Release(swept, Stale(at))
  <2>1. \/ swept[t] = item[t]
        \/ swept[t].status = "expired"
    BY DEF Expire
  <2>2. \/ rows[t] = swept[t]
        \/ /\ swept[t].status = "reserved" /\ rows[t].status = "open"
           /\ swept[t].holder \in Stale(at)
    BY DEF Release
  <2>3. item' = [rows EXCEPT ![u] = [status |-> "reserved", holder |-> d]]
        /\ rows[u].status = "open"
    BY <1>5 DEF Reserve, Best
  <2>4. rows \in [Topics -> Item]
    BY ExpireType, ReleaseType DEF IInv, TypeOK
  <2> HIDE DEF rows, swept
  <2>5. item[t].holder \in Stale(at)
    <3>1. CASE t = u
      BY <2>1, <2>2, <2>3, <3>1
    <3>2. CASE t # u
      <4>1. item'[t] = rows[t]
        BY <2>3, <2>4, <3>2
      <4> QED
        BY <2>1, <2>2, <4>1
    <3> QED
      BY <3>1, <3>2
  <2> DEFINE e == item[t].holder
  <2>6. /\ e \in Deliveries /\ delivery[e].status = "reserved"
        /\ delivery[e].created_at + ClaimTimeout <= at
    BY <2>5 DEF Stale
  <2>7. e # d /\ delivery[e] \in Delivery
    BY <1>5, <2>6 DEF Reserve, IInv, TypeOK
  <2>8. delivery'[e].status = "failed"
    <3>1. delivery'[e] = [delivery[e] EXCEPT !.status = "failed"]
      BY <1>5, <2>5, <2>6, <2>7 DEF Reserve
    <3> QED
      BY <2>7, <3>1 DEF Delivery
  <2>9. at \in Nat /\ at <= now /\ delivery[e].created_at \in Nat
    BY <1>5, <2>6 DEF Reserve, Dated
  <2>10. now - delivery[e].created_at >= ClaimTimeout
    BY <2>6, <2>9, PoolAssumption DEF IInv, TypeOK
  <2> QED
    BY <2>8, <2>10
<1>6. ASSUME NEW d \in Deliveries, NEW success \in BOOLEAN, FinishDelivery(d, success)
      PROVE  FALSE
  BY <1>6 DEF FinishDelivery, IInv, TypeOK
<1> QED
  BY <1>1, <1>2, <1>3, <1>4, <1>5, <1>6
  DEF PoolNext, Tick, UpdatePreferences, RecordChannelActivity,
      ReadPreferences, ReadChannel, RollBack

(* A claim takes a topic from another one only when that one has failed    *)
(* and had its 15 minutes: a late reader of the clock cannot cut them.     *)
THEOREM NotStolen == Spec => ClaimNotStolen
BY StepNotStolen, Integrity, RowsDated, PTL DEF Spec, ClaimNotStolen, Passed
============================================================================
