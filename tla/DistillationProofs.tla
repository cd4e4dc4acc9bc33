------------------------- MODULE DistillationProofs -------------------------
(* Theorems about memory distillation, for any number of reviews, messages *)
(* and facts, every limit and every length of the cool-down and the day.   *)
EXTENDS Distillation, FiniteSetTheorems, WellFoundedInduction, TLAPS

USE DEF Holding, Window, Busy

Stage(r) == review[r].stage

Working == {"asking", "applying", "pruned"}

(* What a review may rely on although it lets the loop go while the model  *)
(* answers: it has a window it shares with nobody; only one review holds   *)
(* the loop; a prepared window may still be tried; the row of a window the *)
(* model was asked about is marked running, so that no other review of the *)
(* lane opens it.                                                          *)
HasWindow  == \A r \in Reviewers : Busy(r) => Window(r) \in Windows
OneHolds   == \A r, q \in Reviewers : Stage(r) \in Holding /\ Stage(q) \in Holding => r = q
MayBeTried == \A r \in Reviewers : Stage(r) = "prepared" =>
                /\ run[Window(r)].status \in {"pending", "failed"}
                /\ run[Window(r)].attempts < MaxAttempts
Underway   == \A r \in Reviewers : Stage(r) \in Working => run[Window(r)].status = "running"

Steady  == HasWindow /\ OneHolds /\ MayBeTried /\ Underway /\ OneReviewPerWindow
TypeInv == TypeOK /\ Steady

(* A chapter exists before anything is written under its window.           *)
Grounded ==
  /\ \A r \in Reviewers : Stage(r) \in {"applying", "pruned"} => Window(r) \in chapter
  /\ MemoriesHaveChapter

(* A window lies in the transcript, belongs to the session of its review   *)
(* and begins right behind the cursor, or behind where the cursor was.     *)
Contiguous ==
  /\ \A s \in Sessions : cursor[s] <= Len(rows)
  /\ \A r \in Reviewers : Stage(r) # "idle" => review[r].upto <= Len(rows)
  /\ \A r \in Reviewers : Busy(r) =>
       /\ Window(r).last <= Len(rows)
       /\ rows[Window(r).first] = review[r].session
       /\ \A i \in DOMAIN rows : rows[i] = review[r].session /\ i < Window(r).first
                                  => i <= cursor[review[r].session]
  /\ \A w \in Completed : w.first <= Len(rows)

----------------------------------------------------------------------------
(* Finite sets have no infinite descent.  This is the induction the proofs *)
(* about sums use: an exception has a smallest one.                        *)
LEMMA SmallestNat ==
  ASSUME NEW T \in SUBSET Nat, T # {}
  PROVE  \E n \in T : \A m \in T : n <= m
<1> DEFINE less == {p \in Nat \X Nat : p[1] < p[2]}
<1>1. IsWellFoundedOn(less, Nat)
  BY NatLessThanWellFounded DEF OpToRel
<1>2. PICK n \in T : \A m \in T : <<m, n>> \notin less
  <2> HIDE DEF less
  <2> QED BY <1>1, WFMin
<1>3. \A m \in T : n <= m
  <2>1. SUFFICES ASSUME NEW m \in T, m < n PROVE FALSE OBVIOUS
  <2>2. <<m, n>> \in less BY <2>1
  <2>3. QED BY <2>2, <1>2
<1>4. QED BY <1>3

(* Of the subsets of a finite set that have a property, one is minimal.   *)
LEMMA SmallestSubset ==
  ASSUME NEW S, IsFiniteSet(S), NEW B \in SUBSET (SUBSET S), B # {}
  PROVE  \E s \in B : \A t \in SUBSET s : t # s => t \notin B
<1>1. \A s \in SUBSET S : /\ IsFiniteSet(s) /\ Cardinality(s) \in Nat
                          /\ \A t \in SUBSET s : /\ Cardinality(t) <= Cardinality(s)
                                                 /\ t # s => Cardinality(t) < Cardinality(s)
  <2>1. \A s \in SUBSET S : IsFiniteSet(s) BY FS_Subset
  <2>2. QED BY <2>1, FS_Subset, FS_CardinalityType
<1> DEFINE sizes == {Cardinality(s) : s \in B}
<1>2. sizes \in SUBSET Nat /\ sizes # {} BY <1>1
<1>3. PICK n \in sizes : \A m \in sizes : n <= m
  <2> HIDE DEF sizes
  <2> QED BY <1>2, SmallestNat
<1>4. PICK s \in B : n = Cardinality(s) BY <1>3
<1>5. ASSUME NEW t \in SUBSET s, t # s, t \in B
      PROVE  FALSE
  <2>1. n <= Cardinality(t) BY <1>3, <1>5
  <2>2. Cardinality(t) < n BY <1>1, <1>4, <1>5
  <2>3. QED BY <2>1, <2>2, <1>1, <1>4, <1>5
<1>6. QED BY <1>5

(* The sum of DailyRuns over any rows f and windows S, and the function on *)
(* subsets that computes it.                                               *)
Total(f, S) == MapThenSumSet(LAMBDA w : f[w].attempts, S)
Pick(s) == CHOOSE x \in s : TRUE
Sums(f, S, it) ==
  it = [s \in SUBSET S |-> IF s = {} THEN 0 ELSE f[Pick(s)].attempts + it[s \ {Pick(s)}]]

(* The sum is that function at the whole set.                             *)
LEMMA TotalIs ==
  ASSUME NEW f, NEW S
  PROVE  Total(f, S) = (CHOOSE it : Sums(f, S, it))[S]
BY DEF Total, MapThenSumSet, MapThenFoldSet, Sums, Pick

(* CHOOSE takes a member of a set that has one.                           *)
LEMMA PickIn == \A s : s # {} => Pick(s) \in s
BY DEF Pick

(* One unfolding.                                                         *)
LEMMA SumsAt ==
  ASSUME NEW f, NEW S, NEW it, Sums(f, S, it), NEW s \in SUBSET S
  PROVE  it[s] = IF s = {} THEN 0 ELSE f[Pick(s)].attempts + it[s \ {Pick(s)}]
BY DEF Sums

(* Two such functions agree where both are defined: the sum of a subset does*)
(* not depend on the set it is taken in.                                  *)
LEMMA SumsAgree ==
  ASSUME NEW f, NEW S, NEW T, NEW a, NEW b, Sums(f, S, a), Sums(f, T, b),
         NEW s, s \in SUBSET S, s \in SUBSET T, IsFiniteSet(s)
  PROVE  a[s] = b[s]
<1> DEFINE B == {t \in SUBSET s : a[t] # b[t]}
<1>1. SUFFICES ASSUME a[s] # b[s] PROVE FALSE OBVIOUS
<1>2. B \in SUBSET (SUBSET s) /\ B # {} BY <1>1
<1>3. PICK t \in B : \A u \in SUBSET t : u # t => u \notin B
  <2> HIDE DEF B
  <2> QED BY <1>2, SmallestSubset
<1>4. t \in SUBSET S /\ t \in SUBSET T /\ t \in SUBSET s /\ a[t] # b[t] OBVIOUS
<1>5. t # {} BY <1>4, SumsAt
<1> DEFINE u == t \ {Pick(t)}
<1>6. u \in SUBSET t /\ u # t BY <1>5, PickIn
<1>7. a[u] = b[u] BY <1>3, <1>4, <1>6
<1>8. a[t] = f[Pick(t)].attempts + a[u] BY <1>4, <1>5, SumsAt
<1>9. b[t] = f[Pick(t)].attempts + b[u] BY <1>4, <1>5, SumsAt
<1>10. QED BY <1>4, <1>7, <1>8, <1>9

(* Such a function exists on every finite set.                            *)
LEMMA SumsExist ==
  ASSUME NEW f, NEW S, IsFiniteSet(S)
  PROVE  \E it : Sums(f, S, it)
<1> DEFINE B == {s \in SUBSET S : ~ \E it : Sums(f, s, it)}
<1>1. SUFFICES ASSUME ~ \E it : Sums(f, S, it) PROVE FALSE OBVIOUS
<1>2. B \in SUBSET (SUBSET S) /\ B # {} BY <1>1
<1>3. PICK s \in B : \A t \in SUBSET s : t # s => t \notin B
  <2> HIDE DEF B
  <2> QED BY <1>2, SmallestSubset
<1>4. s \in SUBSET S /\ ~ \E it : Sums(f, s, it) OBVIOUS
<1>5. \A t \in SUBSET s : t # s => \E it : Sums(f, t, it) BY <1>3, <1>4
<1> DEFINE tot(t) == (CHOOSE it : Sums(f, t, it))[t]
           it == [t \in SUBSET s |->
                   IF t # s THEN tot(t)
                   ELSE IF s = {} THEN 0 ELSE f[Pick(s)].attempts + tot(s \ {Pick(s)})]
<1>6. ASSUME NEW t \in SUBSET s
      PROVE  it[t] = IF t = {} THEN 0 ELSE f[Pick(t)].attempts + it[t \ {Pick(t)}]
  <2>1. CASE t = s
    <3>1. CASE s = {} BY <2>1, <3>1
    <3>2. CASE s # {}
      <4>1. s \ {Pick(s)} \in SUBSET s /\ s \ {Pick(s)} # s BY <3>2, PickIn
      <4> HIDE DEF tot
      <4>2. it[s \ {Pick(s)}] = tot(s \ {Pick(s)}) BY <4>1
      <4>3. it[s] = f[Pick(s)].attempts + tot(s \ {Pick(s)}) BY <3>2
      <4>4. QED BY <2>1, <3>2, <4>2, <4>3
    <3>3. QED BY <3>1, <3>2
  <2>2. CASE t # s
    <3> DEFINE a == CHOOSE i : Sums(f, t, i)
    <3>1. Sums(f, t, a) BY <1>5, <2>2
    <3>2. it[t] = a[t] BY <2>2
    <3> HIDE DEF a
    <3>3. CASE t = {} BY <3>1, <3>2, <3>3, SumsAt
    <3>4. CASE t # {}
      <4> DEFINE u == t \ {Pick(t)}
      <4>1. u \in SUBSET t /\ u # t /\ u \in SUBSET s /\ u # s BY <3>4, PickIn
      <4> DEFINE b == CHOOSE i : Sums(f, u, i)
      <4>2. Sums(f, u, b) BY <1>5, <4>1
      <4>3. it[u] = b[u] BY <4>1
      <4> HIDE DEF b
      <4>4. IsFiniteSet(u) /\ u \in SUBSET u BY <4>1, <1>4, FS_Subset
      <4> HIDE DEF u, it
      <4>5. a[u] = b[u] BY <3>1, <4>1, <4>2, <4>4, SumsAgree
      <4>6. a[t] = f[Pick(t)].attempts + a[u] BY <3>1, <3>4, SumsAt DEF u
      <4>7. QED BY <3>2, <3>4, <4>3, <4>5, <4>6 DEF u
    <3>5. QED BY <3>3, <3>4
  <2>3. QED BY <2>1, <2>2
<1>7. it = [t \in SUBSET s |-> it[t]] OBVIOUS
<1> HIDE DEF it
<1>8. Sums(f, s, it)
  <2>1. [t \in SUBSET s |-> it[t]] =
        [t \in SUBSET s |-> IF t = {} THEN 0 ELSE f[Pick(t)].attempts + it[t \ {Pick(t)}]]
    BY <1>6
  <2>2. QED BY <2>1, <1>7 DEF Sums
<1>9. QED BY <1>4, <1>8

(* Hence the sum has its defining equation.                               *)
LEMMA TotalStep ==
  ASSUME NEW f, NEW S, IsFiniteSet(S)
  PROVE  /\ S = {} => Total(f, S) = 0
         /\ S # {} => Total(f, S) = f[Pick(S)].attempts + Total(f, S \ {Pick(S)})
<1> DEFINE a == CHOOSE i : Sums(f, S, i)
<1>1. Sums(f, S, a) BY SumsExist
<1>2. Total(f, S) = a[S] BY TotalIs
<1> HIDE DEF a
<1>3. CASE S = {} BY <1>1, <1>2, <1>3, SumsAt
<1>4. CASE S # {}
  <2> DEFINE T == S \ {Pick(S)}
             b == CHOOSE i : Sums(f, T, i)
  <2>1. IsFiniteSet(T) /\ T \in SUBSET S /\ T \in SUBSET T BY FS_Subset
  <2>2. Sums(f, T, b) BY <2>1, SumsExist
  <2>3. Total(f, T) = b[T] BY TotalIs
  <2> HIDE DEF b
  <2>4. a[S] = f[Pick(S)].attempts + a[T] BY <1>1, <1>4, SumsAt
  <2> HIDE DEF T
  <2>5. a[T] = b[T] BY <1>1, <2>1, <2>2, SumsAgree
  <2>6. QED BY <1>2, <1>4, <2>3, <2>4, <2>5 DEF T
<1>5. QED BY <1>3, <1>4

(* The sum of naturals is a natural.                                      *)
LEMMA TotalNat ==
  ASSUME NEW f, NEW S, IsFiniteSet(S), \A x \in S : f[x].attempts \in Nat
  PROVE  Total(f, S) \in Nat
<1> DEFINE B == {s \in SUBSET S : Total(f, s) \notin Nat}
<1>1. SUFFICES ASSUME Total(f, S) \notin Nat PROVE FALSE OBVIOUS
<1>2. B \in SUBSET (SUBSET S) /\ B # {} BY <1>1
<1>3. PICK s \in B : \A t \in SUBSET s : t # s => t \notin B
  <2> HIDE DEF B
  <2> QED BY <1>2, SmallestSubset
<1>4. s \in SUBSET S /\ IsFiniteSet(s) /\ Total(f, s) \notin Nat BY FS_Subset
<1>5. s # {}
  <2>1. Total(f, s) # 0 BY <1>4
  <2>2. QED BY <2>1, <1>4, TotalStep
<1>6. s \ {Pick(s)} \in SUBSET s /\ s \ {Pick(s)} # s /\ Pick(s) \in S BY <1>4, <1>5, PickIn
<1>7. Total(f, s \ {Pick(s)}) \in Nat BY <1>3, <1>4, <1>6
<1>8. Total(f, s) = f[Pick(s)].attempts + Total(f, s \ {Pick(s)}) BY <1>4, <1>5, TotalStep
<1>9. QED BY <1>4, <1>6, <1>7, <1>8

(* The sum depends on the attempts only.                                  *)
LEMMA TotalSame ==
  ASSUME NEW f, NEW g, NEW S, IsFiniteSet(S), \A x \in S : f[x].attempts = g[x].attempts
  PROVE  Total(f, S) = Total(g, S)
<1> DEFINE B == {s \in SUBSET S : Total(f, s) # Total(g, s)}
<1>1. SUFFICES ASSUME Total(f, S) # Total(g, S) PROVE FALSE OBVIOUS
<1>2. B \in SUBSET (SUBSET S) /\ B # {} BY <1>1
<1>3. PICK s \in B : \A t \in SUBSET s : t # s => t \notin B
  <2> HIDE DEF B
  <2> QED BY <1>2, SmallestSubset
<1>4. s \in SUBSET S /\ IsFiniteSet(s) /\ Total(f, s) # Total(g, s) BY FS_Subset
<1>5. s # {} BY <1>4, TotalStep
<1>6. s \ {Pick(s)} \in SUBSET s /\ s \ {Pick(s)} # s /\ Pick(s) \in S BY <1>4, <1>5, PickIn
<1>7. Total(f, s \ {Pick(s)}) = Total(g, s \ {Pick(s)}) BY <1>3, <1>4, <1>6
<1>8. Total(f, s) = f[Pick(s)].attempts + Total(f, s \ {Pick(s)}) BY <1>4, <1>5, TotalStep
<1>9. Total(g, s) = g[Pick(s)].attempts + Total(g, s \ {Pick(s)}) BY <1>4, <1>5, TotalStep
<1>10. QED BY <1>4, <1>6, <1>7, <1>8, <1>9

(* Any member can be taken out first.                                     *)
LEMMA TotalSplit ==
  ASSUME NEW f, NEW S, IsFiniteSet(S), \A x \in S : f[x].attempts \in Nat, NEW x \in S
  PROVE  Total(f, S) = f[x].attempts + Total(f, S \ {x})
<1> DEFINE B == {s \in SUBSET S : \E y \in s : Total(f, s) # f[y].attempts + Total(f, s \ {y})}
<1>1. SUFFICES ASSUME Total(f, S) # f[x].attempts + Total(f, S \ {x}) PROVE FALSE OBVIOUS
<1>2. B \in SUBSET (SUBSET S) /\ B # {} BY <1>1
<1>3. PICK s \in B : \A t \in SUBSET s : t # s => t \notin B
  <2> HIDE DEF B
  <2> QED BY <1>2, SmallestSubset
<1>4. s \in SUBSET S /\ IsFiniteSet(s) BY FS_Subset
<1>5. PICK y \in s : Total(f, s) # f[y].attempts + Total(f, s \ {y}) OBVIOUS
<1> DEFINE z == Pick(s)
<1>6. z \in s BY <1>5, PickIn
<1> HIDE DEF z
<1>7. Total(f, s) = f[z].attempts + Total(f, s \ {z}) BY <1>4, <1>5, TotalStep DEF z
<1>8. y # z BY <1>5, <1>7
<1>9. s \ {z} \notin B /\ s \ {y} \notin B BY <1>3, <1>5, <1>6
<1>10. Total(f, s \ {z}) = f[y].attempts + Total(f, (s \ {z}) \ {y})
  BY <1>4, <1>5, <1>8, <1>9
<1>11. Total(f, s \ {y}) = f[z].attempts + Total(f, (s \ {y}) \ {z})
  BY <1>4, <1>6, <1>8, <1>9
<1>12. (s \ {z}) \ {y} = (s \ {y}) \ {z} OBVIOUS
<1>13. Total(f, (s \ {y}) \ {z}) \in Nat
  <2>1. IsFiniteSet((s \ {y}) \ {z}) BY <1>4, FS_Subset
  <2>2. QED BY <2>1, <1>4, TotalNat
<1>14. f[y].attempts \in Nat /\ f[z].attempts \in Nat BY <1>4, <1>5, <1>6
<1> DEFINE rest == Total(f, (s \ {y}) \ {z})
<1>15. Total(f, s) = f[z].attempts + (f[y].attempts + rest) BY <1>7, <1>10, <1>12
<1>16. f[y].attempts + Total(f, s \ {y}) = f[y].attempts + (f[z].attempts + rest) BY <1>11
<1>17. rest \in Nat BY <1>13
<1> HIDE DEF rest
<1>18. QED BY <1>5, <1>14, <1>15, <1>16, <1>17
----------------------------------------------------------------------------
(* Values the actions write are well typed.                                *)
LEMMA TranscriptType ==
  ASSUME TypeOK
  PROVE  /\ Len(rows) \in Nat /\ Len(rows) <= MaxRows
         /\ DOMAIN rows = 1..Len(rows)
         /\ \A i \in 1..Len(rows) : rows[i] \in Sessions
BY DEF TypeOK

LEMMA RestingType ==
  ASSUME TypeOK, NEW reason \in {"periodic", "new"}
  PROVE  /\ Resting \in Review /\ Resting.stage = "idle"
         /\ Scheduled(reason) \in Review /\ Scheduled(reason).stage = "scheduled"
         /\ Scheduled(reason).upto = Len(rows)
<1>1. Resting \in Review /\ Resting.stage = "idle"
  BY DistillationAssumption DEF Resting, Review, Stages, Sessions
<1> HIDE DEF Resting
<1> DEFINE q1 == [Resting EXCEPT !.stage = "scheduled"]
           q2 == [q1 EXCEPT !.session = session]
           q3 == [q2 EXCEPT !.reason = reason]
           q4 == [q3 EXCEPT !.upto = Len(rows)]
<1>2. q1 \in Review /\ q1.stage = "scheduled"
  BY <1>1 DEF Review, Stages
<1> HIDE DEF q1
<1>3. q2 \in Review /\ q2.stage = "scheduled"
  BY <1>2 DEF Review, TypeOK
<1> HIDE DEF q2
<1>4. q3 \in Review /\ q3.stage = "scheduled"
  BY <1>3 DEF Review
<1> HIDE DEF q3
<1>5. q4 \in Review /\ q4.stage = "scheduled" /\ q4.upto = Len(rows)
  <2>1. Len(rows) \in 0..MaxRows
    BY TranscriptType, DistillationAssumption
  <2> QED
    BY <1>4, <2>1 DEF Review
<1> QED
  BY <1>1, <1>5 DEF Scheduled, q1, q2, q3

LEMMA WindowType ==
  ASSUME NEW w \in Windows
  PROVE  w.first \in 1..MaxRows /\ w.last \in 1..MaxRows /\ w.first <= w.last
BY DEF Windows, Rows

LEMMA RecordedType ==
  ASSUME TypeOK, NEW f \in Facts, NEW by \in {"foreground", "background"},
         NEW from \in Windows \cup {NULL}
  PROVE  Recorded(f, by, from) \in [Facts -> Item]
BY DEF Recorded, TypeOK, Item

----------------------------------------------------------------------------
(* The steps of a review, by what they do to it and to the row of its      *)
(* window.  It begins,                                                     *)
Beginning(r) == ReviewAfterTurn(r) \/ NewSession(r)

(* opens a window (Prepare) and asks the model (Ask), moves on,            *)
Moving(r) ==
  \/ RecordChapter(r) \/ Reject(r) \/ Prune(r)
  \/ \E f \in Facts : Record(r, f) \/ Resolve(r, f) \/ Update(r, f)

(* and ends.                                                               *)
Ending(r) == Decline(r) \/ Fail(r) \/ Lose(r) \/ Conclude(r)

LEMMA StepKinds ==
  ASSUME [Next]_vars
  PROVE  \/ Say \/ Tick \/ Restart \/ UNCHANGED vars
         \/ \E r \in Reviewers : Beginning(r) \/ Prepare(r) \/ Ask(r) \/ Moving(r) \/ Ending(r)
         \/ \E f \in Facts : Remember(f) \/ CloseItem(f) \/ Lapse(f)
BY DEF Next, Work, Beginning, Moving, Ending

Alone(r) == /\ review' \in [Reviewers -> Review]
            /\ \A q \in Reviewers \ {r} : review'[q] = review[q]

Begun(r) ==
  /\ Alone(r) /\ Stage(r) = "idle"
  /\ review'[r].stage = "scheduled" /\ review'[r].upto = Len(rows)
  /\ UNCHANGED <<run, cursor, rows, chapter, item, lost>>

LEMMA BeginShape ==
  ASSUME TypeOK, NEW r \in Reviewers, Beginning(r)
  PROVE  Begun(r)
<1>1. PICK reason \in {"periodic", "new"} : review' = [review EXCEPT ![r] = Scheduled(reason)]
  BY DEF Beginning, ReviewAfterTurn, NewSession
<1>2. Alone(r) /\ review'[r].stage = "scheduled" /\ review'[r].upto = Len(rows)
  BY <1>1, RestingType DEF Alone, TypeOK
<1>3. Stage(r) = "idle" /\ UNCHANGED <<run, cursor, rows, chapter, item, lost>>
  BY DEF Beginning, ReviewAfterTurn, NewSession, Stage, talk, tables, history
<1> QED
  BY <1>2, <1>3 DEF Begun

(* The window opened is due: it starts with the first message of the       *)
(* session past the cursor.                                                *)
Opened(r, w) ==
  /\ Alone(r) /\ Stage(r) = "scheduled"
  /\ \A q \in Reviewers : Busy(q) => Stage(q) = "asking"
  /\ run[w].status \in {"none", "failed"}
  /\ IsBatch(review[r], w)
  /\ review'[r].stage = "prepared" /\ review'[r].window = w
  /\ review'[r].session = review[r].session /\ review'[r].upto = review[r].upto
  /\ run' \in [Windows -> Run]
  /\ run'[w].status \in {"pending", "failed"} /\ run'[w].attempts < MaxAttempts
  /\ \A v \in Windows \ {w} : run'[v] = run[v]
  /\ UNCHANGED <<cursor, rows, chapter, item, lost>>

LEMMA PrepareShape ==
  ASSUME TypeOK, NEW r \in Reviewers, Prepare(r)
  PROVE  \E w \in Windows : Opened(r, w)
<1>1. PICK w \in Windows :
        /\ Due(review[r], w) /\ OpenWindow(w)
        /\ run' = [run EXCEPT ![w] =
             IF @.status = "none" THEN [status |-> "pending", attempts |-> 0, created |-> now]
             ELSE [@ EXCEPT !.attempts = IF Exhausted(w) THEN 0 ELSE run[w].attempts]]
        /\ review' = [review EXCEPT ![r].stage = "prepared", ![r].window = w]
  BY DEF Prepare
<1>2. run[w] \in Run /\ review[r] \in Review
  BY DEF TypeOK
<1> DEFINE row == IF run[w].status = "none"
                  THEN [status |-> "pending", attempts |-> 0, created |-> now]
                  ELSE [run[w] EXCEPT !.attempts = IF Exhausted(w) THEN 0 ELSE run[w].attempts]
<1>3. /\ row \in Run /\ row.status \in {"pending", "failed"}
      /\ row.attempts < MaxAttempts
  <2>1. CASE run[w].status = "none"
    BY <2>1, DistillationAssumption DEF Run, TypeOK
  <2>2. CASE run[w].status = "failed"
    <3> DEFINE n == IF Exhausted(w) THEN 0 ELSE run[w].attempts
    <3>1. n \in 0..MaxAttempts /\ n < MaxAttempts
      BY <1>2, DistillationAssumption DEF Exhausted, Run
    <3>2. row = [run[w] EXCEPT !.attempts = n]
      BY <2>2
    <3> HIDE DEF n, row
    <3> QED
      BY <1>2, <2>2, <3>1, <3>2 DEF Run
  <2> QED
    BY <1>1, <2>1, <2>2 DEF OpenWindow
<1>4. run' = [run EXCEPT ![w] = row]
  BY <1>1
<1> HIDE DEF row
<1>5. /\ Alone(r)
      /\ review'[r].stage = "prepared" /\ review'[r].window = w
      /\ review'[r].session = review[r].session /\ review'[r].upto = review[r].upto
  BY <1>1, <1>2 DEF Alone, TypeOK, Review, Stages
<1>6. /\ run' \in [Windows -> Run]
      /\ run'[w].status \in {"pending", "failed"} /\ run'[w].attempts < MaxAttempts
      /\ \A v \in Windows \ {w} : run'[v] = run[v]
  BY <1>3, <1>4 DEF TypeOK
<1>7. /\ Stage(r) = "scheduled"
      /\ \A q \in Reviewers : Busy(q) => Stage(q) = "asking"
  BY DEF Prepare, LoopIsFree, Stage, TypeOK, Review, Stages
<1>8. run[w].status \in {"none", "failed"} /\ IsBatch(review[r], w)
  BY <1>1 DEF OpenWindow, Due
<1>9. UNCHANGED <<cursor, rows, chapter, item, lost>>
  BY DEF Prepare, talk
<1> QED
  BY <1>5, <1>6, <1>7, <1>8, <1>9 DEF Opened

Asked(r) ==
  /\ Alone(r) /\ Stage(r) = "prepared"
  /\ review'[r].stage = "asking" /\ review'[r].window = Window(r)
  /\ review'[r].session = review[r].session /\ review'[r].upto = review[r].upto
  /\ run' \in [Windows -> Run] /\ run'[Window(r)].status = "running"
  /\ \A v \in Windows \ {Window(r)} : run'[v] = run[v]
  /\ UNCHANGED <<cursor, rows, chapter, item, lost>>

LEMMA AskShape ==
  ASSUME TypeInv, NEW r \in Reviewers, Ask(r)
  PROVE  Asked(r)
<1> USE DEF TypeInv
<1>1. Window(r) \in Windows /\ run[Window(r)] \in Run /\ review[r] \in Review
  BY DEF Ask, TypeOK, Steady, HasWindow
<1>2. run[Window(r)].attempts < MaxAttempts
  BY DEF Ask, Steady, MayBeTried, Stage
<1>3. [status |-> "running", attempts |-> run[Window(r)].attempts + 1, created |-> now] \in Run
  BY <1>1, <1>2, DistillationAssumption DEF Run, TypeOK
<1>4. /\ run' \in [Windows -> Run] /\ run'[Window(r)].status = "running"
      /\ \A v \in Windows \ {Window(r)} : run'[v] = run[v]
  BY <1>1, <1>3 DEF Ask, TypeOK
<1>5. /\ Alone(r) /\ Stage(r) = "prepared"
      /\ review'[r].stage = "asking" /\ review'[r].window = Window(r)
      /\ review'[r].session = review[r].session /\ review'[r].upto = review[r].upto
  BY <1>1 DEF Ask, Alone, Stage, TypeOK, Review, Stages
<1>6. UNCHANGED <<cursor, rows, chapter, item, lost>>
  BY DEF Ask, talk
<1> QED
  BY <1>4, <1>5, <1>6 DEF Asked

Moved(r) ==
  /\ Alone(r) /\ Stage(r) \in Working /\ (Stage(r) = "asking" => LoopIsFree)
  /\ review'[r].stage \in {"applying", "pruned"} /\ review'[r].window = Window(r)
  /\ review'[r].session = review[r].session /\ review'[r].upto = review[r].upto
  /\ UNCHANGED <<run, cursor, rows, lost>>

LEMMA MoveShape ==
  ASSUME TypeOK, NEW r \in Reviewers, Moving(r)
  PROVE  Moved(r)
<1>1. review[r] \in Review
  BY DEF TypeOK
<1>2. UNCHANGED <<run, cursor, rows, lost>>
  BY DEF Moving, RecordChapter, Reject, Prune, Record, Resolve, Update, talk, tables, history
<1>3. CASE RecordChapter(r)
  <2>1. PICK n \in 0..MaxOperations :
          review' = [review EXCEPT ![r].stage = "applying", ![r].left = n]
    BY <1>3 DEF RecordChapter
  <2> QED
    BY <1>1, <1>2, <1>3, <2>1
    DEF Moved, Alone, RecordChapter, Stage, Working, Review, Stages, TypeOK
<1>4. CASE Prune(r)
  BY <1>1, <1>2, <1>4 DEF Moved, Alone, Prune, Stage, Working, Review, Stages, TypeOK
<1>5. ASSUME NEW outcome \in {"applied", "rejected"}, Operation(r, outcome)
      PROVE  Moved(r)
  <2>1. Stage(r) = "applying" /\ review[r].left - 1 \in 0..MaxOperations
    BY <1>1, <1>5, DistillationAssumption DEF Operation, Stage, Review
  <2> DEFINE q1 == [review[r] EXCEPT !.left = @ - 1]
             q2 == [q1 EXCEPT !.applied = @ \/ outcome = "applied"]
             q3 == [q2 EXCEPT !.rejected = @ \/ outcome = "rejected"]
             Same(q) == /\ q \in Review /\ q.stage = "applying" /\ q.window = Window(r)
                        /\ q.session = review[r].session /\ q.upto = review[r].upto
  <2>2. Same(q1)
    BY <1>1, <2>1 DEF Review, Stage
  <2> HIDE DEF q1
  <2>3. Same(q2)
    BY <2>2 DEF Review
  <2> HIDE DEF q2
  <2>4. Same(q3)
    BY <2>3 DEF Review
  <2> HIDE DEF q3
  <2>5. review' = [review EXCEPT ![r] = q3]
    BY <1>5 DEF Operation, q1, q2, q3, TypeOK
  <2> QED
    BY <1>2, <2>1, <2>4, <2>5 DEF Moved, Alone, Working, TypeOK
<1> QED
  BY <1>3, <1>4, <1>5 DEF Moving, Reject, Record, Resolve, Update

(* A review that ends leaves its row settled, unless its task was lost.    *)
Ended(r) ==
  /\ Alone(r) /\ review'[r].stage = "idle"
  /\ run' \in [Windows -> Run]
  /\ \A w \in Windows : ~(Busy(r) /\ w = Window(r)) => run'[w] = run[w]
  /\ lost \subseteq lost'
  /\ Busy(r) => \/ Window(r) \in lost' /\ run' = run
                \/ run'[Window(r)].status \in {"completed", "failed"}
  /\ UNCHANGED <<rows, chapter, item>>

LEMMA EndShape ==
  ASSUME TypeInv, NEW r \in Reviewers, Ending(r)
  PROVE  Ended(r)
<1> USE DEF TypeInv
<1>1. Alone(r) /\ review'[r].stage = "idle"
  BY RestingType DEF Ending, Decline, Fail, Lose, Conclude, Alone, TypeOK
<1>2. CASE Decline(r)
  <2>1. ~Busy(r) /\ UNCHANGED <<run, rows, chapter, item, lost>>
    BY <1>2 DEF Decline, talk, tables, history
  <2> QED
    BY <1>1, <2>1 DEF Ended, TypeOK
<1>3. CASE Lose(r)
  <2>1. lost' = lost \cup {Window(r)} /\ UNCHANGED <<run, rows, chapter, item>>
    BY <1>3 DEF Lose, talk, tables
  <2> QED
    BY <1>1, <2>1 DEF Ended, TypeOK
<1>4. CASE Fail(r) \/ Conclude(r)
  <2>1. Busy(r) /\ Window(r) \in Windows
    BY <1>4 DEF Fail, Conclude, Steady, HasWindow
  <2>2. PICK status \in {"completed", "failed"} :
          run' = [run EXCEPT ![Window(r)].status = status]
    BY <1>4 DEF Fail, Conclude
  <2>3. run[Window(r)] \in Run
    BY <2>1 DEF TypeOK
  <2>4. /\ run' \in [Windows -> Run] /\ \A w \in Windows \ {Window(r)} : run'[w] = run[w]
        /\ run'[Window(r)].status = status
    BY <2>1, <2>2, <2>3 DEF TypeOK, Run
  <2>5. UNCHANGED <<rows, chapter, item, lost>>
    BY <1>4 DEF Fail, Conclude, talk, history
  <2> QED
    BY <1>1, <2>1, <2>4, <2>5 DEF Ended
<1> QED
  BY <1>2, <1>3, <1>4 DEF Ending

(* After a crash no review is left; completed windows may be open again.   *)
Restarted ==
  /\ review' \in [Reviewers -> Review] /\ \A r \in Reviewers : review'[r].stage = "idle"
  /\ run' \in [Windows -> Run]
  /\ \A w \in Windows : run'[w] = run[w]
                        \/ (run[w].status = "completed" /\ run'[w].status = "failed"
                            /\ cursor' = [s \in Sessions |-> 0])
  /\ cursor' = cursor \/ cursor' = [s \in Sessions |-> 0]
  /\ lost' = lost \cup {Window(r) : r \in {q \in Reviewers : Busy(q)}}
  /\ UNCHANGED <<rows, chapter, item>>

LEMMA RestartShape ==
  ASSUME TypeOK, Restart
  PROVE  Restarted
<1>1. review' \in [Reviewers -> Review] /\ \A r \in Reviewers : review'[r].stage = "idle"
  BY RestingType DEF Restart
<1>2. \/ run' = run /\ cursor' = cursor
      \/ /\ run' = [w \in Windows |-> IF w \in Completed
                     THEN [run[w] EXCEPT !.status = "failed", !.attempts = 0] ELSE run[w]]
         /\ cursor' = [s \in Sessions |-> 0]
  BY Zenon DEF Restart
<1>3. \A w \in Windows : LET row == [run[w] EXCEPT !.status = "failed", !.attempts = 0]
                         IN  row \in Run /\ row.status = "failed"
  <2> TAKE w \in Windows
  <2> DEFINE row == [run[w] EXCEPT !.status = "failed"]
  <2>1. row \in Run /\ row.status = "failed"
    BY DEF TypeOK, Run
  <2> HIDE DEF row
  <2>2. [row EXCEPT !.attempts = 0] \in Run /\ [row EXCEPT !.attempts = 0].status = "failed"
    BY <2>1, DistillationAssumption DEF Run
  <2> QED
    BY <2>2 DEF row
<1>4. /\ run' \in [Windows -> Run]
      /\ \A w \in Windows : run'[w] = run[w]
                            \/ (run[w].status = "completed" /\ run'[w].status = "failed"
                                /\ cursor' = [s \in Sessions |-> 0])
  BY <1>2, <1>3 DEF TypeOK, Completed
<1>5. lost' = lost \cup {Window(r) : r \in {q \in Reviewers : Busy(q)}}
      /\ UNCHANGED <<rows, chapter, item>>
  BY Zenon DEF Restart, talk
<1> QED
  BY <1>1, <1>2, <1>4, <1>5 DEF Restarted

----------------------------------------------------------------------------
(* A review that ends, waits to begin or has not begun works on nothing.   *)
LEMMA EndKeeps ==
  ASSUME Steady, NEW r \in Reviewers,
         review'[r].stage \in {"idle", "scheduled"},
         \A q \in Reviewers \ {r} : review'[q] = review[q],
         \A w \in Windows : ~(Busy(r) /\ w = Window(r)) => run'[w] = run[w]
  PROVE  Steady'
<1>1. \A q \in Reviewers : Busy(q)' => /\ q # r /\ Busy(q) /\ review'[q] = review[q]
                                       /\ Window(q) \in Windows
                                       /\ run'[Window(q)] = run[Window(q)]
  BY DEF Steady, HasWindow, OneReviewPerWindow
<1>2. HasWindow'
  BY <1>1 DEF HasWindow
<1>3. OneHolds'
  BY <1>1 DEF Steady, OneHolds, Stage
<1>4. MayBeTried'
  BY <1>1 DEF Steady, MayBeTried, Stage
<1>5. Underway'
  BY <1>1 DEF Steady, Underway, Stage, Working
<1>6. OneReviewPerWindow'
  BY <1>1 DEF Steady, OneReviewPerWindow
<1> QED
  BY <1>2, <1>3, <1>4, <1>5, <1>6 DEF Steady

(* A review moves on with its window after the model was asked.            *)
LEMMA MoveKeeps ==
  ASSUME Steady, NEW r \in Reviewers, Stage(r) \in Working,
         Stage(r) = "asking" => LoopIsFree,
         review'[r].stage \in {"applying", "pruned"}, review'[r].window = Window(r),
         \A q \in Reviewers \ {r} : review'[q] = review[q],
         run' = run
  PROVE  Steady'
<1>1. \A q \in Reviewers : /\ Busy(q)' = Busy(q) /\ Window(q)' = Window(q)
                           /\ q # r => review'[q] = review[q]
  BY DEF Stage, Working
<1>2. HasWindow'
  BY <1>1 DEF Steady, HasWindow
<1>3. OneHolds'
  BY DEF Steady, OneHolds, Stage, Working, LoopIsFree
<1>4. MayBeTried'
  BY <1>1 DEF Steady, MayBeTried, Stage
<1>5. Underway'
  BY <1>1 DEF Steady, Underway, Stage, Working
<1>6. OneReviewPerWindow'
  BY <1>1 DEF Steady, OneReviewPerWindow
<1> QED
  BY <1>2, <1>3, <1>4, <1>5, <1>6 DEF Steady

(* Opening a window and asking about it.                                   *)
LEMMA OpenKeeps ==
  ASSUME TypeInv, NEW r \in Reviewers, NEW w \in Windows, Opened(r, w)
  PROVE  Steady'
<1> USE DEF TypeInv, Opened, Alone
<1>1. \A q \in Reviewers : Busy(q) => Window(q) \in Windows \ {w}
  BY DEF Steady, HasWindow, Underway, Working
<1>2. HasWindow'
  BY DEF Steady, HasWindow
<1>3. OneHolds'
  BY DEF OneHolds, Stage
<1>4. MayBeTried'
  BY DEF MayBeTried, Stage
<1>5. Underway'
  BY <1>1 DEF Steady, Underway, Stage, Working
<1>6. OneReviewPerWindow'
  BY <1>1 DEF Steady, OneReviewPerWindow
<1> QED
  BY <1>2, <1>3, <1>4, <1>5, <1>6 DEF Steady

LEMMA AskKeeps ==
  ASSUME TypeInv, NEW r \in Reviewers, Asked(r)
  PROVE  Steady'
<1> USE DEF TypeInv, Asked, Alone
<1>1. Window(r) \in Windows
  BY DEF Steady, HasWindow, Stage
<1>2. \A q \in Reviewers \ {r} : Busy(q) => Window(q) \in Windows \ {Window(r)}
  BY DEF Steady, HasWindow, OneReviewPerWindow, Stage
<1>3. HasWindow'
  BY <1>1 DEF Steady, HasWindow
<1>4. OneHolds'
  BY DEF Steady, OneHolds, Stage
<1>5. MayBeTried'
  BY <1>2 DEF Steady, MayBeTried, Stage
<1>6. Underway'
  BY <1>2 DEF Steady, Underway, Stage, Working
<1>7. OneReviewPerWindow'
  BY <1>2 DEF Steady, OneReviewPerWindow
<1> QED
  BY <1>3, <1>4, <1>5, <1>6, <1>7 DEF Steady

(* The clock, the transcript and the counters the shapes say nothing of.   *)
Counted ==
  /\ now' = now \/ (now < MaxTime /\ now' = now + 1)
  /\ rows' = rows \/ (Len(rows) < MaxRows /\ rows' = Append(rows, session))
  /\ session' = session \/ (session < MaxSessions /\ session' = session + 1)
  /\ faults' = faults \/ (faults < MaxFaults /\ faults' = faults + 1)
  /\ calls' \in {calls, 0, calls + 1}

LEMMA Counting ==
  ASSUME [Next]_vars
  PROVE  Counted
<1> USE DEF Counted, talk, history
<1>1. CASE Say
  BY <1>1 DEF Say
<1>2. CASE Tick
  <2>1. calls' = calls \/ calls' = 0
    BY <1>2, Zenon DEF Tick
  <2> QED
    BY <1>2, <2>1 DEF Tick
<1>3. CASE Restart
  BY <1>3, Zenon DEF Restart
<1>4. ASSUME NEW r \in Reviewers, Beginning(r)
      PROVE  Counted
  BY <1>4 DEF Beginning, ReviewAfterTurn, NewSession
<1>5. ASSUME NEW r \in Reviewers, Prepare(r) \/ Ask(r)
      PROVE  Counted
  BY <1>5 DEF Prepare, Ask
<1>6. ASSUME NEW r \in Reviewers, Moving(r)
      PROVE  Counted
  BY <1>6 DEF Moving, RecordChapter, Reject, Prune, Record, Resolve, Update
<1>7. ASSUME NEW r \in Reviewers, Ending(r)
      PROVE  Counted
  BY <1>7 DEF Ending, Decline, Fail, Lose, Conclude
<1>8. ASSUME NEW f \in Facts, Remember(f) \/ CloseItem(f) \/ Lapse(f)
      PROVE  Counted
  BY <1>8 DEF Remember, CloseItem, Lapse
<1>9. CASE UNCHANGED vars
  BY <1>9 DEF vars
<1> QED
  BY <1>1, <1>2, <1>3, <1>4, <1>5, <1>6, <1>7, <1>8, <1>9, StepKinds

LEMMA OthersTyped ==
  ASSUME TypeOK, [Next]_vars
  PROVE  /\ now' \in 0..MaxTime /\ rows' \in Seq(Sessions) /\ Len(rows') <= MaxRows
         /\ session' \in Sessions /\ faults' \in 0..MaxFaults
         /\ calls' \in Nat /\ forgiven' \in BOOLEAN /\ replayed' \in BOOLEAN
<1>1. now' \in 0..MaxTime /\ session' \in Sessions /\ faults' \in 0..MaxFaults
  BY Counting, DistillationAssumption DEF Counted, TypeOK, Sessions
<1>2. rows' \in Seq(Sessions) /\ Len(rows') <= MaxRows
  <2>1. CASE rows' = rows
    BY <2>1 DEF TypeOK
  <2>2. CASE Len(rows) < MaxRows /\ rows' = Append(rows, session)
    <3>1. rows' \in Seq(Sessions) /\ Len(rows') = Len(rows) + 1
      BY <2>2 DEF TypeOK
    <3>2. Len(rows) \in Nat
      BY DEF TypeOK
    <3> QED
      BY <2>2, <3>1, <3>2, DistillationAssumption
  <2> QED
    BY <2>1, <2>2, Counting DEF Counted
<1>3. calls' \in Nat
  BY Counting DEF Counted, TypeOK
<1>4. forgiven' \in BOOLEAN
  BY Zenon DEF TypeOK, Next, Work, vars, talk, history, Say, Tick, Restart, ReviewAfterTurn,
         NewSession, Prepare, Decline, Ask, Fail, Lose, RecordChapter, Record, Resolve, Update,
         Reject, Prune, Conclude, Remember, CloseItem, Lapse
<1>5. replayed' \in BOOLEAN
  BY Zenon DEF TypeOK, Next, Work, vars, talk, tables, Say, Tick, Restart, ReviewAfterTurn,
         NewSession, Prepare, Decline, Ask, Fail, Lose, RecordChapter, Record, Resolve, Update,
         Reject, Prune, Conclude, Remember, CloseItem, Lapse
<1> QED
  BY <1>1, <1>2, <1>3, <1>4, <1>5

(* The items reviews, tools and the clock write are items.                 *)
LEMMA ItemsTyped ==
  ASSUME TypeInv, [Next]_vars
  PROVE  item' \in [Facts -> Item]
<1> USE DEF TypeInv
<1>1. CASE item' = item
  BY <1>1 DEF TypeOK
<1>2. ASSUME NEW f \in Facts, NEW r \in Reviewers,
             Record(r, f) \/ Resolve(r, f) \/ Update(r, f)
      PROVE  item' \in [Facts -> Item]
  <2>1. Window(r) \in Windows
    BY <1>2 DEF Record, Resolve, Update, Operation, Steady, HasWindow
  <2>2. item[f] \in Item
    BY DEF TypeOK
  <2>3. CASE Record(r, f)
    BY <2>1, <2>3, RecordedType DEF Record
  <2>4. CASE Resolve(r, f)
    BY <2>2, <2>4 DEF Resolve, TypeOK, Item
  <2>5. CASE Update(r, f)
    <3> DEFINE from == IF item[f].by = "background" THEN Window(r) ELSE item[f].from
    <3>1. from \in Windows \cup {NULL}
      BY <2>1, <2>2 DEF Item
    <3>2. item' = [item EXCEPT ![f].from = from]
      BY <2>5 DEF Update
    <3> HIDE DEF from
    <3> QED
      BY <2>2, <3>1, <3>2 DEF TypeOK, Item
  <2> QED
    BY <1>2, <2>3, <2>4, <2>5
<1>3. ASSUME NEW r \in Reviewers, Prune(r)
      PROVE  item' \in [Facts -> Item]
  BY <1>3 DEF Prune, NoItem, TypeOK, Item
<1>4. ASSUME NEW f \in Facts, Remember(f) \/ CloseItem(f) \/ Lapse(f)
      PROVE  item' \in [Facts -> Item]
  <2>1. item[f] \in Item
    BY DEF TypeOK
  <2>2. CASE Remember(f)
    BY <2>2, RecordedType DEF Remember
  <2>3. CASE CloseItem(f) \/ Lapse(f)
    BY <2>1, <2>3 DEF CloseItem, Lapse, NoItem, TypeOK, Item
  <2> QED
    BY <1>4, <2>2, <2>3
<1>5. ASSUME NEW r \in Reviewers, Beginning(r) \/ Prepare(r) \/ Ask(r) \/ Ending(r)
                                  \/ RecordChapter(r) \/ Reject(r)
      PROVE  item' = item
  BY <1>5 DEF Beginning, ReviewAfterTurn, NewSession, Prepare, Ask, Ending, Decline, Fail, Lose,
              Conclude, RecordChapter, Reject, tables
<1>6. CASE Say \/ Tick \/ UNCHANGED vars
  BY <1>1, <1>6 DEF Say, Tick, vars, tables
<1>7. CASE Restart
  BY <1>1, <1>7, Zenon DEF Restart
<1> QED
  BY <1>1, <1>2, <1>3, <1>4, <1>5, <1>6, <1>7, StepKinds DEF Moving

(* Every variable keeps its type, and no window is with two reviews: the   *)
(* row a review marks before it lets the loop go keeps the others away.    *)
THEOREM TypeCorrect == Spec => []TypeInv
<1>1. Init => TypeInv
  <2> SUFFICES ASSUME Init PROVE TypeInv
    OBVIOUS
  <2>1. Resting \in Review /\ Resting.stage = "idle"
    BY DistillationAssumption DEF Resting, Review, Stages, Sessions
  <2>2. NoRun \in Run /\ NoItem \in Item
    BY DistillationAssumption DEF NoRun, Run, NoItem, Item
  <2>3. now \in 0..MaxTime /\ faults \in 0..MaxFaults /\ session \in Sessions
        /\ rows \in Seq(Sessions) /\ Len(rows) <= MaxRows
        /\ cursor \in [Sessions -> 0..MaxRows]
    BY DistillationAssumption DEF Init, Sessions
  <2>4. /\ run \in [Windows -> Run] /\ chapter \subseteq Windows /\ item \in [Facts -> Item]
        /\ review \in [Reviewers -> Review] /\ calls \in Nat /\ lost \subseteq Windows
        /\ replayed \in BOOLEAN /\ forgiven \in BOOLEAN
    BY <2>1, <2>2 DEF Init
  <2>5. Steady
    BY <2>1 DEF Init, Steady, HasWindow, OneHolds, MayBeTried, Underway,
                OneReviewPerWindow, Stage, Working
  <2> QED
    BY <2>3, <2>4, <2>5 DEF TypeInv, TypeOK
<1>2. TypeInv /\ [Next]_vars => TypeInv'
  <2> SUFFICES ASSUME TypeInv, [Next]_vars
               PROVE  TypeInv'
    OBVIOUS
  <2> USE DEF TypeInv
  <2> DEFINE Kept == /\ review' \in [Reviewers -> Review] /\ run' \in [Windows -> Run]
                     /\ chapter' \subseteq Windows /\ lost' \subseteq Windows
                     /\ cursor' \in [Sessions -> 0..MaxRows]
                     /\ Steady'
  <2>1. ASSUME UNCHANGED <<review, run, chapter, lost, cursor>>
        PROVE  Kept
    BY <2>1 DEF TypeOK, Steady, HasWindow, OneHolds, MayBeTried, Underway, OneReviewPerWindow,
                Stage, Working
  <2>2. ASSUME Say \/ Tick \/ UNCHANGED vars
        PROVE  Kept
    BY <2>1, <2>2 DEF Say, Tick, vars, tables, history
  <2>3. ASSUME Restart
        PROVE  Kept
    <3>1. Restarted
      BY <2>3, RestartShape
    <3>2. Steady'
      BY <3>1 DEF Restarted, Steady, HasWindow, OneHolds, MayBeTried, Underway,
                  OneReviewPerWindow, Stage, Working
    <3>3. lost' \subseteq Windows
      BY <3>1 DEF Restarted, TypeOK, Steady, HasWindow
    <3>4. cursor' \in [Sessions -> 0..MaxRows]
      BY <3>1, DistillationAssumption DEF Restarted, TypeOK
    <3> QED
      BY <3>1, <3>2, <3>3, <3>4 DEF Restarted, TypeOK
  <2>4. ASSUME NEW r \in Reviewers, Beginning(r)
        PROVE  Kept
    <3>1. Begun(r)
      BY <2>4, BeginShape
    <3>2. Steady'
      BY <3>1, EndKeeps DEF Begun, Alone
    <3> QED
      BY <3>1, <3>2 DEF Begun, Alone, TypeOK
  <2>5. ASSUME NEW r \in Reviewers, Prepare(r)
        PROVE  Kept
    <3>1. PICK w \in Windows : Opened(r, w)
      BY <2>5, PrepareShape
    <3>2. Steady'
      BY <3>1, OpenKeeps
    <3> QED
      BY <3>1, <3>2 DEF Opened, Alone, TypeOK
  <2>6. ASSUME NEW r \in Reviewers, Ask(r)
        PROVE  Kept
    <3>1. Asked(r)
      BY <2>6, AskShape
    <3>2. Steady'
      BY <3>1, AskKeeps
    <3> QED
      BY <3>1, <3>2 DEF Asked, Alone, TypeOK
  <2>7. ASSUME NEW r \in Reviewers, Moving(r)
        PROVE  Kept
    <3>1. Moved(r)
      BY <2>7, MoveShape
    <3>2. Steady'
      BY <3>1, MoveKeeps DEF Moved, Alone
    <3>3. Window(r) \in Windows
      BY <3>1 DEF Moved, Steady, HasWindow, Stage, Working
    <3>4. chapter' \subseteq Windows
      BY <2>7, <3>3 DEF Moving, RecordChapter, Reject, Prune, Record, Resolve, Update, TypeOK, tables
    <3> QED
      BY <3>1, <3>2, <3>4 DEF Moved, Alone, TypeOK
  <2>8. ASSUME NEW r \in Reviewers, Ending(r)
        PROVE  Kept
    <3>1. Ended(r)
      BY <2>8, EndShape
    <3>2. Steady'
      BY <3>1, EndKeeps DEF Ended, Alone
    <3>3. lost' \subseteq Windows
      BY <2>8 DEF Ending, Decline, Fail, Lose, Conclude, history, TypeOK, Steady, HasWindow
    <3>4. cursor' \in [Sessions -> 0..MaxRows]
      <4>1. CASE cursor' = cursor
        BY <4>1 DEF TypeOK
      <4>2. CASE Conclude(r)
        <5>1. review[r].session \in Sessions /\ Window(r).last \in 0..MaxRows
          <6>1. Window(r) \in Windows
            BY <4>2 DEF Conclude, Steady, HasWindow
          <6>2. review[r].session \in Sessions
            BY DEF TypeOK, Review
          <6>3. Window(r).last \in 1..MaxRows
            BY <6>1, WindowType
          <6> QED
            BY <6>2, <6>3
        <5>2. \/ cursor' = cursor
              \/ cursor' = [cursor EXCEPT ![review[r].session] =
                              IF @ < Window(r).last THEN Window(r).last ELSE @]
          BY <4>2 DEF Conclude
        <5> QED
          BY <5>1, <5>2 DEF TypeOK
      <4> QED
        BY <2>8, <4>1, <4>2 DEF Ending, Decline, Fail, Lose, tables
    <3> QED
      BY <3>1, <3>2, <3>3, <3>4 DEF Ended, Alone, TypeOK
  <2>9. ASSUME NEW f \in Facts, Remember(f) \/ CloseItem(f) \/ Lapse(f)
        PROVE  Kept
    BY <2>1, <2>9 DEF Remember, CloseItem, Lapse, history
  <2>10. Kept
    BY <2>2, <2>3, <2>4, <2>5, <2>6, <2>7, <2>8, <2>9, StepKinds
  <2> QED
    BY <2>10, OthersTyped, ItemsTyped DEF TypeOK
<1> QED
  BY <1>1, <1>2, PTL DEF Spec

(* No window is with two reviews at once.                                  *)
THEOREM Unshared == Spec => []OneReviewPerWindow
<1>1. TypeInv => OneReviewPerWindow
  BY DEF TypeInv, Steady
<1> QED
  BY <1>1, TypeCorrect, PTL

----------------------------------------------------------------------------
(* A row that says a review is under way has one, or lost it.              *)
THEOREM OpenRunsHaveReviews == Spec => []OpenRunHasReview
<1>1. Init => OpenRunHasReview
  BY DEF Init, OpenRunHasReview, NoRun
<1>2. TypeInv /\ OpenRunHasReview /\ [Next]_vars => OpenRunHasReview'
  <2> SUFFICES ASSUME TypeInv, OpenRunHasReview, [Next]_vars
               PROVE  OpenRunHasReview'
    OBVIOUS
  <2>1. ASSUME UNCHANGED <<run, review, lost>>
        PROVE  OpenRunHasReview'
    BY <2>1 DEF OpenRunHasReview
  <2>2. CASE Say \/ Tick \/ UNCHANGED vars
    BY <2>1, <2>2 DEF Say, Tick, vars, tables, history
  <2>3. CASE Restart
    <3>1. Restarted
      BY <2>3, RestartShape DEF TypeInv
    <3> QED
      BY <3>1 DEF Restarted, OpenRunHasReview
  <2>4. ASSUME NEW r \in Reviewers, Beginning(r)
        PROVE  OpenRunHasReview'
    <3>1. Begun(r)
      BY <2>4, BeginShape DEF TypeInv
    <3> QED
      BY <3>1 DEF Begun, Alone, Stage, OpenRunHasReview
  <2>5. ASSUME NEW r \in Reviewers, Prepare(r)
        PROVE  OpenRunHasReview'
    <3>1. PICK w \in Windows : Opened(r, w)
      BY <2>5, PrepareShape DEF TypeInv
    <3> QED
      BY <3>1 DEF Opened, Alone, Stage, OpenRunHasReview
  <2>6. ASSUME NEW r \in Reviewers, Ask(r)
        PROVE  OpenRunHasReview'
    <3>1. Asked(r)
      BY <2>6, AskShape
    <3> QED
      BY <3>1 DEF Asked, Alone, Stage, OpenRunHasReview
  <2>7. ASSUME NEW r \in Reviewers, Moving(r)
        PROVE  OpenRunHasReview'
    <3>1. Moved(r)
      BY <2>7, MoveShape DEF TypeInv
    <3> QED
      BY <3>1 DEF Moved, Alone, Stage, Working, OpenRunHasReview
  <2>8. ASSUME NEW r \in Reviewers, Ending(r)
        PROVE  OpenRunHasReview'
    <3>1. Ended(r)
      BY <2>8, EndShape
    <3> QED
      BY <3>1 DEF Ended, Alone, OpenRunHasReview
  <2>9. ASSUME NEW f \in Facts, Remember(f) \/ CloseItem(f) \/ Lapse(f)
        PROVE  OpenRunHasReview'
    BY <2>1, <2>9 DEF Remember, CloseItem, Lapse, history
  <2> QED
    BY <2>2, <2>3, <2>4, <2>5, <2>6, <2>7, <2>8, <2>9, StepKinds
<1> QED
  BY <1>1, <1>2, TypeCorrect, PTL DEF Spec

----------------------------------------------------------------------------
(* What a step may do to the items.                                        *)
ItemKept(f) == item'[f] = item[f]
ItemGone(f) == item'[f].state \in {"none", "closed"}

(* What a review writes is either still a foreground's, or names a window  *)
(* of a review that has stored its chapter.                                *)
LEMMA ItemStep ==
  ASSUME TypeInv, Grounded, [Next]_vars
  PROVE  \A f \in Facts : \/ ItemKept(f) \/ ItemGone(f)
                          \/ item'[f].by = "foreground"
                          \/ item'[f].from \in chapter
<1> USE DEF TypeInv
<1> DEFINE Goal(f) == \/ ItemKept(f) \/ ItemGone(f)
                      \/ item'[f].by = "foreground" \/ item'[f].from \in chapter
<1>1. ASSUME item' = item
      PROVE  \A f \in Facts : Goal(f)
  BY <1>1 DEF ItemKept
<1>2. ASSUME NEW g \in Facts, NEW r \in Reviewers,
             Record(r, g) \/ Resolve(r, g) \/ Update(r, g)
      PROVE  \A f \in Facts : Goal(f)
  <2>1. Window(r) \in chapter
    BY <1>2 DEF Grounded, Record, Resolve, Update, Operation, Stage
  <2>2. item[g] \in Item
    BY DEF TypeOK
  <2>3. CASE Record(r, g)
    BY <2>1, <2>3 DEF Record, Recorded, TypeOK, ItemKept
  <2>4. CASE Resolve(r, g)
    BY <2>2, <2>4 DEF Resolve, TypeOK, Item, ItemKept, ItemGone
  <2>5. CASE Update(r, g)
    <3> DEFINE from == IF item[g].by = "background" THEN Window(r) ELSE item[g].from
    <3>1. item' = [item EXCEPT ![g].from = from]
      BY <2>5 DEF Update
    <3>2. item[g].by = "foreground" \/ from \in chapter
      BY <2>1, <2>2 DEF Item
    <3> HIDE DEF from
    <3> QED
      BY <2>2, <3>1, <3>2 DEF TypeOK, Item, ItemKept
  <2> QED
    BY <1>2, <2>3, <2>4, <2>5
<1>3. ASSUME NEW r \in Reviewers, Prune(r)
      PROVE  \A f \in Facts : Goal(f)
  BY <1>3 DEF Prune, NoItem, ItemKept, ItemGone
<1>4. ASSUME NEW g \in Facts, Remember(g) \/ CloseItem(g) \/ Lapse(g)
      PROVE  \A f \in Facts : Goal(f)
  <2>1. item[g] \in Item
    BY DEF TypeOK
  <2>2. CASE Remember(g)
    BY <2>2 DEF Remember, Recorded, TypeOK, ItemKept
  <2>3. CASE CloseItem(g) \/ Lapse(g)
    BY <2>1, <2>3 DEF CloseItem, Lapse, NoItem, TypeOK, Item, ItemKept, ItemGone
  <2> QED
    BY <1>4, <2>2, <2>3
<1>5. ASSUME NEW r \in Reviewers, Beginning(r) \/ Prepare(r) \/ Ask(r) \/ Ending(r)
                                  \/ RecordChapter(r) \/ Reject(r)
      PROVE  item' = item
  BY <1>5 DEF Beginning, ReviewAfterTurn, NewSession, Prepare, Ask, Ending, Decline, Fail, Lose,
              Conclude, RecordChapter, Reject, tables
<1>6. ASSUME Say \/ Tick \/ UNCHANGED vars
      PROVE  item' = item
  BY <1>6 DEF Say, Tick, vars, tables
<1>7. ASSUME Restart
      PROVE  item' = item
  BY <1>7, Zenon DEF Restart
<1> QED
  BY <1>1, <1>2, <1>3, <1>4, <1>5, <1>6, <1>7, StepKinds DEF Moving

(* Chapters are never taken away.                                          *)
LEMMA ChaptersStay ==
  ASSUME [Next]_vars
  PROVE  chapter \subseteq chapter'
<1>1. ASSUME NEW r \in Reviewers, Beginning(r) \/ Prepare(r) \/ Ask(r) \/ Ending(r)
      PROVE  chapter' = chapter
  BY <1>1 DEF Beginning, ReviewAfterTurn, NewSession, Prepare, Ask, Ending, Decline, Fail, Lose,
              Conclude, tables
<1>2. ASSUME NEW r \in Reviewers, Moving(r)
      PROVE  chapter \subseteq chapter'
  BY <1>2 DEF Moving, RecordChapter, Reject, Prune, Record, Resolve, Update, tables
<1>3. ASSUME Say \/ Tick \/ UNCHANGED vars
      PROVE  chapter' = chapter
  BY <1>3 DEF Say, Tick, vars, tables
<1>4. ASSUME Restart
      PROVE  chapter' = chapter
  BY <1>4, Zenon DEF Restart
<1>5. ASSUME NEW f \in Facts, Remember(f) \/ CloseItem(f) \/ Lapse(f)
      PROVE  chapter' = chapter
  BY <1>5 DEF Remember, CloseItem, Lapse
<1> QED
  BY <1>1, <1>2, <1>3, <1>4, <1>5, StepKinds

(* Everything a review left behind has its chapter: a review writes items  *)
(* and completes its row only after it has stored the chapter.             *)
THEOREM GroundedAlways == Spec => []Grounded
<1>1. Init => Grounded
  BY DEF Init, Grounded, MemoriesHaveChapter, ByReviews, Completed, NoRun, NoItem, Resting, Stage
<1>2. TypeInv /\ Grounded /\ [Next]_vars => Grounded'
  <2> SUFFICES ASSUME TypeInv, Grounded, [Next]_vars
               PROVE  Grounded'
    OBVIOUS
  <2>1. chapter \subseteq chapter'
    BY ChaptersStay
  <2>2. \A f \in ByReviews' : item'[f].from \in chapter'
    BY <2>1, ItemStep DEF ItemKept, ItemGone, ByReviews, Grounded, MemoriesHaveChapter
  <2> DEFINE Rest == /\ \A r \in Reviewers : Stage(r)' \in {"applying", "pruned"} => Window(r)' \in chapter'
                     /\ Completed' \subseteq chapter'
  <2>3. ASSUME UNCHANGED <<review, run>>
        PROVE  Rest
    BY <2>1, <2>3 DEF Grounded, Stage, MemoriesHaveChapter, Completed
  <2>4. ASSUME Say \/ Tick \/ UNCHANGED vars
        PROVE  Rest
    BY <2>3, <2>4 DEF Say, Tick, vars, tables
  <2>5. ASSUME Restart
        PROVE  Rest
    <3>1. Restarted
      BY <2>5, RestartShape DEF TypeInv
    <3> QED
      BY <2>1, <3>1 DEF Restarted, Grounded, Stage, MemoriesHaveChapter, Completed
  <2>6. ASSUME NEW r \in Reviewers, Beginning(r)
        PROVE  Rest
    <3>1. Begun(r)
      BY <2>6, BeginShape DEF TypeInv
    <3> QED
      BY <2>1, <3>1 DEF Begun, Alone, Grounded, Stage, MemoriesHaveChapter, Completed
  <2>7. ASSUME NEW r \in Reviewers, Prepare(r)
        PROVE  Rest
    <3>1. PICK w \in Windows : Opened(r, w)
      BY <2>7, PrepareShape DEF TypeInv
    <3> QED
      BY <2>1, <3>1 DEF Opened, Alone, Grounded, Stage, MemoriesHaveChapter, Completed
  <2>8. ASSUME NEW r \in Reviewers, Ask(r)
        PROVE  Rest
    <3>1. Asked(r)
      BY <2>8, AskShape
    <3> QED
      BY <2>1, <3>1 DEF Asked, Alone, Grounded, Stage, MemoriesHaveChapter, Completed
  <2>9. ASSUME NEW r \in Reviewers, Moving(r)
        PROVE  Rest
    <3>1. Moved(r)
      BY <2>9, MoveShape DEF TypeInv
    <3>2. Window(r) \in chapter'
      <4>1. CASE RecordChapter(r)
        BY <4>1 DEF RecordChapter
      <4>2. CASE Stage(r) = "applying"
        BY <2>1, <4>2 DEF Grounded
      <4> QED
        BY <2>9, <4>1, <4>2 DEF Moving, Reject, Prune, Record, Resolve, Update, Operation, Stage
    <3> QED
      BY <2>1, <3>1, <3>2 DEF Moved, Alone, Grounded, Stage, MemoriesHaveChapter, Completed
  <2>10. ASSUME NEW r \in Reviewers, Ending(r)
         PROVE  Rest
    <3>1. Ended(r)
      BY <2>10, EndShape
    <3>2. \A q \in Reviewers : Stage(q)' \in {"applying", "pruned"} => Window(q)' \in chapter'
      BY <2>1, <3>1 DEF Ended, Alone, Grounded, Stage
    <3>3. ~Busy(r) \/ run' = run \/ Window(r) \in chapter \/ run'[Window(r)].status = "failed"
      <4>1. CASE Conclude(r)
        BY <4>1 DEF Conclude, Grounded, Stage
      <4>2. CASE Fail(r)
        <5>1. Window(r) \in Windows
          BY <4>2 DEF Fail, TypeInv, Steady, HasWindow
        <5> QED
          BY <4>2, <5>1 DEF Fail, TypeInv, TypeOK, Run
      <4>3. CASE Lose(r) \/ Decline(r)
        BY <4>3 DEF Lose, Decline, tables
      <4> QED
        BY <2>10, <4>1, <4>2, <4>3 DEF Ending
    <3>4. Completed' \subseteq chapter'
      BY <2>1, <3>1, <3>3 DEF Ended, Grounded, MemoriesHaveChapter, Completed
    <3> QED
      BY <3>2, <3>4
  <2>11. ASSUME NEW f \in Facts, Remember(f) \/ CloseItem(f) \/ Lapse(f)
         PROVE  Rest
    BY <2>3, <2>11 DEF Remember, CloseItem, Lapse, history
  <2>12. Rest
    BY <2>4, <2>5, <2>6, <2>7, <2>8, <2>9, <2>10, <2>11, StepKinds
  <2> QED
    BY <2>2, <2>12 DEF Grounded, MemoriesHaveChapter
<1> QED
  BY <1>1, <1>2, TypeCorrect, PTL DEF Spec

(* What a review left behind has a chapter that shows where it came from.  *)
THEOREM MemoriesGrounded == Spec => []MemoriesHaveChapter
<1>1. Grounded => MemoriesHaveChapter
  BY DEF Grounded
<1> QED
  BY <1>1, GroundedAlways, PTL

----------------------------------------------------------------------------
(* Only a review that ends moves the cursor on, to the end of the window   *)
(* it completes.                                                           *)
Advanced(r) ==
  /\ Busy(r) /\ run'[Window(r)].status = "completed"
  /\ \A s \in Sessions : \/ cursor'[s] = cursor[s]
                         \/ s = review[r].session /\ cursor'[s] = Window(r).last
  /\ \A s \in Sessions : cursor[s] <= cursor'[s]

LEMMA CursorStep ==
  ASSUME TypeInv, NEW r \in Reviewers, Ending(r)
  PROVE  (cursor' = cursor /\ (Busy(r) => run'[Window(r)].status # "completed" \/ run' = run)) \/ Advanced(r)
<1> USE DEF TypeInv
<1>1. CASE Conclude(r) /\ ~AllRejected(r)
  <2>1. Window(r) \in Windows /\ Busy(r)
    BY <1>1 DEF Conclude, Steady, HasWindow
  <2>2. Window(r).last \in Nat /\ cursor \in [Sessions -> Nat]
    BY <2>1, WindowType, DistillationAssumption DEF TypeOK
  <2>3. run'[Window(r)].status = "completed"
    BY <1>1, <2>1 DEF Conclude, TypeOK, Run
  <2>4. cursor' = [cursor EXCEPT ![review[r].session] = IF @ < Window(r).last THEN Window(r).last ELSE @]
    BY <1>1 DEF Conclude
  <2> QED
    BY <2>1, <2>2, <2>3, <2>4 DEF Advanced
<1>2. CASE Fail(r) \/ (Conclude(r) /\ AllRejected(r))
  <2>1. Window(r) \in Windows /\ run[Window(r)] \in Run
    BY <1>2 DEF Fail, Conclude, Steady, HasWindow, TypeOK
  <2>2. run' = [run EXCEPT ![Window(r)].status = "failed"] /\ cursor' = cursor
    BY <1>2 DEF Fail, Conclude
  <2> QED
    BY <2>1, <2>2 DEF TypeOK, Run
<1>3. CASE Decline(r) \/ Lose(r)
  BY <1>3 DEF Decline, Lose, tables
<1> QED
  BY <1>1, <1>2, <1>3 DEF Ending

(* The steps that leave the transcript, the cursor and the rows of         *)
(* completed windows alone.                                                *)
LEMMA ContiguousStays ==
  ASSUME TypeInv, Contiguous, NEW r \in Reviewers, Alone(r),
         Completed' = Completed, UNCHANGED <<cursor, rows>>,
         review'[r].stage = "idle" \/ review'[r].upto <= Len(rows),
         review'[r].stage \in {"idle", "scheduled"}
           \/ (Busy(r) /\ review'[r].window = Window(r) /\ review'[r].session = review[r].session)
  PROVE  Contiguous'
BY DEF Contiguous, Alone, Stage

(* Cursors and windows lie within the transcript, and what a session has   *)
(* before the window of a busy review lies behind its cursor.              *)
THEOREM ContiguousAlways == Spec => []Contiguous
<1>1. Init => Contiguous
  BY DEF Init, Contiguous, Completed, NoRun, Resting, Stage
<1>2. TypeInv /\ Contiguous /\ [Next]_vars => Contiguous'
  <2> SUFFICES ASSUME TypeInv, Contiguous, [Next]_vars
               PROVE  Contiguous'
    OBVIOUS
  <2> USE DEF TypeInv
  <2>1. ASSUME UNCHANGED <<review, run, cursor, rows>>
        PROVE  Contiguous'
    BY <2>1 DEF Contiguous, Stage, Completed
  <2>2. CASE Tick \/ UNCHANGED vars
    BY <2>1, <2>2 DEF Tick, vars, tables, talk
  <2>3. CASE Say
    <3>1. /\ Len(rows) \in Nat /\ rows' = Append(rows, session) /\ Len(rows') = Len(rows) + 1
          /\ \A i \in 1..Len(rows) : rows'[i] = rows[i]
          /\ DOMAIN rows' = 1..Len(rows) + 1
      BY <2>3 DEF Say, TypeOK
    <3>2. UNCHANGED <<review, run, cursor>>
      BY <2>3 DEF Say, tables
    <3>3. \A s \in Sessions : cursor'[s] <= Len(rows')
      BY <3>1, <3>2, DistillationAssumption DEF Contiguous, TypeOK
    <3>4. \A r \in Reviewers : Stage(r)' # "idle" => review'[r].upto <= Len(rows')
      BY <3>1, <3>2, DistillationAssumption DEF Contiguous, Stage, TypeOK, Review
    <3>5. ASSUME NEW r \in Reviewers, Busy(r)
          PROVE  /\ Window(r).last <= Len(rows')
                 /\ rows'[Window(r).first] = review[r].session
                 /\ \A i \in DOMAIN rows' : rows'[i] = review[r].session /\ i < Window(r).first
                                            => i <= cursor[review[r].session]
      <4>1. Window(r) \in Windows
        BY <3>5 DEF Steady, HasWindow
      <4>2. /\ Window(r).first \in 1..Len(rows) /\ Window(r).first <= Len(rows)
            /\ Window(r).last \in Nat /\ Window(r).last <= Len(rows)
        BY <3>1, <3>5, <4>1, WindowType DEF Contiguous
      <4> QED
        BY <3>1, <3>5, <4>2, TranscriptType DEF Contiguous
    <3>6. \A w \in Completed : w.first <= Len(rows')
      BY <3>1, WindowType DEF Contiguous, Completed
    <3> QED
      BY <3>2, <3>3, <3>4, <3>5, <3>6 DEF Contiguous, Completed
  <2>4. CASE Restart
    <3>1. Restarted
      BY <2>4, RestartShape
    <3>2. Completed' \subseteq Completed
      BY <3>1 DEF Restarted, Completed
    <3>3. \A s \in Sessions : cursor'[s] <= Len(rows)
      BY <3>1, TranscriptType DEF Restarted, Contiguous
    <3> QED
      BY <3>1, <3>2, <3>3 DEF Restarted, Contiguous, Stage
  <2>5. ASSUME NEW r \in Reviewers, Beginning(r)
        PROVE  Contiguous'
    <3>1. Begun(r)
      BY <2>5, BeginShape
    <3>2. Completed' = Completed /\ Len(rows) <= Len(rows)
      BY <3>1, TranscriptType DEF Begun, Completed
    <3> QED
      BY <3>1, <3>2, ContiguousStays DEF Begun
  <2>6. ASSUME NEW r \in Reviewers, Prepare(r)
        PROVE  Contiguous'
    <3>1. PICK w \in Windows : Opened(r, w)
      BY <2>6, PrepareShape
    <3>2. Completed' = Completed
      BY <3>1 DEF Opened, Completed
    <3>3. review[r].upto <= Len(rows) /\ review[r].upto \in Nat /\ review[r].session \in Sessions
      BY <3>1, DistillationAssumption DEF Opened, Stage, Contiguous, TypeOK, Review
    <3>4. /\ w.first \in 1..review[r].upto /\ w.last \in 1..review[r].upto
          /\ rows[w.first] = review[r].session
          /\ \A i \in 1..review[r].upto :
               rows[i] = review[r].session /\ i > cursor[review[r].session] => w.first <= i
      BY <3>1 DEF Opened, IsBatch, Pending
    <3>5. /\ w.last <= Len(rows)
          /\ \A i \in DOMAIN rows : rows[i] = review[r].session /\ i < w.first
                                    => i <= cursor[review[r].session]
      <4>1. cursor[review[r].session] \in Nat /\ DOMAIN rows = 1..Len(rows) /\ Len(rows) \in Nat
        BY <3>3, TranscriptType, DistillationAssumption DEF TypeOK
      <4>2. w.last <= Len(rows)
        BY <3>3, <3>4, <4>1
      <4>3. ASSUME NEW i \in DOMAIN rows, rows[i] = review[r].session, i < w.first
            PROVE  i <= cursor[review[r].session]
        <5>1. i \in Nat /\ i \in 1..review[r].upto /\ ~(w.first <= i)
          BY <3>3, <3>4, <4>1, <4>3
        <5> QED
          BY <3>4, <4>1, <4>3, <5>1
      <4> QED
        BY <4>2, <4>3
    <3>6. /\ review' \in [Reviewers -> Review] /\ \A q \in Reviewers \ {r} : review'[q] = review[q]
          /\ review'[r].stage = "prepared" /\ review'[r].window = w
          /\ review'[r].session = review[r].session /\ review'[r].upto = review[r].upto
          /\ UNCHANGED <<cursor, rows>>
      BY <3>1 DEF Opened, Alone
    <3> QED
      BY <3>2, <3>3, <3>4, <3>5, <3>6 DEF Contiguous, Stage
  <2>7. ASSUME NEW r \in Reviewers, Ask(r)
        PROVE  Contiguous'
    <3>1. Asked(r)
      BY <2>7, AskShape
    <3>2. Completed' = Completed
      BY <3>1 DEF Asked, Completed, Steady, MayBeTried
    <3>3. review[r].upto <= Len(rows)
      BY <3>1 DEF Asked, Contiguous, Stage
    <3> QED
      BY <3>1, <3>2, <3>3, ContiguousStays DEF Asked, Stage
  <2>8. ASSUME NEW r \in Reviewers, Moving(r)
        PROVE  Contiguous'
    <3>1. Moved(r)
      BY <2>8, MoveShape
    <3>2. Completed' = Completed
      BY <3>1 DEF Moved, Completed
    <3>3. review[r].upto <= Len(rows)
      BY <3>1 DEF Moved, Contiguous, Stage, Working
    <3> QED
      BY <3>1, <3>2, <3>3, ContiguousStays DEF Moved, Stage, Working
  <2>9. ASSUME NEW r \in Reviewers, Ending(r)
        PROVE  Contiguous'
    <3>1. Ended(r)
      BY <2>9, EndShape
    <3>2. Busy(r) => Window(r) \in Windows /\ Window(r).last <= Len(rows)
      BY DEF Steady, HasWindow, Contiguous
    <3>3. Busy(r) => Window(r).first <= Len(rows)
      BY <3>2, WindowType, TranscriptType
    <3>4. \A w \in Completed' : w.first <= Len(rows)
      BY <3>1, <3>3 DEF Ended, Completed, Contiguous
    <3>5. \A s \in Sessions : /\ cursor[s] <= cursor'[s] /\ cursor'[s] <= Len(rows)
                              /\ cursor[s] \in Nat /\ cursor'[s] \in Nat
      <4>1. \A s \in Sessions : cursor[s] \in Nat /\ cursor[s] <= Len(rows)
        BY DistillationAssumption DEF TypeOK, Contiguous
      <4>2. CASE cursor' = cursor
        BY <4>1, <4>2
      <4>3. CASE Advanced(r)
        <5>1. Window(r).last \in Nat /\ Window(r).last <= Len(rows)
          BY <3>2, <4>3, WindowType DEF Advanced
        <5> QED
          BY <4>1, <4>3, <5>1 DEF Advanced
      <4> QED
        BY <2>9, <4>2, <4>3, CursorStep
    <3>6. \A q \in Reviewers : review[q].session \in Sessions
      BY DEF TypeOK, Review
    <3>7. /\ rows' = rows /\ review' \in [Reviewers -> Review]
          /\ review'[r].stage = "idle"
          /\ \A q \in Reviewers \ {r} : review'[q] = review[q]
      BY <3>1 DEF Ended, Alone
    <3>8. ASSUME NEW q \in Reviewers, Busy(q)'
          PROVE  /\ Window(q)'.last <= Len(rows)
                 /\ rows[Window(q)'.first] = review'[q].session
                 /\ \A i \in DOMAIN rows : rows[i] = review'[q].session /\ i < Window(q)'.first
                                           => i <= cursor'[review'[q].session]
      <4>1. Busy(q) /\ review'[q] = review[q] /\ q # r
        BY <3>7, <3>8
      <4>2. \A i \in DOMAIN rows : rows[i] = review[q].session /\ i < Window(q).first
                                   => i <= cursor[review[q].session]
        BY <4>1 DEF Contiguous
      <4>3. \A i \in DOMAIN rows : i \in Nat
        BY TranscriptType
      <4> QED
        BY <4>1, <4>2, <4>3, <3>5, <3>6 DEF Contiguous
    <3>9. \A q \in Reviewers : Stage(q)' # "idle" => review'[q].upto <= Len(rows)
      BY <3>7 DEF Stage, Contiguous
    <3> QED
      BY <3>4, <3>5, <3>7, <3>8, <3>9 DEF Contiguous
  <2>10. ASSUME NEW f \in Facts, Remember(f) \/ CloseItem(f) \/ Lapse(f)
         PROVE  Contiguous'
    BY <2>1, <2>10 DEF Remember, CloseItem, Lapse, talk
  <2> QED
    BY <2>2, <2>3, <2>4, <2>5, <2>6, <2>7, <2>8, <2>9, <2>10, StepKinds
<1> QED
  BY <1>1, <1>2, TypeCorrect, PTL DEF Spec

(* What the cursor has passed was reviewed: the window a review completes  *)
(* begins right behind the cursor, so the cursor skips no message.         *)
THEOREM CursorReviewed == Spec => []CursorCovered
<1>1. Init => CursorCovered
  BY DEF Init, CursorCovered
<1>2. TypeInv /\ Contiguous /\ CursorCovered /\ [Next]_vars => CursorCovered'
  <2> SUFFICES ASSUME TypeInv, Contiguous, CursorCovered, [Next]_vars
               PROVE  CursorCovered'
    OBVIOUS
  <2> USE DEF TypeInv
  <2>1. ASSUME Completed \subseteq Completed', UNCHANGED <<cursor, rows>>
        PROVE  CursorCovered'
    BY <2>1 DEF CursorCovered, RowsOf
  <2>2. CASE Tick \/ UNCHANGED vars
    BY <2>1, <2>2 DEF Tick, vars, tables, talk, Completed
  <2>3. CASE Say
    <3>1. /\ Len(rows) \in Nat /\ rows' = Append(rows, session) /\ Len(rows') = Len(rows) + 1
          /\ \A i \in 1..Len(rows) : rows'[i] = rows[i]
          /\ DOMAIN rows' = 1..Len(rows) + 1 /\ DOMAIN rows = 1..Len(rows)
      BY <2>3 DEF Say, TypeOK
    <3>2. cursor' = cursor /\ Completed' = Completed
      BY <2>3 DEF Say, tables, Completed
    <3>3. ASSUME NEW w \in Completed PROVE RowsOf(w) \subseteq RowsOf(w)'
      <4>1. w.first \in 1..Len(rows)
        BY <3>1, <3>3, WindowType DEF Contiguous, Completed
      <4> QED
        BY <3>1, <4>1 DEF RowsOf
    <3>4. ASSUME NEW s \in Sessions, NEW i \in DOMAIN rows', rows'[i] = s, i <= cursor[s]
          PROVE  i \in DOMAIN rows /\ rows[i] = s
      <4>1. cursor[s] \in Nat /\ cursor[s] <= Len(rows)
        BY DistillationAssumption DEF Contiguous, TypeOK
      <4> QED
        BY <3>1, <3>4, <4>1
    <3> QED
      BY <3>2, <3>3, <3>4 DEF CursorCovered
  <2>4. CASE Restart
    <3>1. Restarted
      BY <2>4, RestartShape
    <3>2. CASE cursor' = [s \in Sessions |-> 0]
      BY <3>1, <3>2, TranscriptType DEF Restarted, CursorCovered
    <3>3. CASE cursor' # [s \in Sessions |-> 0]
      BY <2>1, <3>1, <3>3 DEF Restarted, Completed
    <3> QED
      BY <3>2, <3>3
  <2>5. ASSUME NEW r \in Reviewers, Beginning(r)
        PROVE  CursorCovered'
    <3>1. Begun(r)
      BY <2>5, BeginShape
    <3> QED
      BY <2>1, <3>1 DEF Begun, Completed
  <2>6. ASSUME NEW r \in Reviewers, Prepare(r)
        PROVE  CursorCovered'
    <3>1. PICK w \in Windows : Opened(r, w)
      BY <2>6, PrepareShape
    <3> QED
      BY <2>1, <3>1 DEF Opened, Completed
  <2>7. ASSUME NEW r \in Reviewers, Ask(r)
        PROVE  CursorCovered'
    <3>1. Asked(r)
      BY <2>7, AskShape
    <3> QED
      BY <2>1, <3>1 DEF Asked, Completed, Steady, MayBeTried
  <2>8. ASSUME NEW r \in Reviewers, Moving(r)
        PROVE  CursorCovered'
    <3>1. Moved(r)
      BY <2>8, MoveShape
    <3> QED
      BY <2>1, <3>1 DEF Moved, Completed
  <2>9. ASSUME NEW r \in Reviewers, Ending(r)
        PROVE  CursorCovered'
    <3>1. Ended(r)
      BY <2>9, EndShape
    <3>2. Completed \subseteq Completed'
      <4>1. Busy(r) => run[Window(r)].status # "completed"
        BY <2>9 DEF Ending, Decline, Steady, MayBeTried, Underway, Stage, Working, TypeOK, Review, Stages
      <4> QED
        BY <3>1, <4>1 DEF Ended, Completed
    <3>3. CASE cursor' = cursor
      BY <2>1, <3>1, <3>2, <3>3 DEF Ended
    <3>4. CASE Advanced(r)
      <4> DEFINE w == Window(r)
      <4>1. w \in Completed' /\ w \in Windows
        BY <3>1, <3>4 DEF Advanced, Ended, Completed, Steady, HasWindow
      <4>2. w.first \in Nat /\ w.last \in Nat
        BY <4>1, WindowType
      <4>3. ASSUME NEW s \in Sessions, NEW i \in DOMAIN rows, rows[i] = s, i <= cursor'[s]
            PROVE  \E v \in Completed' : i \in RowsOf(v)
        <5>1. i \in Nat /\ cursor[s] \in Nat
          BY TranscriptType, DistillationAssumption DEF TypeOK
        <5>2. CASE i <= cursor[s]
          BY <3>2, <4>3, <5>2 DEF CursorCovered
        <5>3. CASE ~(i <= cursor[s])
          <6>1. s = review[r].session /\ i <= w.last
            BY <3>4, <4>3, <5>3 DEF Advanced
          <6>2. rows[w.first] = s /\ ~(i < w.first)
            BY <3>4, <4>3, <5>3, <6>1 DEF Advanced, Contiguous
          <6>3. i \in w.first..w.last
            BY <4>2, <5>1, <6>1, <6>2
          <6>4. i \in RowsOf(w)
            BY <4>3, <6>2, <6>3 DEF RowsOf
          <6> QED
            BY <4>1, <6>4
        <5> QED
          BY <5>2, <5>3
      <4>4. rows' = rows
        BY <3>1 DEF Ended
      <4> QED
        BY <4>3, <4>4 DEF CursorCovered, RowsOf
    <3> QED
      BY <2>9, <3>3, <3>4, CursorStep
  <2>10. ASSUME NEW f \in Facts, Remember(f) \/ CloseItem(f) \/ Lapse(f)
         PROVE  CursorCovered'
    BY <2>1, <2>10 DEF Remember, CloseItem, Lapse, talk, Completed
  <2> QED
    BY <2>2, <2>3, <2>4, <2>5, <2>6, <2>7, <2>8, <2>9, <2>10, StepKinds
<1> QED
  BY <1>1, <1>2, TypeCorrect, ContiguousAlways, PTL DEF Spec

----------------------------------------------------------------------------
(* A step of a review leaves what the foreground recorded: it merges with  *)
(* it, closes it, gives it evidence, and prunes only items of reviews.     *)
THEOREM ForegroundSafe == Spec => ForegroundKept
<1> DEFINE Kept(f) == item[f].state = "active" /\ item[f].by = "foreground"
                      => item'[f].by = "foreground" /\ item'[f].state # "none"
<1>1. TypeInv /\ [Next]_vars =>
        [\A f \in Facts, r \in Reviewers :
           /\ item[f].state = "active" /\ item[f].by = "foreground"
           /\ review'[r] # review[r]
           => item'[f].by = "foreground" /\ item'[f].state # "none"]_vars
  <2> SUFFICES ASSUME TypeInv, [Next]_vars, NEW q \in Reviewers, review'[q] # review[q],
                      NEW f \in Facts
               PROVE  Kept(f)
    BY Zenon
  <2> USE DEF TypeInv
  <2>1. ASSUME item' = item PROVE Kept(f)
    BY <2>1
  <2>2. item[f] \in Item
    BY DEF TypeOK
  <2>3. ASSUME NEW r \in Reviewers, NEW g \in Facts, Record(r, g)
        PROVE  Kept(f)
    BY <2>3 DEF Record, Recorded, TypeOK
  <2>4. ASSUME NEW r \in Reviewers, NEW g \in Facts, Resolve(r, g)
        PROVE  Kept(f)
    BY <2>2, <2>4 DEF Resolve, TypeOK, Item
  <2>5. ASSUME NEW r \in Reviewers, NEW g \in Facts, Update(r, g)
        PROVE  Kept(f)
    <3> DEFINE from == IF item[g].by = "background" THEN Window(r) ELSE item[g].from
    <3>1. item' = [item EXCEPT ![g].from = from]
      BY <2>5 DEF Update
    <3> HIDE DEF from
    <3> QED
      BY <2>2, <3>1 DEF TypeOK, Item
  <2>6. ASSUME NEW r \in Reviewers, Prune(r)
        PROVE  Kept(f)
    BY <2>6 DEF Prune, ByReviews
  <2>7. ASSUME NEW r \in Reviewers, Beginning(r) \/ Prepare(r) \/ Ask(r) \/ Ending(r)
                                    \/ RecordChapter(r) \/ Reject(r)
        PROVE  item' = item
    BY <2>7 DEF Beginning, ReviewAfterTurn, NewSession, Prepare, Ask, Ending, Decline, Fail, Lose,
                Conclude, RecordChapter, Reject, tables
  <2>8. ASSUME Restart
        PROVE  item' = item
    BY <2>8, Zenon DEF Restart
  <2>9. ~(Say \/ Tick \/ UNCHANGED vars)
    BY DEF Say, Tick, vars
  <2>10. ASSUME NEW g \in Facts
         PROVE  ~(Remember(g) \/ CloseItem(g) \/ Lapse(g))
    BY DEF Remember, CloseItem, Lapse
  <2> QED
    BY <2>1, <2>3, <2>4, <2>5, <2>6, <2>7, <2>8, <2>9, <2>10, StepKinds DEF Moving
<1> QED
  BY <1>1, TypeCorrect, PTL DEF Spec, ForegroundKept

----------------------------------------------------------------------------
(* The calls of a day.  A call is counted with the attempt that makes it,  *)
(* and a window is opened below the limit only.                            *)
Dated == {w \in Windows : run[w].status # "none" /\ Today(run[w].created)}

Budgeted ==
  \/ forgiven
  \/ /\ calls <= DailyRuns /\ calls <= MaxDailyRuns
     /\ \A r \in Reviewers : Stage(r) = "prepared" => calls < MaxDailyRuns

(* There are finitely many windows.                                       *)
LEMMA WindowsFinite == IsFiniteSet(Windows)
<1>1. IsFiniteSet(Rows)
  BY FS_Interval, DistillationAssumption DEF Rows
<1>2. IsFiniteSet(Rows \X Rows)
  BY <1>1, FS_Product
<1> DEFINE name == [p \in Rows \X Rows |-> [first |-> p[1], last |-> p[2]]]
<1>3. name \in Surjection(Rows \X Rows, [first: Rows, last: Rows])
  <2>1. name \in [Rows \X Rows -> [first: Rows, last: Rows]]
    OBVIOUS
  <2>2. ASSUME NEW w \in [first: Rows, last: Rows]
        PROVE  \E p \in Rows \X Rows : name[p] = w
    <3>1. name[<<w.first, w.last>>] = w /\ <<w.first, w.last>> \in Rows \X Rows
      OBVIOUS
    <3> QED
      BY <3>1
  <2> QED
    BY <2>1, <2>2 DEF Surjection
<1>4. IsFiniteSet([first: Rows, last: Rows])
  BY <1>2, <1>3, FS_Surjection
<1> QED
  BY <1>4, FS_Subset DEF Windows

(* DailyRuns is such a sum, over finitely many rows.                      *)
LEMMA DatedFinite ==
  ASSUME TypeOK
  PROVE  /\ Dated \subseteq Windows /\ IsFiniteSet(Dated)
         /\ \A w \in Windows : run[w].attempts \in Nat
         /\ DailyRuns = Total(run, Dated)
<1>1. Dated \subseteq Windows /\ IsFiniteSet(Dated)
  BY WindowsFinite, FS_Subset DEF Dated
<1>2. \A w \in Windows : run[w].attempts \in Nat
  BY DEF TypeOK, Run
<1>3. DailyRuns = Total(run, Dated)
  BY DEF DailyRuns, Total, Dated
<1> QED
  BY <1>1, <1>2, <1>3

(* So it is in the next state.                                            *)
LEMMA DailyNext == DailyRuns' = Total(run', Dated')
BY DEF DailyRuns, Total, Dated, MapThenSumSet, MapThenFoldSet

(* The rows of a day count the same as long as they have the attempts they *)
(* had, also when a row without any joins them.                            *)
LEMMA SameDayRows ==
  ASSUME TypeOK, Dated' = Dated, \A w \in Dated : run'[w].attempts = run[w].attempts
  PROVE  DailyRuns' = DailyRuns
<1>1. IsFiniteSet(Dated) /\ DailyRuns = Total(run, Dated) /\ DailyRuns' = Total(run', Dated')
  BY DatedFinite, DailyNext
<1>2. Total(run', Dated) = Total(run, Dated)
  BY <1>1, TotalSame
<1> QED
  BY <1>1, <1>2

(* A new row has no attempts yet.                                         *)
LEMMA RowJoins ==
  ASSUME TypeOK, TypeOK', NEW w, w \notin Dated, Dated' = Dated \cup {w},
         run'[w].attempts = 0, \A v \in Dated : run'[v].attempts = run[v].attempts
  PROVE  DailyRuns' = DailyRuns
<1>1. IsFiniteSet(Dated) /\ DailyRuns = Total(run, Dated) /\ DailyRuns' = Total(run', Dated')
  BY DatedFinite, DailyNext
<1>2. Total(run', Dated) = Total(run, Dated)
  BY <1>1, TotalSame
<1>3. w \in Dated' /\ Dated' \ {w} = Dated
  OBVIOUS
<1>4. IsFiniteSet(Dated') /\ \A x \in Dated' : run'[x].attempts \in Nat
  BY WindowsFinite, FS_Subset DEF Dated, TypeOK, Run
<1>5. Total(run', Dated') = run'[w].attempts + Total(run', Dated' \ {w})
  BY <1>3, <1>4, TotalSplit
<1>6. Total(run, Dated) \in Nat
  BY <1>1, DatedFinite, TotalNat
<1> QED
  BY <1>1, <1>2, <1>3, <1>5, <1>6

(* A row that counts one attempt more and is of this day adds at least one.*)
LEMMA OneMore ==
  ASSUME TypeOK, TypeOK', NEW w \in Windows,
         w \in Dated', Dated' \ {w} = Dated \ {w},
         run'[w].attempts = run[w].attempts + 1,
         \A v \in Dated \ {w} : run'[v].attempts = run[v].attempts
  PROVE  DailyRuns' >= DailyRuns + 1 /\ DailyRuns \in Nat /\ DailyRuns' \in Nat
<1>1. /\ IsFiniteSet(Dated) /\ Dated \subseteq Windows
      /\ DailyRuns = Total(run, Dated) /\ DailyRuns' = Total(run', Dated')
  BY DatedFinite, DailyNext
<1>2. IsFiniteSet(Dated') /\ \A x \in Dated' : run'[x].attempts \in Nat
  BY WindowsFinite, FS_Subset DEF Dated, TypeOK, Run
<1>3. \A x \in Windows : run[x].attempts \in Nat
  BY DatedFinite
<1> DEFINE rest == Total(run, Dated \ {w})
<1>4. IsFiniteSet(Dated \ {w}) /\ rest \in Nat
  <2>1. IsFiniteSet(Dated \ {w})
    BY <1>1, FS_Subset
  <2> QED
    BY <1>1, <1>3, <2>1, TotalNat
<1>5. Total(run', Dated') = run'[w].attempts + Total(run', Dated' \ {w})
  BY <1>2, TotalSplit
<1>6. Total(run', Dated' \ {w}) = rest
  <2>1. \A v \in Dated \ {w} : run'[v].attempts = run[v].attempts
    OBVIOUS
  <2>2. Total(run', Dated \ {w}) = rest
    BY <1>4, <2>1, TotalSame
  <2> QED
    BY <2>2
<1>7. CASE w \in Dated
  <2>1. Total(run, Dated) = run[w].attempts + rest
    BY <1>1, <1>3, <1>7, TotalSplit
  <2> HIDE DEF rest
  <2> QED
    BY <1>1, <1>3, <1>4, <1>5, <1>6, <2>1
<1>8. CASE w \notin Dated
  <2>1. Dated \ {w} = Dated
    BY <1>8
  <2>2. Total(run, Dated) = rest
    BY <2>1
  <2> HIDE DEF rest
  <2> QED
    BY <1>1, <1>3, <1>4, <1>5, <1>6, <2>2
<1> QED
  BY <1>7, <1>8

(* A step that neither counts nor prepares keeps the budget.              *)
LEMMA BudgetKept ==
  ASSUME Budgeted, DailyRuns' = DailyRuns, calls' = calls, forgiven => forgiven',
         \A r \in Reviewers : review'[r].stage = "prepared" => Stage(r) = "prepared"
  PROVE  Budgeted'
BY DEF Budgeted, Stage

(* The rows of the day, when rows and clock stay.                          *)
LEMMA DailySame ==
  ASSUME TypeOK, UNCHANGED <<run, now>>
  PROVE  DailyRuns' = DailyRuns
<1>1. Dated' = Dated
  BY DEF Dated, Today
<1> QED
  BY <1>1, DailyNext, DatedFinite

(* The day's calls are counted by the day's rows: what a review has seen   *)
(* free in the budget when it was prepared is still free when it asks.      *)
THEOREM BudgetedAlways == Spec => []Budgeted
<1>1. Init => Budgeted
  <2> SUFFICES ASSUME Init PROVE Budgeted
    OBVIOUS
  <2>1. Dated = {}
    BY DEF Init, Dated, NoRun
  <2>2. DailyRuns = 0
    <3>1. DailyRuns = Total(run, Dated)
      BY DEF DailyRuns, Total, Dated
    <3> QED
      BY <2>1, <3>1, TotalStep, FS_EmptySet
  <2> QED
    BY <2>2, DistillationAssumption DEF Init, Budgeted, Stage, Resting
<1>2. TypeInv /\ TypeInv' /\ Budgeted /\ [Next]_vars => Budgeted'
  <2> SUFFICES ASSUME TypeInv, TypeInv', Budgeted, [Next]_vars
               PROVE  Budgeted'
    OBVIOUS
  <2> USE DEF TypeInv
  <2>1. CASE Say \/ UNCHANGED vars
    BY <2>1, DailySame, BudgetKept DEF Say, vars, talk, tables, history, Stage
  <2>2. CASE Tick
    <3>1. UNCHANGED <<run, review>>
      BY <2>2 DEF Tick, tables
    <3>2. CASE now' \div Day = now \div Day
      <4>1. UNCHANGED <<calls, forgiven>>
        BY <2>2, <3>2, Zenon DEF Tick
      <4>2. \A t : Today(t)' <=> Today(t)
        BY <3>2 DEF Today
      <4>3. Dated' = Dated
        BY <3>1, <3>2 DEF Dated, Today
      <4>4. DailyRuns' = DailyRuns
        BY <3>1, <4>3, DailyNext, DatedFinite
      <4> QED
        BY <3>1, <4>1, <4>4, BudgetKept DEF Stage
    <3>3. CASE now' \div Day # now \div Day
      <4>1. calls' = 0
        BY <2>2, <3>3, Zenon DEF Tick
      <4>2. DailyRuns' \in Nat
        <5>1. IsFiniteSet(Dated') /\ \A x \in Dated' : run'[x].attempts \in Nat
          BY WindowsFinite, FS_Subset DEF Dated, TypeOK, Run
        <5> QED
          BY <5>1, TotalNat, DailyNext
      <4> QED
        BY <4>1, <4>2, DistillationAssumption DEF Budgeted
    <3> QED
      BY <3>2, <3>3
  <2>3. CASE Restart
    <3>1. \A r \in Reviewers : review'[r].stage = "idle"
      BY <2>3, RestartShape DEF Restarted
    <3>2. UNCHANGED <<now, calls>>
      BY <2>3, Zenon DEF Restart, talk
    <3>3. forgiven => forgiven'
      BY <2>3, Zenon DEF Restart
    <3>4. CASE run' = run
      BY <3>1, <3>2, <3>3, <3>4, DailySame, BudgetKept
    <3>5. CASE run' # run
      <4>1. /\ run' = [w \in Windows |-> IF w \in Completed
                        THEN [run[w] EXCEPT !.status = "failed", !.attempts = 0] ELSE run[w]]
            /\ forgiven' = (forgiven \/ \E w \in Completed : Today(run[w].created))
        BY <2>3, <3>5, Zenon DEF Restart
      <4>2. SUFFICES ASSUME ~forgiven' PROVE Budgeted'
        BY DEF Budgeted
      <4>3. \A w \in Completed : w \in Windows /\ ~Today(run[w].created) /\ w \notin Dated
        BY <4>1, <4>2 DEF Dated, Completed
      <4>4. \A w \in Windows \ Completed : run'[w] = run[w]
        BY <4>1
      <4>5. \A w \in Completed : run'[w].created = run[w].created
        <5> TAKE w \in Completed
        <5>1. run'[w] = [run[w] EXCEPT !.status = "failed", !.attempts = 0] /\ run[w] \in Run
          BY <4>1 DEF Completed, TypeOK
        <5> QED
          BY <5>1 DEF Run
      <4>6. Dated' = Dated
        BY <3>2, <4>3, <4>4, <4>5 DEF Dated, Today
      <4>7. \A w \in Dated : run'[w].attempts = run[w].attempts
        BY <4>3, <4>4 DEF Dated
      <4>8. DailyRuns' = DailyRuns
        BY <4>6, <4>7, SameDayRows
      <4> QED
        BY <3>1, <3>2, <3>3, <4>8, BudgetKept
    <3> QED
      BY <3>4, <3>5
  <2>4. ASSUME NEW r \in Reviewers, Beginning(r)
        PROVE  Budgeted'
    <3>1. Begun(r)
      BY <2>4, BeginShape
    <3>2. UNCHANGED <<now, run, calls, forgiven>>
      BY <2>4 DEF Beginning, ReviewAfterTurn, NewSession, talk, tables, history
    <3> QED
      BY <3>1, <3>2, DailySame, BudgetKept DEF Begun, Alone, Stage
  <2>5. ASSUME NEW r \in Reviewers, Prepare(r)
        PROVE  Budgeted'
    <3>1. PICK w \in Windows :
            /\ Due(review[r], w) /\ OpenWindow(w)
            /\ run' = [run EXCEPT ![w] =
                 IF @.status = "none" THEN [status |-> "pending", attempts |-> 0, created |-> now]
                 ELSE [@ EXCEPT !.attempts = IF Exhausted(w) THEN 0 ELSE run[w].attempts]]
            /\ forgiven' = (forgiven \/ (run[w].status = "failed" /\ Exhausted(w)
                                        /\ Today(run[w].created)))
      BY <2>5 DEF Prepare
    <3>2. UNCHANGED <<now, calls>> /\ run[w] \in Run
      BY <2>5 DEF Prepare, talk, TypeOK
    <3>3. SUFFICES ASSUME ~forgiven' PROVE Budgeted'
      BY DEF Budgeted
    <3>4. \A v \in Windows \ {w} : run'[v] = run[v]
      BY <3>1 DEF TypeOK
    <3>5. DailyRuns' = DailyRuns
      <4>1. CASE run[w].status = "none"
        <5>1. run'[w] = [status |-> "pending", attempts |-> 0, created |-> now]
          BY <3>1, <4>1 DEF TypeOK
        <5>2. w \notin Dated /\ Dated' = Dated \cup {w}
          BY <3>2, <3>4, <4>1, <5>1 DEF Dated, Today
        <5>3. run'[w].attempts = 0 /\ \A v \in Dated : run'[v].attempts = run[v].attempts
          BY <3>4, <5>1, <5>2 DEF Dated
        <5> QED
          BY <5>2, <5>3, RowJoins
      <4>2. CASE run[w].status = "failed"
        <5> DEFINE n == IF Exhausted(w) THEN 0 ELSE run[w].attempts
        <5>1. run'[w] = [run[w] EXCEPT !.attempts = n]
          BY <3>1, <4>2 DEF TypeOK
        <5>2. w \in Dated => n = run[w].attempts
          BY <3>1, <3>3, <4>2 DEF Dated
        <5> HIDE DEF n
        <5>3. run'[w].status = "failed" /\ run'[w].created = run[w].created /\ run'[w].attempts = n
          BY <3>2, <4>2, <5>1 DEF Run
        <5>4. Dated' = Dated
          BY <3>2, <3>4, <4>2, <5>3 DEF Dated, Today
        <5>5. \A v \in Dated : run'[v].attempts = run[v].attempts
          BY <3>4, <5>2, <5>3 DEF Dated
        <5> QED
          BY <5>4, <5>5, SameDayRows
      <4> QED
        BY <3>1, <4>1, <4>2 DEF OpenWindow
    <3>6. DailyRuns < MaxDailyRuns /\ DailyRuns \in Nat
      <4>1. DailyRuns \in Nat
        BY DatedFinite, TotalNat
      <4> QED
        BY <3>1, <4>1 DEF Due
    <3>7. calls < MaxDailyRuns
      <4>1. ~forgiven /\ calls <= DailyRuns
        BY <3>1, <3>3 DEF Budgeted
      <4> QED
        BY <3>6, <4>1, DistillationAssumption DEF TypeOK
    <3> QED
      BY <3>1, <3>2, <3>3, <3>5, <3>7 DEF Budgeted
  <2>6. ASSUME NEW r \in Reviewers, Ask(r)
        PROVE  Budgeted'
    <3>1. Asked(r)
      BY <2>6, AskShape
    <3>2. Window(r) \in Windows /\ Stage(r) = "prepared"
      BY <3>1 DEF Asked, Steady, HasWindow, Stage
    <3> DEFINE w == Window(r)
    <3>3. /\ run'[w] = [status |-> "running", attempts |-> run[w].attempts + 1, created |-> now]
          /\ UNCHANGED <<now, forgiven>> /\ calls' = calls + 1
      BY <2>6, <3>2 DEF Ask, talk, TypeOK
    <3>4. \A v \in Windows \ {w} : run'[v] = run[v]
      BY <3>1 DEF Asked
    <3>5. w \in Windows
      BY <3>2
    <3> HIDE DEF w
    <3>6. w \in Dated' /\ Dated' \ {w} = Dated \ {w}
      BY <3>3, <3>4, <3>5 DEF Dated, Today
    <3>7. \A v \in Dated \ {w} : run'[v].attempts = run[v].attempts
      BY <3>4 DEF Dated
    <3>8. run'[w].attempts = run[w].attempts + 1
      BY <3>3
    <3>9. DailyRuns' >= DailyRuns + 1 /\ DailyRuns \in Nat /\ DailyRuns' \in Nat
      BY <3>5, <3>6, <3>7, <3>8, OneMore
    <3>10. \A q \in Reviewers : review'[q].stage # "prepared"
      BY <3>1, <3>2 DEF Asked, Alone, Steady, OneHolds, Stage
    <3>11. CASE ~forgiven
      <4>1. calls <= DailyRuns /\ calls < MaxDailyRuns /\ calls \in Nat
        BY <3>2, <3>11 DEF Budgeted, TypeOK
      <4> QED
        BY <3>3, <3>9, <3>10, <4>1, DistillationAssumption DEF Budgeted, Stage
    <3> QED
      BY <3>3, <3>11 DEF Budgeted
  <2>7. ASSUME NEW r \in Reviewers, Moving(r)
        PROVE  Budgeted'
    <3>1. Moved(r)
      BY <2>7, MoveShape
    <3>2. UNCHANGED <<now, run, calls, forgiven>>
      BY <2>7 DEF Moving, RecordChapter, Reject, Prune, Record, Resolve, Update, talk, tables, history
    <3> QED
      BY <3>1, <3>2, DailySame, BudgetKept DEF Moved, Alone, Stage
  <2>8. ASSUME NEW r \in Reviewers, Ending(r)
        PROVE  Budgeted'
    <3>1. Ended(r)
      BY <2>8, EndShape
    <3>2. UNCHANGED <<now, calls, forgiven>>
      BY <2>8 DEF Ending, Decline, Fail, Lose, Conclude, talk, history
    <3>3. \A q \in Reviewers : review'[q].stage = "prepared" => Stage(q) = "prepared"
      BY <3>1 DEF Ended, Alone, Stage
    <3>4. CASE Decline(r) \/ Lose(r)
      <4>1. run' = run
        BY <3>4 DEF Decline, Lose, tables
      <4> QED
        BY <3>2, <3>3, <4>1, DailySame, BudgetKept
    <3>5. CASE Fail(r) \/ Conclude(r)
      <4>1. Stage(r) \in Working /\ Window(r) \in Windows /\ run[Window(r)].status = "running"
        BY <3>5 DEF Fail, Conclude, Stage, Working, Steady, HasWindow, Underway
      <4>2. PICK status \in {"completed", "failed"} :
              run' = [run EXCEPT ![Window(r)].status = status]
        BY <3>5 DEF Fail, Conclude
      <4> DEFINE w == Window(r)
      <4>3. w \in Windows /\ run[w].status = "running" /\ run[w] \in Run
        BY <4>1 DEF TypeOK
      <4>4. run' = [run EXCEPT ![w].status = status]
        BY <4>2
      <4> HIDE DEF w
      <4>5. /\ run'[w].status = status /\ run'[w].attempts = run[w].attempts
            /\ run'[w].created = run[w].created
            /\ \A v \in Windows \ {w} : run'[v] = run[v]
        BY <4>3, <4>4 DEF TypeOK, Run
      <4>6. Dated' = Dated
        BY <3>2, <4>3, <4>5 DEF Dated, Today
      <4>7. \A v \in Dated : run'[v].attempts = run[v].attempts
        BY <4>5 DEF Dated
      <4>8. DailyRuns' = DailyRuns
        BY <4>6, <4>7, SameDayRows
      <4> QED
        BY <3>2, <3>3, <4>8, BudgetKept
    <3> QED
      BY <2>8, <3>4, <3>5 DEF Ending
  <2>9. ASSUME NEW f \in Facts, Remember(f) \/ CloseItem(f) \/ Lapse(f)
        PROVE  Budgeted'
    <3>1. UNCHANGED <<now, run, review, calls, forgiven>>
      BY <2>9 DEF Remember, CloseItem, Lapse, talk, history
    <3> QED
      BY <3>1, DailySame, BudgetKept DEF Stage
  <2> QED
    BY <2>1, <2>2, <2>3, <2>4, <2>5, <2>6, <2>7, <2>8, <2>9, StepKinds
<1> QED
  BY <1>1, <1>2, TypeCorrect, PTL DEF Spec

(* A day has at most MaxDailyRuns model calls, unless a failed window got  *)
(* its attempts back that day.                                             *)
THEOREM DailyCalls == Spec => []CallsBounded
<1>1. Budgeted => CallsBounded
  BY DEF Budgeted, CallsBounded
<1> QED
  BY <1>1, BudgetedAlways, PTL
=============================================================================
