---------------------- MODULE BuilderActivationProofs ----------------------
(***************************************************************************)
(* What BuilderActivation keeps for every set of changes and of commands.  *)
(*                                                                         *)
(* The argument rests on the lock: a worker inside a locked section holds  *)
(* it (Sections), so nobody else writes (Others) and what it has found or  *)
(* written stays true until its next write (AtWork).  That carries NamedOK,*)
(* which is about the disk alone and survives a death at any write.  What  *)
(* holds only while commands run one at a time is AloneInv.                *)
(***************************************************************************)
EXTENDS BuilderActivation, TLAPS

(* The labels inside a locked section.                                     *)
Locked ==
  {"opening", "staging", "journaled", "prepared", "published", "recorded", "cleaning",
   "saved", "marked", "armed", "accepted", "refused", "closing"}

Sections == \A w \in Workers : worker[w].pc \in Locked <=> lock = w

(* A command that has begun is about a change.                             *)
Begun == \A w \in Workers : worker[w].pc # "idle" => worker[w].change \in Changes

----------------------------------------------------------------------------
(* The disk.                                                               *)

InTransit(c) == record[c] \in {"switching", "rolling_back"}

Confirmed(c) ==
  /\ slot[c] /\ receipt[c] = "passed"
  /\ record[c] \notin {"none", "staged", "awaiting_confirmation"}

(* What a pointer names, or may be made to name by whoever holds the lock  *)
(* or by the next Store.                                                   *)
Named(x) ==
  \/ x = current \/ x = previous
  \/ \E d \in Changes : IsSwitching(d) /\ journal[d].prev = x
  \/ \E v \in Workers : worker[v].pc \in {"saved", "marked"} /\ worker[v].prev = x

NamedOK == \A c \in Changes : Named(c) => Confirmed(c) /\ (InTransit(c) => IsSwitching(c))

(* The journal of a stage is about a change that got no further.           *)
StagingOK == \A c \in Changes : IsStaging(c) => record[c] \in {"none", "staged"}

(* A change that is staged stays so until it is switched: only a stage cut *)
(* short is undone.                                                        *)
Past(c) == record[c] # "none" /\ ~IsStaging(c)

(* What a worker in a section, or past its stage, has found or written.    *)
AtWork(w) ==
  LET c  == worker[w].change
      pc == worker[w].pc
  IN  /\ pc = "journaled" => journal[c] = Staging(FALSE) /\ ~slot[c] /\ record[c] = "none"
      /\ pc = "prepared" => journal[c] = Staging(TRUE) /\ ~slot[c] /\ record[c] = "none"
      /\ pc = "published" => journal[c] = Staging(TRUE) /\ slot[c] /\ record[c] = "none"
      /\ pc = "recorded" => journal[c] = Staging(TRUE) /\ slot[c] /\ record[c] = "staged"
      /\ pc = "cleaning" => IsStaging(c)
      /\ pc \in {"staged", "checked"} => Past(c)
      /\ pc = "saved" => record[c] = "awaiting_confirmation" /\ slot[c] /\ receipt[c] = "passed"
      /\ pc = "marked" =>
           record[c] = "switching" /\ slot[c] /\ receipt[c] = "passed" /\ ~Named(c)
      /\ pc = "armed" =>
           /\ record[c] = "switching" /\ slot[c] /\ receipt[c] = "passed"
           /\ journal[c] = Switching(worker[w].prev)
      /\ pc = "accepted" => record[c] = "healthy"
      /\ pc = "refused" => record[c] = "rolling_back"
      /\ pc = "closing" => record[c] \in {"rolled_back", "recovery_required"}

AllAtWork == \A w \in Workers : AtWork(w)

----------------------------------------------------------------------------
(* While commands run one at a time.                                       *)

Single == ~overlap => \A v, w \in Workers : Alive(v) /\ Alive(w) => v = w

Served == service \in Changes => service \in ran

Good(x) == x = NULL \/ (x \in Changes /\ record[x] = "healthy")

(* A recovery goes back to the bundled tree or to a slot called healthy.   *)
Undone == \A c \in Changes : IsSwitching(c) => Good(journal[c].prev)

CurrentOK == Good(current) \/ (current \in Changes /\ InTransit(current))

Before ==
  {"opened", "staging", "journaled", "prepared", "published", "recorded", "cleaning", "staged",
   "checked", "confirmed", "saved", "marked"}

(* What the one worker may rely on, from its first look at the journals.   *)
Only(w) ==
  LET c  == worker[w].change
      pc == worker[w].pc
  IN  /\ pc \in Before => \A d \in Changes : ~IsSwitching(d)
      /\ pc \in {"saved", "marked"} => worker[w].prev = previous /\ Good(previous)
      /\ pc \in {"armed", "switched", "restarted", "judged", "accepted", "refused"} => Good(previous)
      /\ pc \in {"switched", "restarted", "judged"} => current = c /\ record[c] = "switching"
      /\ pc = "judged" /\ worker[w].good => c \in ran
      /\ pc \in {"restored", "restoredUp"} => Good(current)

AloneInv == ~overlap => Undone /\ CurrentOK /\ \A w \in Workers : Only(w)

----------------------------------------------------------------------------
(* The inductive invariant, and what every step keeps besides.             *)

Control == TypeOK /\ Sections /\ Begun
Disk    == StagingOK /\ NoOrphans /\ NamedOK /\ AllAtWork
Alone   == Single /\ Served /\ HealthyRan /\ AloneInv
Inv     == Control /\ Disk /\ Alone

Along == \A c \in Changes : record'[c] = record[c] \/ <<record[c], record'[c]>> \in Transitions

Kept == Inv' /\ Along

----------------------------------------------------------------------------
(* Types and control.                                                      *)

LEMMA GotoMoves ==
  ASSUME TypeOK, NEW w \in Workers, NEW pc \in Labels, Goto(w, pc)
  PROVE  /\ worker' \in [Workers -> Worker]
         /\ \A v \in Workers \ {w} : worker'[v] = worker[v]
         /\ worker'[w].pc = pc
         /\ worker'[w].change = worker[w].change
         /\ pc \notin Ended =>
              /\ worker'[w].at = worker[w].at
              /\ worker'[w].prev = worker[w].prev
              /\ worker'[w].good = worker[w].good
<1>1. worker \in [Workers -> Worker] /\ worker[w] \in Worker  BY DEF TypeOK
<1>2. CASE pc \in Ended
  <2> DEFINE r == [pc |-> pc, change |-> worker[w].change, at |-> NULL, prev |-> NULL, good |-> FALSE]
  <2>1. worker' = [worker EXCEPT ![w] = r]  BY <1>1, <1>2 DEF Goto
  <2>2. r \in Worker  BY <1>1 DEF Worker, Pointers
  <2>3. r.pc = pc /\ r.change = worker[w].change  OBVIOUS
  <2> HIDE DEF r
  <2> QED  BY <1>1, <1>2, <2>1, <2>2, <2>3
<1>3. CASE pc \notin Ended
  <2> DEFINE r == [worker[w] EXCEPT !.pc = pc]
  <2>1. worker' = [worker EXCEPT ![w] = r]  BY <1>1, <1>3 DEF Goto
  <2>2. r \in Worker  BY <1>1 DEF Worker
  <2>3. /\ r.pc = pc /\ r.change = worker[w].change /\ r.at = worker[w].at
        /\ r.prev = worker[w].prev /\ r.good = worker[w].good
    BY <1>1 DEF Worker
  <2> HIDE DEF r
  <2> QED  BY <1>1, <2>1, <2>2, <2>3
<1> QED  BY <1>2, <1>3

LEMMA Journals ==
  /\ NoJournal \in Journal /\ NoJournal.state = "none"
  /\ \A p \in BOOLEAN : Staging(p) \in Journal /\ Staging(p).state = "staging" /\ Staging(p).payload = p
  /\ \A x \in Pointers : Switching(x) \in Journal /\ Switching(x).state = "switching" /\ Switching(x).prev = x
  /\ \A j \in Journal : j.state = "none" => j = NoJournal
  /\ \A j \in Journal : j.state = "staging" => \E p \in BOOLEAN : j = Staging(p)
  /\ \A j \in Journal : j.state = "switching" => j.prev \in Pointers
  /\ \A j \in Journal : j.state \in {"none", "staging", "switching"}
<1>1. /\ NoJournal \in Journal
      /\ \A p \in BOOLEAN : Staging(p) \in Journal
      /\ \A x \in Pointers : Switching(x) \in Journal
  BY DEF Journal
<1>2. \A j \in Journal : \/ j = NoJournal
                         \/ \E p \in BOOLEAN : j = Staging(p)
                         \/ \E x \in Pointers : j = Switching(x)
  BY DEF Journal
<1>3. NoJournal.state = "none"  BY DEF NoJournal
<1>4. \A p : Staging(p).state = "staging" /\ Staging(p).payload = p  BY DEF Staging
<1>5. \A x : Switching(x).state = "switching" /\ Switching(x).prev = x  BY DEF Switching
<1> QED  BY <1>1, <1>2, <1>3, <1>4, <1>5

(* A worker that reconciles only notes the journal it is at.               *)
LEMMA AtMoves ==
  ASSUME TypeOK, NEW w \in Workers, NEW x \in Pointers,
         worker' = [worker EXCEPT ![w].at = x]
  PROVE  /\ worker' \in [Workers -> Worker]
         /\ \A v \in Workers \ {w} : worker'[v] = worker[v]
         /\ worker'[w].pc = worker[w].pc
         /\ worker'[w].change = worker[w].change
         /\ worker'[w].prev = worker[w].prev
         /\ worker'[w].good = worker[w].good
<1> DEFINE r == [worker[w] EXCEPT !.at = x]
<1>1. worker \in [Workers -> Worker] /\ worker[w] \in Worker  BY DEF TypeOK
<1>2. worker' = [worker EXCEPT ![w] = r]  BY <1>1
<1>3. r \in Worker  BY <1>1 DEF Worker
<1>4. /\ r.pc = worker[w].pc /\ r.change = worker[w].change
      /\ r.prev = worker[w].prev /\ r.good = worker[w].good
  BY <1>1 DEF Worker
<1> HIDE DEF r
<1> QED  BY <1>1, <1>2, <1>3, <1>4

LEMMA GoodMoves ==
  ASSUME TypeOK, NEW w \in Workers, NEW pc \in Labels, NEW b \in BOOLEAN,
         worker' = [worker EXCEPT ![w].pc = pc, ![w].good = b]
  PROVE  /\ worker' \in [Workers -> Worker]
         /\ \A v \in Workers \ {w} : worker'[v] = worker[v]
         /\ worker'[w].pc = pc
         /\ worker'[w].change = worker[w].change
         /\ worker'[w].prev = worker[w].prev
         /\ worker'[w].good = b
<1> DEFINE r == [worker[w] EXCEPT !.pc = pc, !.good = b]
<1>1. worker \in [Workers -> Worker] /\ worker[w] \in Worker  BY DEF TypeOK
<1>2. worker' = [worker EXCEPT ![w] = r]  BY <1>1
<1>3. r \in Worker  BY <1>1 DEF Worker
<1>4. /\ r.pc = pc /\ r.change = worker[w].change
      /\ r.prev = worker[w].prev /\ r.good = b
  BY <1>1 DEF Worker
<1> HIDE DEF r
<1> QED  BY <1>1, <1>2, <1>3, <1>4

LEMMA PrevMoves ==
  ASSUME TypeOK, NEW w \in Workers, NEW x \in Pointers,
         worker' = [worker EXCEPT ![w].pc = "saved", ![w].prev = x]
  PROVE  /\ worker' \in [Workers -> Worker]
         /\ \A v \in Workers \ {w} : worker'[v] = worker[v]
         /\ worker'[w].pc = "saved"
         /\ worker'[w].change = worker[w].change
         /\ worker'[w].prev = x
         /\ worker'[w].good = worker[w].good
<1> DEFINE r == [worker[w] EXCEPT !.pc = "saved", !.prev = x]
<1>1. worker \in [Workers -> Worker] /\ worker[w] \in Worker  BY DEF TypeOK
<1>2. worker' = [worker EXCEPT ![w] = r]  BY <1>1
<1>3. r \in Worker  BY <1>1 DEF Worker, Labels
<1>4. /\ r.pc = "saved" /\ r.change = worker[w].change
      /\ r.prev = x /\ r.good = worker[w].good
  BY <1>1 DEF Worker
<1> HIDE DEF r
<1> QED  BY <1>1, <1>2, <1>3, <1>4

LEMMA OpenMoves ==
  ASSUME TypeOK, NEW w \in Workers, NEW c \in Changes,
         worker' = [worker EXCEPT ![w].pc = "opening", ![w].change = c]
  PROVE  /\ worker' \in [Workers -> Worker]
         /\ \A v \in Workers \ {w} : worker'[v] = worker[v]
         /\ worker'[w].pc = "opening"
         /\ worker'[w].change = c
<1> DEFINE r == [worker[w] EXCEPT !.pc = "opening", !.change = c]
<1>1. worker \in [Workers -> Worker] /\ worker[w] \in Worker  BY DEF TypeOK
<1>2. worker' = [worker EXCEPT ![w] = r]  BY <1>1
<1>3. r \in Worker  BY <1>1 DEF Worker, Pointers, Labels
<1>4. r.pc = "opening" /\ r.change = c  BY <1>1 DEF Worker
<1> HIDE DEF r
<1> QED  BY <1>1, <1>2, <1>3, <1>4

(* A step of w alone, on to a label.                                       *)
Moved(w, to) ==
  /\ worker' \in [Workers -> Worker]
  /\ \A v \in Workers \ {w} : worker'[v] = worker[v]
  /\ worker'[w].pc = to
  /\ worker'[w].change = worker[w].change

Same(w) == worker'[w].prev = worker[w].prev /\ worker'[w].good = worker[w].good

(* Where the lock goes with the label, Sections does.                      *)
LEMMA LockMoves ==
  ASSUME Control, NEW w \in Workers, NEW to \in Labels \ {"idle"}, Moved(w, to),
         worker[w].pc # "idle",
         \/ lock \in {NULL, w} /\ lock' = (IF to \in Locked THEN w ELSE NULL)
         \/ to \notin Locked /\ worker[w].pc \notin Locked /\ lock' = lock
  PROVE  Sections' /\ Begun' /\ lock' \in Workers \cup {NULL}
<1>1. \A v \in Workers : v # NULL  BY BuilderAssumption
<1>2. lock \in Workers \cup {NULL}  BY DEF Control, TypeOK
<1>3. Sections'
  <2>1. worker'[w].pc \in Locked <=> lock' = w  BY <1>1, <1>2 DEF Moved, Control, Sections
  <2>2. ASSUME NEW v \in Workers \ {w}
        PROVE  worker'[v].pc \in Locked <=> lock' = v
    <3>1. worker'[v] = worker[v]  BY DEF Moved
    <3>2. worker[v].pc \in Locked <=> lock = v  BY DEF Control, Sections
    <3> QED  BY <3>1, <3>2, <1>1, <1>2
  <2> QED  BY <2>1, <2>2 DEF Sections
<1>4. Begun'  BY DEF Moved, Control, Begun
<1> QED  BY <1>2, <1>3, <1>4

LEMMA InsideMoves ==
  ASSUME Control, NEW w \in Workers, NEW from \in Locked, NEW to \in Locked, Inside(w, from, to)
  PROVE  /\ worker[w].pc = from /\ Moved(w, to) /\ Same(w)
         /\ lock = w /\ lock' = w /\ Sections' /\ Begun'
<1>1. worker[w].pc = from /\ Goto(w, to) /\ lock' = lock  BY Zenon DEF Inside
<1>2. to \in Labels \ {"idle"} /\ to \notin Ended /\ from # "idle"  BY DEF Locked, Labels, Ended
<1>3. Moved(w, to) /\ Same(w)  BY <1>1, <1>2, GotoMoves DEF Moved, Same, Control
<1>4. lock = w  BY <1>1 DEF Control, Sections
<1> QED  BY <1>1, <1>2, <1>3, <1>4, LockMoves

LEMMA EnterMoves ==
  ASSUME Control, NEW w \in Workers, NEW from \in Labels \ {"idle"}, NEW to \in Locked, Enter(w, from, to)
  PROVE  /\ worker[w].pc = from /\ Moved(w, to) /\ Same(w)
         /\ lock = NULL /\ lock' = w /\ Sections' /\ Begun'
<1>1. worker[w].pc = from /\ Goto(w, to) /\ lock = NULL /\ lock' = w  BY Zenon DEF Enter
<1>2. to \in Labels \ {"idle"} /\ to \notin Ended  BY DEF Locked, Labels, Ended
<1>3. Moved(w, to) /\ Same(w)  BY <1>1, <1>2, GotoMoves DEF Moved, Same, Control
<1> QED  BY <1>1, <1>2, <1>3, LockMoves

LEMMA LeaveMoves ==
  ASSUME Control, NEW w \in Workers, NEW from \in Locked,
         NEW to \in Labels \ ({"idle"} \cup Locked), Leave(w, from, to)
  PROVE  /\ worker[w].pc = from /\ Moved(w, to) /\ (to \notin Ended => Same(w))
         /\ lock = w /\ lock' = NULL /\ Sections' /\ Begun'
<1>1. worker[w].pc = from /\ Goto(w, to) /\ lock' = NULL  BY Zenon DEF Leave
<1>2. from # "idle"  BY DEF Locked
<1>3. Moved(w, to) /\ (to \notin Ended => Same(w))  BY <1>1, GotoMoves DEF Moved, Same, Control
<1>4. lock = w  BY <1>1 DEF Control, Sections
<1> QED  BY <1>1, <1>2, <1>3, <1>4, LockMoves

LEMMA WholeMoves ==
  ASSUME Control, NEW w \in Workers, NEW from \in Labels \ ({"idle"} \cup Locked),
         NEW to \in Labels \ ({"idle"} \cup Locked), Whole(w, from, to)
  PROVE  /\ worker[w].pc = from /\ Moved(w, to) /\ (to \notin Ended => Same(w))
         /\ lock = NULL /\ lock' = NULL /\ Sections' /\ Begun'
<1>1. worker[w].pc = from /\ Goto(w, to) /\ lock = NULL /\ lock' = lock  BY Zenon DEF Whole
<1>2. Moved(w, to) /\ (to \notin Ended => Same(w))  BY <1>1, GotoMoves DEF Moved, Same, Control
<1> QED  BY <1>1, <1>2, LockMoves

(* The others' part of the invariant: whoever is in a section holds the    *)
(* lock and sees no write; and while there is one worker there are no      *)
(* others.                                                                 *)
LEMMA Others ==
  ASSUME Inv, TypeOK', Sections', Begun', NEW w \in Workers, NEW to \in Labels \ {"idle"},
         Moved(w, to), lock \in {NULL, w} \/ UNCHANGED durable,
         Alive(w), overlap' = overlap,
         StagingOK', NoOrphans', NamedOK', AtWork(w)', Served' /\ HealthyRan',
         \A d \in Changes : Past(d) => Past(d)',
         ~overlap => (Undone /\ CurrentOK /\ Only(w))'
  PROVE  Inv'
<1>1. \A v \in Workers : v # NULL  BY BuilderAssumption
<1>2. ASSUME NEW v \in Workers, v # w
      PROVE  AtWork(v)'
  <2>1. worker'[v] = worker[v]  BY <1>2 DEF Moved
  <2>2. CASE worker[v].pc \notin Locked
    <3>1. AtWork(v)  BY DEF Inv, Disk, AllAtWork
    <3>2. CASE worker[v].pc \in {"staged", "checked"}
      <4>1. PICK d \in Changes : d = worker[v].change /\ d = worker'[v].change
        BY <2>1, <3>2 DEF Inv, Control, Begun
      <4>2. Past(d)  BY <3>1, <3>2, <4>1 DEF AtWork
      <4>3. Past(d)'  BY <4>2
      <4> QED  BY <2>1, <2>2, <4>1, <4>3 DEF AtWork, Locked
    <3>3. CASE worker[v].pc \notin {"staged", "checked"}
      BY <2>1, <2>2, <3>3 DEF AtWork, Locked
    <3> QED  BY <3>2, <3>3
  <2>3. CASE worker[v].pc \in Locked
    <3>1. lock = v /\ lock' = v  BY <2>1, <2>3 DEF Inv, Control, Sections
    <3>2. UNCHANGED durable  BY <3>1, <1>1, <1>2
    <3>3. worker'[w].pc \notin Locked  BY <3>1, <1>2 DEF Sections
    <3>4. \A x : Named(x)' => Named(x)
      <4> TAKE x
      <4>1. ASSUME NEW u \in Workers, worker'[u].pc \in {"saved", "marked"} /\ worker'[u].prev = x
            PROVE  worker[u].pc \in {"saved", "marked"} /\ worker[u].prev = x
        BY <3>3, <4>1 DEF Moved, Locked
      <4>2. current' = current /\ previous' = previous /\ journal' = journal
        BY <3>2 DEF durable
      <4> QED  BY <4>1, <4>2 DEF Named, IsSwitching
    <3>5. AtWork(v)  BY DEF Inv, Disk, AllAtWork
    <3>6. slot' = slot /\ receipt' = receipt /\ record' = record /\ journal' = journal
      BY <3>2 DEF durable
    <3> QED  BY <2>1, <3>4, <3>5, <3>6 DEF AtWork, IsStaging, Past
  <2> QED  BY <2>2, <2>3
<1>3. AllAtWork'  BY <1>2 DEF AllAtWork
<1>4. ASSUME ~overlap, NEW v \in Workers, v # w
      PROVE  ~Alive(v) /\ ~Alive(v)'
  <2>1. ~Alive(v)  BY <1>4 DEF Inv, Alone, Single
  <2> QED  BY <2>1, <1>4 DEF Moved, Alive
<1>5. Single'  BY <1>4 DEF Single
<1>6. ASSUME ~overlap, NEW v \in Workers, v # w
      PROVE  Only(v)'
  <2>1. worker'[v].pc \in {"idle"} \cup Ended  BY <1>4, <1>6 DEF Alive
  <2> QED  BY <2>1 DEF Only, Before, Ended
<1>7. AloneInv'
  <2>1. ~overlap' => (Undone /\ CurrentOK)' /\ \A v \in Workers : Only(v)'  BY <1>6
  <2> QED  BY <2>1 DEF AloneInv
<1> QED  BY <1>3, <1>5, <1>7 DEF Inv, Control, Disk, Alone

(* A pointer is named anew only by a write of one, or by a worker that     *)
(* comes to hold it.                                                       *)
LEMMA NamedLess ==
  ASSUME current' = current, previous' = previous,
         \A d \in Changes : journal'[d].state = "switching" =>
            journal[d].state = "switching" /\ journal'[d].prev = journal[d].prev,
         \A v \in Workers : worker'[v].pc \in {"saved", "marked"} =>
            worker[v].pc \in {"saved", "marked"} /\ worker'[v].prev = worker[v].prev
  PROVE  \A x : Named(x)' => Named(x)
<1> TAKE x
<1> QED  BY DEF Named, IsSwitching

(* A write about one change: slot and record agree, or the stage's journal *)
(* is there.                                                               *)
LEMMA OrphansKept ==
  ASSUME Inv, NEW c \in Changes,
         \A d \in Changes \ {c} :
            slot'[d] = slot[d] /\ record'[d] = record[d] /\ journal'[d] = journal[d],
         IsStaging(c)' => record'[c] \in {"none", "staged"},
         ~IsStaging(c)' => slot'[c] = (record'[c] # "none")
  PROVE  StagingOK' /\ NoOrphans'
<1>1. StagingOK /\ NoOrphans  BY DEF Inv, Disk
<1>2. StagingOK'  BY <1>1 DEF StagingOK, IsStaging
<1>3. ASSUME NEW d \in Changes, ~IsStaging(d)'
      PROVE  slot'[d] = (record'[d] # "none")
  <2>1. CASE d = c  BY <1>3, <2>1
  <2>2. CASE d # c  BY <1>1, <1>3, <2>2 DEF NoOrphans, IsStaging
  <2> QED  BY <2>1, <2>2
<1> QED  BY <1>2, <1>3 DEF NoOrphans

(* A step that writes nothing durable leaves the disk as it is.            *)
LEMMA Still ==
  ASSUME Inv, NEW w \in Workers, NEW to \in Labels \ {"idle", "saved", "marked"},
         Moved(w, to), Sections', Begun', lock' \in Workers \cup {NULL},
         UNCHANGED durable, Alive(w), overlap' = overlap,
         service' \in Pointers \cup {Down}, ran \subseteq ran', ran' \subseteq Changes, Served',
         AtWork(w)', ~overlap => Only(w)'
  PROVE  Kept
<1>1. UNCHANGED <<slot, receipt, record, journal, current, previous>>  BY DEF durable
<1>2. TypeOK  BY DEF Inv, Control
<1>3. TypeOK'  BY <1>1, <1>2 DEF TypeOK, Moved
<1>4. \A x : Named(x)' => Named(x)
  <2>1. \A v \in Workers : worker'[v].pc \in {"saved", "marked"} =>
          worker[v].pc \in {"saved", "marked"} /\ worker'[v].prev = worker[v].prev
    BY DEF Moved
  <2> QED  BY <1>1, <2>1, NamedLess
<1>5. StagingOK' /\ NoOrphans'
  BY <1>1 DEF Inv, Disk, StagingOK, NoOrphans, IsStaging
<1>6. NamedOK'
  BY <1>1, <1>4 DEF Inv, Disk, NamedOK, Confirmed, InTransit, IsSwitching
<1>7. \A d \in Changes : Past(d) => Past(d)'  BY <1>1 DEF Past, IsStaging
<1>8. ~overlap => (Undone /\ CurrentOK)'
  BY <1>1 DEF Inv, Alone, AloneInv, Undone, CurrentOK, Good, InTransit, IsSwitching
<1>9. HealthyRan'  BY <1>1 DEF Inv, Alone, HealthyRan
<1>10. Along  BY <1>1 DEF Along
<1> QED  BY <1>3, <1>5, <1>6, <1>7, <1>8, <1>9, <1>10, Others DEF Kept

(* One lemma per action: the type, the disk, and what one worker relies on.*)

LEMMA MendKeeps ==
  ASSUME Inv, NEW w \in Workers, NEW c \in Changes, Mend(w, c), UNCHANGED overlap
  PROVE  Kept
<1>1. /\ worker[w].pc \in {"opening", "staging"} /\ IsStaging(c)
      /\ worker' = [worker EXCEPT ![w].at = c] /\ lock' = lock
      /\ UNCHANGED <<receipt, journal, current, previous, service, ran>>
  BY Zenon DEF Mend, Reconciling, Reconciled
<1>2. PICK b \in BOOLEAN, r \in {"staged", "none"} :
        slot' = [slot EXCEPT ![c] = b] /\ record' = [record EXCEPT ![c] = r]
  <2> DEFINE whole == slot[c] /\ journal[c].payload
  <2>1. slot' = [slot EXCEPT ![c] = whole]
        /\ record' = [record EXCEPT ![c] = IF whole THEN "staged" ELSE "none"]
    BY Zenon DEF Mend
  <2>2. whole \in BOOLEAN  OBVIOUS
  <2> HIDE DEF whole
  <2>3. (IF whole THEN "staged" ELSE "none") \in {"staged", "none"}  OBVIOUS
  <2> QED  BY <2>1, <2>2, <2>3
<1>3. /\ TypeOK /\ Control /\ lock = w  BY <1>1 DEF Inv, Control, Sections, Locked
<1>5. Moved(w, worker[w].pc) /\ worker'[w].prev = worker[w].prev /\ worker'[w].good = worker[w].good
  BY <1>1, <1>3, AtMoves DEF Moved, Pointers
<1>6. Sections' /\ Begun' /\ lock' \in Workers \cup {NULL}
  BY <1>1, <1>3, <1>5, LockMoves DEF Locked, Labels
<1>7. TypeOK'  BY <1>1, <1>2, <1>3, <1>5, <1>6 DEF TypeOK, States, Moved
<1>8. record[c] \in {"none", "staged"}  BY <1>1 DEF Inv, Disk, StagingOK
<1>9. \A d \in Changes \ {c} : slot'[d] = slot[d] /\ record'[d] = record[d]
  BY <1>2, <1>3 DEF TypeOK
<1>10. record'[c] \in {"none", "staged"}  BY <1>2, <1>3 DEF TypeOK
<1>11. StagingOK' /\ NoOrphans'
  BY <1>1, <1>9, <1>10 DEF Inv, Disk, StagingOK, NoOrphans, IsStaging
<1>12. \A x : Named(x)' => Named(x)
  BY <1>1, <1>5, NamedLess DEF Moved
<1>13. NamedOK'
  BY <1>1, <1>8, <1>9, <1>12 DEF Inv, Disk, NamedOK, Confirmed, InTransit, IsSwitching
<1>14. AtWork(w)'  BY <1>1, <1>5 DEF AtWork, Moved
<1>15. Served' /\ HealthyRan'  BY <1>1, <1>9, <1>10 DEF Inv, Alone, Served, HealthyRan
<1>16. ~overlap => (Undone /\ CurrentOK /\ Only(w))'
  <2>1. \A x : Good(x) => Good(x)'  BY <1>8, <1>9 DEF Good
  <2>2. CurrentOK => CurrentOK'  BY <1>1, <1>8, <1>9, <2>1 DEF CurrentOK, InTransit
  <2>3. Undone => Undone'  BY <1>1, <2>1 DEF Undone, IsSwitching
  <2>4. Only(w) => Only(w)'  BY <1>1, <1>5 DEF Only, IsSwitching, Moved
  <2> QED  BY <2>2, <2>3, <2>4 DEF Inv, Alone, AloneInv
<1>17. Along  BY <1>8, <1>9, <1>10 DEF Along, Transitions
<1>19. \A d \in Changes : Past(d) => Past(d)'
  BY <1>1, <1>9 DEF Past, IsStaging
<1>18. Alive(w) /\ worker[w].pc \in Labels \ {"idle"}  BY <1>1 DEF Alive, Ended, Labels
<1> QED
  BY <1>3, <1>5, <1>6, <1>7, <1>11, <1>13, <1>14, <1>15, <1>16, <1>17, <1>18, <1>19, Others
     DEF Kept

LEMMA JournalPayloadKeeps ==
  ASSUME Inv, NEW w \in Workers, JournalPayload(w), UNCHANGED overlap
  PROVE  Kept
<1>1. /\ Inside(w, "journaled", "prepared")
      /\ journal' = [journal EXCEPT ![worker[w].change] = Staging(TRUE)]
      /\ UNCHANGED <<slot, receipt, record, current, previous, service, ran>>
  BY Zenon DEF JournalPayload
<1>2. UNCHANGED <<slot, receipt, record, current, previous, service, ran>>  BY <1>1
<1>3. /\ worker[w].pc = "journaled" /\ Moved(w, "prepared") /\ Same(w)
      /\ lock = w /\ lock' = w /\ Sections' /\ Begun'
  BY <1>1, InsideMoves DEF Inv, Locked, Labels, Ended
<1>4. PICK c \in Changes : c = worker[w].change /\ c = worker'[w].change
  BY <1>3 DEF Inv, Control, Begun, Moved
<1>5. TypeOK  BY DEF Inv, Control
<1>6. /\ journal'[c] = Staging(TRUE)
      /\ \A d \in Changes \ {c} : journal'[d] = journal[d]
      /\ journal'[c].state = "staging"
  BY <1>1, <1>4, <1>5, Journals DEF TypeOK
<1>7. journal[c] = Staging(FALSE) /\ ~slot[c] /\ record[c] = "none"
  BY <1>1, <1>3, <1>4 DEF Inv, Disk, AllAtWork, AtWork
<1>8. TypeOK'
  BY <1>1, <1>2, <1>3, <1>4, <1>5, Journals, BuilderAssumption
     DEF TypeOK, Moved, States, Pointers
<1>9. StagingOK' /\ NoOrphans'
  <2>1. StagingOK /\ NoOrphans  BY DEF Inv, Disk
  <2>2. \A d \in Changes \ {c} :
           slot'[d] = slot[d] /\ record'[d] = record[d] /\ journal'[d] = journal[d]
    BY <1>2, <1>6
  <2>3. IsStaging(c)' => record'[c] \in {"none", "staged"}
    BY <1>2, <1>3, <1>4, <1>6, <1>7, <2>1, Journals DEF StagingOK, IsStaging, Past
  <2>4. ~IsStaging(c)' => slot'[c] = (record'[c] # "none")
    BY <1>2, <1>3, <1>4, <1>6, <1>7, <2>1, Journals DEF NoOrphans, StagingOK, IsStaging
  <2> QED  BY <2>2, <2>3, <2>4, OrphansKept
<1>10. \A x : Named(x)' => Named(x)
  <2>1. current' = current /\ previous' = previous  BY <1>2, <1>3, <1>4, <1>6, <1>7
  <2>2. \A d \in Changes : journal'[d].state = "switching" =>
           journal[d].state = "switching" /\ journal'[d].prev = journal[d].prev
    BY <1>2, <1>3, <1>4, <1>6, <1>7, Journals
  <2>3. \A v \in Workers : worker'[v].pc \in {"saved", "marked"} =>
           worker[v].pc \in {"saved", "marked"} /\ worker'[v].prev = worker[v].prev
    BY <1>2, <1>3, <1>4, <1>6, <1>7 DEF Moved, Same
  <2> QED  BY <2>1, <2>2, <2>3, NamedLess
<1>11. NamedOK'
  BY <1>2, <1>3, <1>4, <1>6, <1>7, <1>10, Journals
     DEF Inv, Disk, NamedOK, StagingOK, Confirmed, InTransit, IsSwitching, IsStaging
<1>12. AtWork(w)'
  BY <1>2, <1>3, <1>4, <1>6, <1>7, Journals DEF AtWork, Moved, Same, IsStaging, Past
<1>13. Served' /\ HealthyRan'
  BY <1>2 DEF Inv, Alone, Served, HealthyRan
<1>14. ~overlap => (Undone /\ CurrentOK /\ Only(w))'
  <2> HAVE ~overlap
  <2>1. Undone /\ CurrentOK /\ Only(w)  BY DEF Inv, Alone, AloneInv
  <2>2. \A x : Good(x) => Good(x)'
    BY <1>2, <1>3, <1>4, <1>6, <1>7, Journals DEF Good, StagingOK, Inv, Disk
  <2>3. CurrentOK'
    BY <1>2, <1>3, <1>4, <1>6, <1>7, <2>1, <2>2 DEF CurrentOK, InTransit, Good, Only
  <2>4. Undone'  BY <1>2, <1>3, <1>4, <1>6, <1>7, <2>1, <2>2, Journals DEF Undone, IsSwitching
  <2>5. Only(w)'
    BY <1>2, <1>3, <1>4, <1>6, <1>7, <2>1, <2>2, Journals
       DEF Only, Before, IsSwitching, Moved, Same
  <2> QED  BY <2>3, <2>4, <2>5
<1>15. Along  BY <1>2, <1>3, <1>4, <1>6, <1>7 DEF Along, Transitions
<1>16. Alive(w) /\ "prepared" \in Labels \ {"idle"}  BY <1>3 DEF Alive, Ended, Labels
<1>17. \A d \in Changes : Past(d) => Past(d)'
  BY <1>2, <1>3, <1>4, <1>6, <1>7, Journals DEF Past, IsStaging, StagingOK
<1> QED
  BY <1>3, <1>8, <1>9, <1>11, <1>12, <1>13, <1>14, <1>15, <1>16, <1>17, Others DEF Kept

LEMMA PublishSlotKeeps ==
  ASSUME Inv, NEW w \in Workers, PublishSlot(w), UNCHANGED overlap
  PROVE  Kept
<1>1. /\ Inside(w, "prepared", "published")
      /\ slot' = [slot EXCEPT ![worker[w].change] = TRUE]
      /\ UNCHANGED <<receipt, record, journal, current, previous, service, ran>>
  BY Zenon DEF PublishSlot
<1>2. UNCHANGED <<receipt, record, journal, current, previous, service, ran>>  BY <1>1
<1>3. /\ worker[w].pc = "prepared" /\ Moved(w, "published") /\ Same(w)
      /\ lock = w /\ lock' = w /\ Sections' /\ Begun'
  BY <1>1, InsideMoves DEF Inv, Locked, Labels, Ended
<1>4. PICK c \in Changes : c = worker[w].change /\ c = worker'[w].change
  BY <1>3 DEF Inv, Control, Begun, Moved
<1>5. TypeOK  BY DEF Inv, Control
<1>6. /\ slot'[c] = TRUE
      /\ \A d \in Changes \ {c} : slot'[d] = slot[d]
  BY <1>1, <1>4, <1>5 DEF TypeOK
<1>7. journal[c] = Staging(TRUE) /\ ~slot[c] /\ record[c] = "none"
  BY <1>1, <1>3, <1>4 DEF Inv, Disk, AllAtWork, AtWork
<1>8. TypeOK'
  BY <1>1, <1>2, <1>3, <1>4, <1>5, Journals, BuilderAssumption
     DEF TypeOK, Moved, States, Pointers
<1>9. StagingOK' /\ NoOrphans'
  <2>1. StagingOK /\ NoOrphans  BY DEF Inv, Disk
  <2>2. \A d \in Changes \ {c} :
           slot'[d] = slot[d] /\ record'[d] = record[d] /\ journal'[d] = journal[d]
    BY <1>2, <1>6
  <2>3. IsStaging(c)' => record'[c] \in {"none", "staged"}
    BY <1>2, <1>3, <1>4, <1>6, <1>7, <2>1, Journals DEF StagingOK, IsStaging, Past
  <2>4. ~IsStaging(c)' => slot'[c] = (record'[c] # "none")
    BY <1>2, <1>3, <1>4, <1>6, <1>7, <2>1, Journals DEF NoOrphans, StagingOK, IsStaging
  <2> QED  BY <2>2, <2>3, <2>4, OrphansKept
<1>10. \A x : Named(x)' => Named(x)
  <2>1. current' = current /\ previous' = previous  BY <1>2, <1>3, <1>4, <1>6, <1>7
  <2>2. \A d \in Changes : journal'[d].state = "switching" =>
           journal[d].state = "switching" /\ journal'[d].prev = journal[d].prev
    BY <1>2, <1>3, <1>4, <1>6, <1>7, Journals
  <2>3. \A v \in Workers : worker'[v].pc \in {"saved", "marked"} =>
           worker[v].pc \in {"saved", "marked"} /\ worker'[v].prev = worker[v].prev
    BY <1>2, <1>3, <1>4, <1>6, <1>7 DEF Moved, Same
  <2> QED  BY <2>1, <2>2, <2>3, NamedLess
<1>11. NamedOK'
  BY <1>2, <1>3, <1>4, <1>6, <1>7, <1>10, Journals
     DEF Inv, Disk, NamedOK, StagingOK, Confirmed, InTransit, IsSwitching, IsStaging
<1>12. AtWork(w)'
  BY <1>2, <1>3, <1>4, <1>6, <1>7, Journals DEF AtWork, Moved, Same, IsStaging, Past
<1>13. Served' /\ HealthyRan'
  BY <1>2 DEF Inv, Alone, Served, HealthyRan
<1>14. ~overlap => (Undone /\ CurrentOK /\ Only(w))'
  <2> HAVE ~overlap
  <2>1. Undone /\ CurrentOK /\ Only(w)  BY DEF Inv, Alone, AloneInv
  <2>2. \A x : Good(x) => Good(x)'
    BY <1>2, <1>3, <1>4, <1>6, <1>7, Journals DEF Good, StagingOK, Inv, Disk
  <2>3. CurrentOK'
    BY <1>2, <1>3, <1>4, <1>6, <1>7, <2>1, <2>2 DEF CurrentOK, InTransit, Good, Only
  <2>4. Undone'  BY <1>2, <1>3, <1>4, <1>6, <1>7, <2>1, <2>2, Journals DEF Undone, IsSwitching
  <2>5. Only(w)'
    BY <1>2, <1>3, <1>4, <1>6, <1>7, <2>1, <2>2, Journals
       DEF Only, Before, IsSwitching, Moved, Same
  <2> QED  BY <2>3, <2>4, <2>5
<1>15. Along  BY <1>2, <1>3, <1>4, <1>6, <1>7 DEF Along, Transitions
<1>16. Alive(w) /\ "published" \in Labels \ {"idle"}  BY <1>3 DEF Alive, Ended, Labels
<1>17. \A d \in Changes : Past(d) => Past(d)'
  BY <1>2, <1>3, <1>4, <1>6, <1>7, Journals DEF Past, IsStaging, StagingOK
<1> QED
  BY <1>3, <1>8, <1>9, <1>11, <1>12, <1>13, <1>14, <1>15, <1>16, <1>17, Others DEF Kept

LEMMA RecordStagedKeeps ==
  ASSUME Inv, NEW w \in Workers, RecordStaged(w), UNCHANGED overlap
  PROVE  Kept
<1>1. /\ Inside(w, "published", "recorded")
      /\ record' = [record EXCEPT ![worker[w].change] = "staged"]
      /\ UNCHANGED <<slot, receipt, journal, current, previous, service, ran>>
  BY Zenon DEF RecordStaged
<1>2. UNCHANGED <<slot, receipt, journal, current, previous, service, ran>>  BY <1>1
<1>3. /\ worker[w].pc = "published" /\ Moved(w, "recorded") /\ Same(w)
      /\ lock = w /\ lock' = w /\ Sections' /\ Begun'
  BY <1>1, InsideMoves DEF Inv, Locked, Labels, Ended
<1>4. PICK c \in Changes : c = worker[w].change /\ c = worker'[w].change
  BY <1>3 DEF Inv, Control, Begun, Moved
<1>5. TypeOK  BY DEF Inv, Control
<1>6. /\ record'[c] = "staged"
      /\ \A d \in Changes \ {c} : record'[d] = record[d]
  BY <1>1, <1>4, <1>5 DEF TypeOK
<1>7. journal[c] = Staging(TRUE) /\ slot[c] /\ record[c] = "none"
  BY <1>1, <1>3, <1>4 DEF Inv, Disk, AllAtWork, AtWork
<1>8. TypeOK'
  BY <1>1, <1>2, <1>3, <1>4, <1>5, Journals, BuilderAssumption
     DEF TypeOK, Moved, States, Pointers
<1>9. StagingOK' /\ NoOrphans'
  <2>1. StagingOK /\ NoOrphans  BY DEF Inv, Disk
  <2>2. \A d \in Changes \ {c} :
           slot'[d] = slot[d] /\ record'[d] = record[d] /\ journal'[d] = journal[d]
    BY <1>2, <1>6
  <2>3. IsStaging(c)' => record'[c] \in {"none", "staged"}
    BY <1>2, <1>3, <1>4, <1>6, <1>7, <2>1, Journals DEF StagingOK, IsStaging, Past
  <2>4. ~IsStaging(c)' => slot'[c] = (record'[c] # "none")
    BY <1>2, <1>3, <1>4, <1>6, <1>7, <2>1, Journals DEF NoOrphans, StagingOK, IsStaging
  <2> QED  BY <2>2, <2>3, <2>4, OrphansKept
<1>10. \A x : Named(x)' => Named(x)
  <2>1. current' = current /\ previous' = previous  BY <1>2, <1>3, <1>4, <1>6, <1>7
  <2>2. \A d \in Changes : journal'[d].state = "switching" =>
           journal[d].state = "switching" /\ journal'[d].prev = journal[d].prev
    BY <1>2, <1>3, <1>4, <1>6, <1>7, Journals
  <2>3. \A v \in Workers : worker'[v].pc \in {"saved", "marked"} =>
           worker[v].pc \in {"saved", "marked"} /\ worker'[v].prev = worker[v].prev
    BY <1>2, <1>3, <1>4, <1>6, <1>7 DEF Moved, Same
  <2> QED  BY <2>1, <2>2, <2>3, NamedLess
<1>11. NamedOK'
  BY <1>2, <1>3, <1>4, <1>6, <1>7, <1>10, Journals
     DEF Inv, Disk, NamedOK, StagingOK, Confirmed, InTransit, IsSwitching, IsStaging
<1>12. AtWork(w)'
  BY <1>2, <1>3, <1>4, <1>6, <1>7, Journals DEF AtWork, Moved, Same, IsStaging, Past
<1>13. Served' /\ HealthyRan'
  BY <1>2, <1>3, <1>4, <1>6, <1>7 DEF Inv, Alone, Served, HealthyRan
<1>14. ~overlap => (Undone /\ CurrentOK /\ Only(w))'
  <2> HAVE ~overlap
  <2>1. Undone /\ CurrentOK /\ Only(w)  BY DEF Inv, Alone, AloneInv
  <2>2. \A x : Good(x) => Good(x)'
    BY <1>2, <1>3, <1>4, <1>6, <1>7, Journals DEF Good, StagingOK, Inv, Disk
  <2>3. CurrentOK'
    BY <1>2, <1>3, <1>4, <1>6, <1>7, <2>1, <2>2 DEF CurrentOK, InTransit, Good, Only
  <2>4. Undone'  BY <1>2, <1>3, <1>4, <1>6, <1>7, <2>1, <2>2, Journals DEF Undone, IsSwitching
  <2>5. Only(w)'
    BY <1>2, <1>3, <1>4, <1>6, <1>7, <2>1, <2>2, Journals
       DEF Only, Before, IsSwitching, Moved, Same
  <2> QED  BY <2>3, <2>4, <2>5
<1>15. Along  BY <1>2, <1>3, <1>4, <1>6, <1>7 DEF Along, Transitions
<1>16. Alive(w) /\ "recorded" \in Labels \ {"idle"}  BY <1>3 DEF Alive, Ended, Labels
<1>17. \A d \in Changes : Past(d) => Past(d)'
  BY <1>2, <1>3, <1>4, <1>6, <1>7, Journals DEF Past, IsStaging, StagingOK
<1> QED
  BY <1>3, <1>8, <1>9, <1>11, <1>12, <1>13, <1>14, <1>15, <1>16, <1>17, Others DEF Kept

LEMMA FinishStageKeeps ==
  ASSUME Inv, NEW w \in Workers, FinishStage(w), UNCHANGED overlap
  PROVE  Kept
<1>1. /\ Leave(w, "recorded", "staged")
      /\ journal' = [journal EXCEPT ![worker[w].change] = NoJournal]
      /\ UNCHANGED <<slot, receipt, record, current, previous, service, ran>>
  BY Zenon DEF FinishStage
<1>2. UNCHANGED <<slot, receipt, record, current, previous, service, ran>>  BY <1>1
<1>3. /\ worker[w].pc = "recorded" /\ Moved(w, "staged") /\ Same(w)
      /\ lock = w /\ lock' = NULL /\ Sections' /\ Begun'
  BY <1>1, LeaveMoves DEF Inv, Locked, Labels, Ended
<1>4. PICK c \in Changes : c = worker[w].change /\ c = worker'[w].change
  BY <1>3 DEF Inv, Control, Begun, Moved
<1>5. TypeOK  BY DEF Inv, Control
<1>6. /\ journal'[c] = NoJournal
      /\ \A d \in Changes \ {c} : journal'[d] = journal[d]
      /\ journal'[c].state = "none"
  BY <1>1, <1>4, <1>5, Journals DEF TypeOK
<1>7. journal[c] = Staging(TRUE) /\ slot[c] /\ record[c] = "staged"
  BY <1>1, <1>3, <1>4 DEF Inv, Disk, AllAtWork, AtWork
<1>8. TypeOK'
  BY <1>1, <1>2, <1>3, <1>4, <1>5, Journals, BuilderAssumption
     DEF TypeOK, Moved, States, Pointers
<1>9. StagingOK' /\ NoOrphans'
  <2>1. StagingOK /\ NoOrphans  BY DEF Inv, Disk
  <2>2. \A d \in Changes \ {c} :
           slot'[d] = slot[d] /\ record'[d] = record[d] /\ journal'[d] = journal[d]
    BY <1>2, <1>6
  <2>3. IsStaging(c)' => record'[c] \in {"none", "staged"}
    BY <1>2, <1>3, <1>4, <1>6, <1>7, <2>1, Journals DEF StagingOK, IsStaging, Past
  <2>4. ~IsStaging(c)' => slot'[c] = (record'[c] # "none")
    BY <1>2, <1>3, <1>4, <1>6, <1>7, <2>1, Journals DEF NoOrphans, StagingOK, IsStaging
  <2> QED  BY <2>2, <2>3, <2>4, OrphansKept
<1>10. \A x : Named(x)' => Named(x)
  <2>1. current' = current /\ previous' = previous  BY <1>2, <1>3, <1>4, <1>6, <1>7
  <2>2. \A d \in Changes : journal'[d].state = "switching" =>
           journal[d].state = "switching" /\ journal'[d].prev = journal[d].prev
    BY <1>2, <1>3, <1>4, <1>6, <1>7, Journals
  <2>3. \A v \in Workers : worker'[v].pc \in {"saved", "marked"} =>
           worker[v].pc \in {"saved", "marked"} /\ worker'[v].prev = worker[v].prev
    BY <1>2, <1>3, <1>4, <1>6, <1>7 DEF Moved, Same
  <2> QED  BY <2>1, <2>2, <2>3, NamedLess
<1>11. NamedOK'
  BY <1>2, <1>3, <1>4, <1>6, <1>7, <1>10, Journals
     DEF Inv, Disk, NamedOK, StagingOK, Confirmed, InTransit, IsSwitching, IsStaging
<1>12. AtWork(w)'
  BY <1>2, <1>3, <1>4, <1>6, <1>7, Journals DEF AtWork, Moved, Same, IsStaging, Past
<1>13. Served' /\ HealthyRan'
  BY <1>2 DEF Inv, Alone, Served, HealthyRan
<1>14. ~overlap => (Undone /\ CurrentOK /\ Only(w))'
  <2> HAVE ~overlap
  <2>1. Undone /\ CurrentOK /\ Only(w)  BY DEF Inv, Alone, AloneInv
  <2>2. \A x : Good(x) => Good(x)'
    BY <1>2, <1>3, <1>4, <1>6, <1>7, Journals DEF Good, StagingOK, Inv, Disk
  <2>3. CurrentOK'
    BY <1>2, <1>3, <1>4, <1>6, <1>7, <2>1, <2>2 DEF CurrentOK, InTransit, Good, Only
  <2>4. Undone'  BY <1>2, <1>3, <1>4, <1>6, <1>7, <2>1, <2>2, Journals DEF Undone, IsSwitching
  <2>5. Only(w)'
    BY <1>2, <1>3, <1>4, <1>6, <1>7, <2>1, <2>2, Journals
       DEF Only, Before, IsSwitching, Moved, Same
  <2> QED  BY <2>3, <2>4, <2>5
<1>15. Along  BY <1>2, <1>3, <1>4, <1>6, <1>7 DEF Along, Transitions
<1>16. Alive(w) /\ "staged" \in Labels \ {"idle"}  BY <1>3 DEF Alive, Ended, Labels
<1>17. \A d \in Changes : Past(d) => Past(d)'
  BY <1>2, <1>3, <1>4, <1>6, <1>7, Journals DEF Past, IsStaging, StagingOK
<1> QED
  BY <1>3, <1>8, <1>9, <1>11, <1>12, <1>13, <1>14, <1>15, <1>16, <1>17, Others DEF Kept

LEMMA MarkSwitchingKeeps ==
  ASSUME Inv, NEW w \in Workers, MarkSwitching(w), UNCHANGED overlap
  PROVE  Kept
<1>1. /\ Inside(w, "saved", "marked")
      /\ record' = [record EXCEPT ![worker[w].change] = "switching"]
      /\ UNCHANGED <<slot, receipt, journal, current, previous, service, ran>>
  BY Zenon DEF MarkSwitching
<1>2. UNCHANGED <<slot, receipt, journal, current, previous, service, ran>>  BY <1>1
<1>3. /\ worker[w].pc = "saved" /\ Moved(w, "marked") /\ Same(w)
      /\ lock = w /\ lock' = w /\ Sections' /\ Begun'
  BY <1>1, InsideMoves DEF Inv, Locked, Labels, Ended
<1>4. PICK c \in Changes : c = worker[w].change /\ c = worker'[w].change
  BY <1>3 DEF Inv, Control, Begun, Moved
<1>5. TypeOK  BY DEF Inv, Control
<1>6. /\ record'[c] = "switching"
      /\ \A d \in Changes \ {c} : record'[d] = record[d]
  BY <1>1, <1>4, <1>5 DEF TypeOK
<1>7. record[c] = "awaiting_confirmation" /\ slot[c] /\ receipt[c] = "passed"
  BY <1>1, <1>3, <1>4 DEF Inv, Disk, AllAtWork, AtWork
<1>8. TypeOK'
  BY <1>1, <1>2, <1>3, <1>4, <1>5, Journals, BuilderAssumption
     DEF TypeOK, Moved, States, Pointers
<1>9. StagingOK' /\ NoOrphans'
  <2>1. StagingOK /\ NoOrphans  BY DEF Inv, Disk
  <2>2. \A d \in Changes \ {c} :
           slot'[d] = slot[d] /\ record'[d] = record[d] /\ journal'[d] = journal[d]
    BY <1>2, <1>6
  <2>3. IsStaging(c)' => record'[c] \in {"none", "staged"}
    BY <1>2, <1>3, <1>4, <1>6, <1>7, <2>1, Journals DEF StagingOK, IsStaging, Past
  <2>4. ~IsStaging(c)' => slot'[c] = (record'[c] # "none")
    BY <1>2, <1>3, <1>4, <1>6, <1>7, <2>1, Journals DEF NoOrphans, StagingOK, IsStaging
  <2> QED  BY <2>2, <2>3, <2>4, OrphansKept
<1>10. \A x : Named(x)' => Named(x)
  <2>1. current' = current /\ previous' = previous  BY <1>2, <1>3, <1>4, <1>6, <1>7
  <2>2. \A d \in Changes : journal'[d].state = "switching" =>
           journal[d].state = "switching" /\ journal'[d].prev = journal[d].prev
    BY <1>2, <1>3, <1>4, <1>6, <1>7, Journals
  <2>3. \A v \in Workers : worker'[v].pc \in {"saved", "marked"} =>
           worker[v].pc \in {"saved", "marked"} /\ worker'[v].prev = worker[v].prev
    BY <1>2, <1>3, <1>4, <1>6, <1>7 DEF Moved, Same
  <2> QED  BY <2>1, <2>2, <2>3, NamedLess
<1>11. NamedOK'
  BY <1>2, <1>3, <1>4, <1>6, <1>7, <1>10, Journals
     DEF Inv, Disk, NamedOK, StagingOK, Confirmed, InTransit, IsSwitching, IsStaging
<1>12. AtWork(w)'
  <2>1. ~Named(c)  BY <1>7 DEF Inv, Disk, NamedOK, Confirmed
  <2> QED  BY <1>2, <1>3, <1>4, <1>6, <1>7, <1>10, <2>1 DEF AtWork, Moved
<1>13. Served' /\ HealthyRan'
  BY <1>2, <1>3, <1>4, <1>6, <1>7 DEF Inv, Alone, Served, HealthyRan
<1>14. ~overlap => (Undone /\ CurrentOK /\ Only(w))'
  <2> HAVE ~overlap
  <2>1. Undone /\ CurrentOK /\ Only(w)  BY DEF Inv, Alone, AloneInv
  <2>2. \A x : Good(x) => Good(x)'
    BY <1>2, <1>3, <1>4, <1>6, <1>7, Journals DEF Good, StagingOK, Inv, Disk
  <2>3. CurrentOK'
    BY <1>2, <1>3, <1>4, <1>6, <1>7, <2>1, <2>2 DEF CurrentOK, InTransit, Good, Only
  <2>4. Undone'  BY <1>2, <1>3, <1>4, <1>6, <1>7, <2>1, <2>2, Journals DEF Undone, IsSwitching
  <2>5. Only(w)'
    BY <1>2, <1>3, <1>4, <1>6, <1>7, <2>1, <2>2, Journals
       DEF Only, Before, IsSwitching, Moved, Same
  <2> QED  BY <2>3, <2>4, <2>5
<1>15. Along  BY <1>2, <1>3, <1>4, <1>6, <1>7 DEF Along, Transitions
<1>16. Alive(w) /\ "marked" \in Labels \ {"idle"}  BY <1>3 DEF Alive, Ended, Labels
<1>17. \A d \in Changes : Past(d) => Past(d)'
  BY <1>2, <1>3, <1>4, <1>6, <1>7, Journals DEF Past, IsStaging, StagingOK
<1> QED
  BY <1>3, <1>8, <1>9, <1>11, <1>12, <1>13, <1>14, <1>15, <1>16, <1>17, Others DEF Kept

LEMMA JournalSwitchKeeps ==
  ASSUME Inv, NEW w \in Workers, JournalSwitch(w), UNCHANGED overlap
  PROVE  Kept
<1>1. /\ Inside(w, "marked", "armed")
      /\ journal' = [journal EXCEPT ![worker[w].change] = Switching(worker[w].prev)]
      /\ UNCHANGED <<slot, receipt, record, current, previous, service, ran>>
  BY Zenon DEF JournalSwitch
<1>2. UNCHANGED <<slot, receipt, record, current, previous, service, ran>>  BY <1>1
<1>3. /\ worker[w].pc = "marked" /\ Moved(w, "armed") /\ Same(w)
      /\ lock = w /\ lock' = w /\ Sections' /\ Begun'
  BY <1>1, InsideMoves DEF Inv, Locked, Labels, Ended
<1>4. PICK c \in Changes : c = worker[w].change /\ c = worker'[w].change
  BY <1>3 DEF Inv, Control, Begun, Moved
<1>5. TypeOK  BY DEF Inv, Control
<1>6. /\ journal'[c] = Switching(worker[w].prev)
      /\ \A d \in Changes \ {c} : journal'[d] = journal[d]
      /\ journal'[c].state = "switching"
      /\ journal'[c].prev = worker[w].prev
  BY <1>1, <1>4, <1>5, Journals DEF TypeOK, Worker
<1>7. record[c] = "switching" /\ slot[c] /\ receipt[c] = "passed" /\ ~Named(c)
  BY <1>1, <1>3, <1>4 DEF Inv, Disk, AllAtWork, AtWork
<1>8. TypeOK'
  BY <1>1, <1>2, <1>3, <1>4, <1>5, Journals, BuilderAssumption
     DEF TypeOK, Moved, States, Pointers, Worker
<1>9. StagingOK' /\ NoOrphans'
  <2>1. StagingOK /\ NoOrphans  BY DEF Inv, Disk
  <2>2. \A d \in Changes \ {c} :
           slot'[d] = slot[d] /\ record'[d] = record[d] /\ journal'[d] = journal[d]
    BY <1>2, <1>6
  <2>3. IsStaging(c)' => record'[c] \in {"none", "staged"}
    BY <1>2, <1>3, <1>4, <1>6, <1>7, <2>1, Journals DEF StagingOK, IsStaging, Past
  <2>4. ~IsStaging(c)' => slot'[c] = (record'[c] # "none")
    BY <1>2, <1>3, <1>4, <1>6, <1>7, <2>1, Journals DEF NoOrphans, StagingOK, IsStaging
  <2> QED  BY <2>2, <2>3, <2>4, OrphansKept
<1>10. \A x : Named(x)' => Named(x)
  <2> TAKE x
  <2>1. ASSUME NEW d \in Changes, IsSwitching(d)', journal'[d].prev = x
        PROVE  Named(x)
    <3>1. CASE d = c  BY <1>3, <1>6, <2>1, <3>1 DEF Named
    <3>2. CASE d # c  BY <1>6, <2>1, <3>2 DEF Named, IsSwitching
    <3> QED  BY <3>1, <3>2
  <2>2. ASSUME NEW v \in Workers, worker'[v].pc \in {"saved", "marked"}, worker'[v].prev = x
        PROVE  Named(x)
    BY <1>3, <2>2 DEF Named, Moved
  <2> QED  BY <1>2, <2>1, <2>2 DEF Named
<1>11. NamedOK'
  BY <1>2, <1>3, <1>4, <1>6, <1>7, <1>10, Journals
     DEF Inv, Disk, NamedOK, StagingOK, Confirmed, InTransit, IsSwitching, IsStaging
<1>12. AtWork(w)'
  BY <1>2, <1>3, <1>4, <1>6, <1>7, Journals DEF AtWork, Moved, Same, IsStaging, Past
<1>13. Served' /\ HealthyRan'
  BY <1>2 DEF Inv, Alone, Served, HealthyRan
<1>14. ~overlap => (Undone /\ CurrentOK /\ Only(w))'
  <2> HAVE ~overlap
  <2>1. Undone /\ CurrentOK /\ Only(w)  BY DEF Inv, Alone, AloneInv
  <2>2. \A x : Good(x) => Good(x)'
    BY <1>2, <1>3, <1>4, <1>6, <1>7, Journals DEF Good, StagingOK, Inv, Disk
  <2>3. CurrentOK'
    BY <1>2, <1>3, <1>4, <1>6, <1>7, <2>1, <2>2 DEF CurrentOK, InTransit, Good, Only
  <2>4. Undone'
    <3>1. worker[w].prev = previous /\ Good(previous)  BY <1>3, <2>1 DEF Only
    <3>2. ASSUME NEW d \in Changes, IsSwitching(d)'
          PROVE  Good(journal[d].prev)'
      <4>1. CASE d = c
        <5>1. journal'[d].prev = previous  BY <1>6, <3>1, <4>1
        <5> QED  BY <1>2, <3>1, <5>1 DEF Good
      <4>2. CASE d # c
        <5>1. journal'[d] = journal[d]  BY <1>6, <4>2
        <5>2. Good(journal[d].prev)  BY <2>1, <3>2, <5>1 DEF Undone, IsSwitching
        <5> QED  BY <1>2, <5>1, <5>2 DEF Good
      <4> QED  BY <4>1, <4>2
    <3> QED  BY <3>2 DEF Undone
  <2>5. Only(w)'
    BY <1>2, <1>3, <1>4, <1>6, <1>7, <2>1, <2>2, Journals
       DEF Only, Before, IsSwitching, Moved, Same
  <2> QED  BY <2>3, <2>4, <2>5
<1>15. Along  BY <1>2, <1>3, <1>4, <1>6, <1>7 DEF Along, Transitions
<1>16. Alive(w) /\ "armed" \in Labels \ {"idle"}  BY <1>3 DEF Alive, Ended, Labels
<1>17. \A d \in Changes : Past(d) => Past(d)'
  BY <1>2, <1>3, <1>4, <1>6, <1>7, Journals DEF Past, IsStaging, StagingOK
<1> QED
  BY <1>3, <1>8, <1>9, <1>11, <1>12, <1>13, <1>14, <1>15, <1>16, <1>17, Others DEF Kept

LEMMA SwitchPointerKeeps ==
  ASSUME Inv, NEW w \in Workers, SwitchPointer(w), UNCHANGED overlap
  PROVE  Kept
<1>1. /\ Leave(w, "armed", "switched")
      /\ current' = worker[w].change
      /\ UNCHANGED <<slot, receipt, record, journal, previous, service, ran>>
  BY Zenon DEF SwitchPointer
<1>2. UNCHANGED <<slot, receipt, record, journal, previous, service, ran>>  BY <1>1
<1>3. /\ worker[w].pc = "armed" /\ Moved(w, "switched") /\ Same(w)
      /\ lock = w /\ lock' = NULL /\ Sections' /\ Begun'
  BY <1>1, LeaveMoves DEF Inv, Locked, Labels, Ended
<1>4. PICK c \in Changes : c = worker[w].change /\ c = worker'[w].change
  BY <1>3 DEF Inv, Control, Begun, Moved
<1>5. TypeOK  BY DEF Inv, Control
<1>6. current' = c  BY <1>1, <1>4
<1>7. /\ record[c] = "switching" /\ slot[c] /\ receipt[c] = "passed"
      /\ journal[c] = Switching(worker[w].prev)
  BY <1>1, <1>3, <1>4 DEF Inv, Disk, AllAtWork, AtWork
<1>8. TypeOK'
  BY <1>1, <1>2, <1>3, <1>4, <1>5, Journals, BuilderAssumption
     DEF TypeOK, Moved, States, Pointers
<1>9. StagingOK' /\ NoOrphans'
  <2>1. StagingOK /\ NoOrphans  BY DEF Inv, Disk
  <2>2. \A d \in Changes \ {c} :
           slot'[d] = slot[d] /\ record'[d] = record[d] /\ journal'[d] = journal[d]
    BY <1>2, <1>6
  <2>3. IsStaging(c)' => record'[c] \in {"none", "staged"}
    BY <1>2, <1>3, <1>4, <1>6, <1>7, <2>1, Journals DEF StagingOK, IsStaging, Past
  <2>4. ~IsStaging(c)' => slot'[c] = (record'[c] # "none")
    BY <1>2, <1>3, <1>4, <1>6, <1>7, <2>1, Journals DEF NoOrphans, StagingOK, IsStaging
  <2> QED  BY <2>2, <2>3, <2>4, OrphansKept
<1>10. \A x : Named(x)' => Named(x) \/ x = c
  BY <1>2, <1>3, <1>6 DEF Named, IsSwitching, Moved
<1>11. NamedOK'
  <2>1. IsSwitching(c)  BY <1>7, Journals, <1>3, <1>5 DEF IsSwitching, TypeOK, Worker
  <2> QED
    BY <1>2, <1>6, <1>7, <1>10, <2>1 DEF Inv, Disk, NamedOK, Confirmed, InTransit, IsSwitching
<1>12. AtWork(w)'
  BY <1>2, <1>3, <1>4, <1>6, <1>7, Journals DEF AtWork, Moved, Same, IsStaging, Past
<1>13. Served' /\ HealthyRan'
  BY <1>2 DEF Inv, Alone, Served, HealthyRan
<1>14. ~overlap => (Undone /\ CurrentOK /\ Only(w))'
  <2> HAVE ~overlap
  <2>1. Undone /\ CurrentOK /\ Only(w)  BY DEF Inv, Alone, AloneInv
  <2>2. \A x : Good(x) => Good(x)'
    BY <1>2, <1>3, <1>4, <1>6, <1>7, Journals DEF Good, StagingOK, Inv, Disk
  <2>3. CurrentOK'
    BY <1>2, <1>3, <1>4, <1>6, <1>7, <2>1, <2>2 DEF CurrentOK, InTransit, Good, Only
  <2>4. Undone'  BY <1>2, <1>3, <1>4, <1>6, <1>7, <2>1, <2>2, Journals DEF Undone, IsSwitching
  <2>5. Only(w)'
    BY <1>2, <1>3, <1>4, <1>6, <1>7, <2>1, <2>2, Journals
       DEF Only, Before, IsSwitching, Moved, Same
  <2> QED  BY <2>3, <2>4, <2>5
<1>15. Along  BY <1>2, <1>3, <1>4, <1>6, <1>7 DEF Along, Transitions
<1>16. Alive(w) /\ "switched" \in Labels \ {"idle"}  BY <1>3 DEF Alive, Ended, Labels
<1>17. \A d \in Changes : Past(d) => Past(d)'
  BY <1>2, <1>3, <1>4, <1>6, <1>7, Journals DEF Past, IsStaging, StagingOK
<1> QED
  BY <1>3, <1>8, <1>9, <1>11, <1>12, <1>13, <1>14, <1>15, <1>16, <1>17, Others DEF Kept

LEMMA FinishSwitchKeeps ==
  ASSUME Inv, NEW w \in Workers, FinishSwitch(w), UNCHANGED overlap
  PROVE  Kept
<1>1. /\ Leave(w, "accepted", "over")
      /\ journal' = [journal EXCEPT ![worker[w].change] = NoJournal]
      /\ UNCHANGED <<slot, receipt, record, current, previous, service, ran>>
  BY Zenon DEF FinishSwitch
<1>2. UNCHANGED <<slot, receipt, record, current, previous, service, ran>>  BY <1>1
<1>3. /\ worker[w].pc = "accepted" /\ Moved(w, "over")
      /\ lock = w /\ lock' = NULL /\ Sections' /\ Begun'
  BY <1>1, LeaveMoves DEF Inv, Locked, Labels, Ended
<1>4. PICK c \in Changes : c = worker[w].change /\ c = worker'[w].change
  BY <1>3 DEF Inv, Control, Begun, Moved
<1>5. TypeOK  BY DEF Inv, Control
<1>6. /\ journal'[c] = NoJournal
      /\ \A d \in Changes \ {c} : journal'[d] = journal[d]
      /\ journal'[c].state = "none"
  BY <1>1, <1>4, <1>5, Journals DEF TypeOK
<1>7. record[c] = "healthy"
  BY <1>1, <1>3, <1>4 DEF Inv, Disk, AllAtWork, AtWork
<1>8. TypeOK'
  BY <1>1, <1>2, <1>3, <1>4, <1>5, Journals, BuilderAssumption
     DEF TypeOK, Moved, States, Pointers
<1>9. StagingOK' /\ NoOrphans'
  <2>1. StagingOK /\ NoOrphans  BY DEF Inv, Disk
  <2>2. \A d \in Changes \ {c} :
           slot'[d] = slot[d] /\ record'[d] = record[d] /\ journal'[d] = journal[d]
    BY <1>2, <1>6
  <2>3. IsStaging(c)' => record'[c] \in {"none", "staged"}
    BY <1>2, <1>3, <1>4, <1>6, <1>7, <2>1, Journals DEF StagingOK, IsStaging, Past
  <2>4. ~IsStaging(c)' => slot'[c] = (record'[c] # "none")
    BY <1>2, <1>3, <1>4, <1>6, <1>7, <2>1, Journals DEF NoOrphans, StagingOK, IsStaging
  <2> QED  BY <2>2, <2>3, <2>4, OrphansKept
<1>10. \A x : Named(x)' => Named(x)
  <2>1. current' = current /\ previous' = previous  BY <1>2, <1>3, <1>4, <1>6, <1>7
  <2>2. \A d \in Changes : journal'[d].state = "switching" =>
           journal[d].state = "switching" /\ journal'[d].prev = journal[d].prev
    BY <1>2, <1>3, <1>4, <1>6, <1>7, Journals
  <2>3. \A v \in Workers : worker'[v].pc \in {"saved", "marked"} =>
           worker[v].pc \in {"saved", "marked"} /\ worker'[v].prev = worker[v].prev
    BY <1>2, <1>3, <1>4, <1>6, <1>7 DEF Moved, Same
  <2> QED  BY <2>1, <2>2, <2>3, NamedLess
<1>11. NamedOK'
  BY <1>2, <1>3, <1>4, <1>6, <1>7, <1>10, Journals
     DEF Inv, Disk, NamedOK, StagingOK, Confirmed, InTransit, IsSwitching, IsStaging
<1>12. AtWork(w)'
  BY <1>2, <1>3, <1>4, <1>6, <1>7, Journals DEF AtWork, Moved, Same, IsStaging, Past
<1>13. Served' /\ HealthyRan'
  BY <1>2 DEF Inv, Alone, Served, HealthyRan
<1>14. ~overlap => (Undone /\ CurrentOK /\ Only(w))'
  <2> HAVE ~overlap
  <2>1. Undone /\ CurrentOK /\ Only(w)  BY DEF Inv, Alone, AloneInv
  <2>2. \A x : Good(x) => Good(x)'
    BY <1>2, <1>3, <1>4, <1>6, <1>7, Journals DEF Good, StagingOK, Inv, Disk
  <2>3. CurrentOK'
    BY <1>2, <1>3, <1>4, <1>6, <1>7, <2>1, <2>2 DEF CurrentOK, InTransit, Good, Only
  <2>4. Undone'  BY <1>2, <1>3, <1>4, <1>6, <1>7, <2>1, <2>2, Journals DEF Undone, IsSwitching
  <2>5. Only(w)'
    BY <1>2, <1>3, <1>4, <1>6, <1>7, <2>1, <2>2, Journals
       DEF Only, Before, IsSwitching, Moved, Same
  <2> QED  BY <2>3, <2>4, <2>5
<1>15. Along  BY <1>2, <1>3, <1>4, <1>6, <1>7 DEF Along, Transitions
<1>16. Alive(w) /\ "over" \in Labels \ {"idle"}  BY <1>3 DEF Alive, Ended, Labels
<1>17. \A d \in Changes : Past(d) => Past(d)'
  BY <1>2, <1>3, <1>4, <1>6, <1>7, Journals DEF Past, IsStaging, StagingOK
<1> QED
  BY <1>3, <1>8, <1>9, <1>11, <1>12, <1>13, <1>14, <1>15, <1>16, <1>17, Others DEF Kept

LEMMA FinishRollbackKeeps ==
  ASSUME Inv, NEW w \in Workers, FinishRollback(w), UNCHANGED overlap
  PROVE  Kept
<1>1. /\ Leave(w, "closing", "over")
      /\ journal' = [journal EXCEPT ![worker[w].change] = NoJournal]
      /\ UNCHANGED <<slot, receipt, record, current, previous, service, ran>>
  BY Zenon DEF FinishRollback
<1>2. UNCHANGED <<slot, receipt, record, current, previous, service, ran>>  BY <1>1
<1>3. /\ worker[w].pc = "closing" /\ Moved(w, "over")
      /\ lock = w /\ lock' = NULL /\ Sections' /\ Begun'
  BY <1>1, LeaveMoves DEF Inv, Locked, Labels, Ended
<1>4. PICK c \in Changes : c = worker[w].change /\ c = worker'[w].change
  BY <1>3 DEF Inv, Control, Begun, Moved
<1>5. TypeOK  BY DEF Inv, Control
<1>6. /\ journal'[c] = NoJournal
      /\ \A d \in Changes \ {c} : journal'[d] = journal[d]
      /\ journal'[c].state = "none"
  BY <1>1, <1>4, <1>5, Journals DEF TypeOK
<1>7. record[c] \in {"rolled_back", "recovery_required"}
  BY <1>1, <1>3, <1>4 DEF Inv, Disk, AllAtWork, AtWork
<1>8. TypeOK'
  BY <1>1, <1>2, <1>3, <1>4, <1>5, Journals, BuilderAssumption
     DEF TypeOK, Moved, States, Pointers
<1>9. StagingOK' /\ NoOrphans'
  <2>1. StagingOK /\ NoOrphans  BY DEF Inv, Disk
  <2>2. \A d \in Changes \ {c} :
           slot'[d] = slot[d] /\ record'[d] = record[d] /\ journal'[d] = journal[d]
    BY <1>2, <1>6
  <2>3. IsStaging(c)' => record'[c] \in {"none", "staged"}
    BY <1>2, <1>3, <1>4, <1>6, <1>7, <2>1, Journals DEF StagingOK, IsStaging, Past
  <2>4. ~IsStaging(c)' => slot'[c] = (record'[c] # "none")
    BY <1>2, <1>3, <1>4, <1>6, <1>7, <2>1, Journals DEF NoOrphans, StagingOK, IsStaging
  <2> QED  BY <2>2, <2>3, <2>4, OrphansKept
<1>10. \A x : Named(x)' => Named(x)
  <2>1. current' = current /\ previous' = previous  BY <1>2, <1>3, <1>4, <1>6, <1>7
  <2>2. \A d \in Changes : journal'[d].state = "switching" =>
           journal[d].state = "switching" /\ journal'[d].prev = journal[d].prev
    BY <1>2, <1>3, <1>4, <1>6, <1>7, Journals
  <2>3. \A v \in Workers : worker'[v].pc \in {"saved", "marked"} =>
           worker[v].pc \in {"saved", "marked"} /\ worker'[v].prev = worker[v].prev
    BY <1>2, <1>3, <1>4, <1>6, <1>7 DEF Moved, Same
  <2> QED  BY <2>1, <2>2, <2>3, NamedLess
<1>11. NamedOK'
  BY <1>2, <1>3, <1>4, <1>6, <1>7, <1>10, Journals
     DEF Inv, Disk, NamedOK, StagingOK, Confirmed, InTransit, IsSwitching, IsStaging
<1>12. AtWork(w)'
  BY <1>2, <1>3, <1>4, <1>6, <1>7, Journals DEF AtWork, Moved, Same, IsStaging, Past
<1>13. Served' /\ HealthyRan'
  BY <1>2 DEF Inv, Alone, Served, HealthyRan
<1>14. ~overlap => (Undone /\ CurrentOK /\ Only(w))'
  <2> HAVE ~overlap
  <2>1. Undone /\ CurrentOK /\ Only(w)  BY DEF Inv, Alone, AloneInv
  <2>2. \A x : Good(x) => Good(x)'
    BY <1>2, <1>3, <1>4, <1>6, <1>7, Journals DEF Good, StagingOK, Inv, Disk
  <2>3. CurrentOK'
    BY <1>2, <1>3, <1>4, <1>6, <1>7, <2>1, <2>2 DEF CurrentOK, InTransit, Good, Only
  <2>4. Undone'  BY <1>2, <1>3, <1>4, <1>6, <1>7, <2>1, <2>2, Journals DEF Undone, IsSwitching
  <2>5. Only(w)'
    BY <1>2, <1>3, <1>4, <1>6, <1>7, <2>1, <2>2, Journals
       DEF Only, Before, IsSwitching, Moved, Same
  <2> QED  BY <2>3, <2>4, <2>5
<1>15. Along  BY <1>2, <1>3, <1>4, <1>6, <1>7 DEF Along, Transitions
<1>16. Alive(w) /\ "over" \in Labels \ {"idle"}  BY <1>3 DEF Alive, Ended, Labels
<1>17. \A d \in Changes : Past(d) => Past(d)'
  BY <1>2, <1>3, <1>4, <1>6, <1>7, Journals DEF Past, IsStaging, StagingOK
<1> QED
  BY <1>3, <1>8, <1>9, <1>11, <1>12, <1>13, <1>14, <1>15, <1>16, <1>17, Others DEF Kept

LEMMA RestorePointerKeeps ==
  ASSUME Inv, NEW w \in Workers, RestorePointer(w), UNCHANGED overlap
  PROVE  Kept
<1>1. /\ Leave(w, "refused", "restored")
      /\ current' = previous
      /\ UNCHANGED <<slot, receipt, record, journal, previous, service, ran>>
  BY Zenon DEF RestorePointer
<1>2. UNCHANGED <<slot, receipt, record, journal, previous, service, ran>>  BY <1>1
<1>3. /\ worker[w].pc = "refused" /\ Moved(w, "restored") /\ Same(w)
      /\ lock = w /\ lock' = NULL /\ Sections' /\ Begun'
  BY <1>1, LeaveMoves DEF Inv, Locked, Labels, Ended
<1>4. PICK c \in Changes : c = worker[w].change /\ c = worker'[w].change
  BY <1>3 DEF Inv, Control, Begun, Moved
<1>5. TypeOK  BY DEF Inv, Control
<1>6. current' = previous  BY <1>1, <1>4
<1>7. record[c] = "rolling_back"
  BY <1>1, <1>3, <1>4 DEF Inv, Disk, AllAtWork, AtWork
<1>8. TypeOK'
  BY <1>1, <1>2, <1>3, <1>4, <1>5, Journals, BuilderAssumption
     DEF TypeOK, Moved, States, Pointers
<1>9. StagingOK' /\ NoOrphans'
  <2>1. StagingOK /\ NoOrphans  BY DEF Inv, Disk
  <2>2. \A d \in Changes \ {c} :
           slot'[d] = slot[d] /\ record'[d] = record[d] /\ journal'[d] = journal[d]
    BY <1>2, <1>6
  <2>3. IsStaging(c)' => record'[c] \in {"none", "staged"}
    BY <1>2, <1>3, <1>4, <1>6, <1>7, <2>1, Journals DEF StagingOK, IsStaging, Past
  <2>4. ~IsStaging(c)' => slot'[c] = (record'[c] # "none")
    BY <1>2, <1>3, <1>4, <1>6, <1>7, <2>1, Journals DEF NoOrphans, StagingOK, IsStaging
  <2> QED  BY <2>2, <2>3, <2>4, OrphansKept
<1>10. \A x : Named(x)' => Named(x)
  BY <1>2, <1>3, <1>6 DEF Named, IsSwitching, Moved
<1>11. NamedOK'
  BY <1>2, <1>3, <1>4, <1>6, <1>7, <1>10, Journals
     DEF Inv, Disk, NamedOK, StagingOK, Confirmed, InTransit, IsSwitching, IsStaging
<1>12. AtWork(w)'
  BY <1>2, <1>3, <1>4, <1>6, <1>7, Journals DEF AtWork, Moved, Same, IsStaging, Past
<1>13. Served' /\ HealthyRan'
  BY <1>2 DEF Inv, Alone, Served, HealthyRan
<1>14. ~overlap => (Undone /\ CurrentOK /\ Only(w))'
  <2> HAVE ~overlap
  <2>1. Undone /\ CurrentOK /\ Only(w)  BY DEF Inv, Alone, AloneInv
  <2>2. \A x : Good(x) => Good(x)'
    BY <1>2, <1>3, <1>4, <1>6, <1>7, Journals DEF Good, StagingOK, Inv, Disk
  <2>3. CurrentOK'
    BY <1>2, <1>3, <1>4, <1>6, <1>7, <2>1, <2>2 DEF CurrentOK, InTransit, Good, Only
  <2>4. Undone'  BY <1>2, <1>3, <1>4, <1>6, <1>7, <2>1, <2>2, Journals DEF Undone, IsSwitching
  <2>5. Only(w)'
    BY <1>2, <1>3, <1>4, <1>6, <1>7, <2>1, <2>2, Journals
       DEF Only, Before, IsSwitching, Moved, Same
  <2> QED  BY <2>3, <2>4, <2>5
<1>15. Along  BY <1>2, <1>3, <1>4, <1>6, <1>7 DEF Along, Transitions
<1>16. Alive(w) /\ "restored" \in Labels \ {"idle"}  BY <1>3 DEF Alive, Ended, Labels
<1>17. \A d \in Changes : Past(d) => Past(d)'
  BY <1>2, <1>3, <1>4, <1>6, <1>7, Journals DEF Past, IsStaging, StagingOK
<1> QED
  BY <1>3, <1>8, <1>9, <1>11, <1>12, <1>13, <1>14, <1>15, <1>16, <1>17, Others DEF Kept

LEMMA RestoreJournalledKeeps ==
  ASSUME Inv, NEW w \in Workers, NEW c \in Changes, RestoreJournalled(w, c), UNCHANGED overlap
  PROVE  Kept
<1>1. /\ worker[w].pc \in {"opening", "staging"} /\ journal[c] # NoJournal
      /\ worker' = [worker EXCEPT ![w].at = c] /\ lock' = lock
      /\ current' = journal[c].prev
      /\ UNCHANGED <<slot, receipt, record, journal, previous, service, ran>>
  BY Zenon DEF RestoreJournalled, Reconciling, Reconciled
<1>2. IsSwitching(c)
  BY Zenon DEF RestoreJournalled, Reconciling, Reconciled
<1>3. UNCHANGED <<slot, receipt, record, journal, previous, service, ran>>  BY <1>1
<1>4. /\ Control /\ TypeOK /\ lock = w  BY <1>1 DEF Inv, Control, Sections, Locked
<1>5. /\ Moved(w, worker[w].pc) /\ Same(w) /\ worker[w].pc \in {"opening", "staging"}
      /\ Sections' /\ Begun' /\ lock' \in Workers \cup {NULL}
  <2>1. Moved(w, worker[w].pc) /\ Same(w)  BY <1>1, <1>4, AtMoves DEF Moved, Same, Pointers
  <2> QED  BY <1>1, <1>4, <2>1, LockMoves DEF Locked, Labels
<1>6. TypeOK  BY DEF Inv, Control
<1>7. current' = journal[c].prev  BY <1>1, <1>4
<1>8. /\ IsSwitching(c) /\ journal[c].prev \in Pointers
  BY <1>2, <1>6, Journals DEF IsSwitching, TypeOK
<1>9. TypeOK'
  BY <1>1, <1>3, <1>5, <1>4, <1>6, <1>8, Journals, BuilderAssumption
     DEF TypeOK, Moved, States, Pointers
<1>10. StagingOK' /\ NoOrphans'
  <2>1. StagingOK /\ NoOrphans  BY DEF Inv, Disk
  <2>2. \A d \in Changes \ {c} :
           slot'[d] = slot[d] /\ record'[d] = record[d] /\ journal'[d] = journal[d]
    BY <1>3, <1>7
  <2>3. IsStaging(c)' => record'[c] \in {"none", "staged"}
    BY <1>3, <1>5, <1>4, <1>7, <1>8, <2>1, Journals DEF StagingOK, IsStaging, Past
  <2>4. ~IsStaging(c)' => slot'[c] = (record'[c] # "none")
    BY <1>3, <1>5, <1>4, <1>7, <1>8, <2>1, Journals DEF NoOrphans, StagingOK, IsStaging
  <2> QED  BY <2>2, <2>3, <2>4, OrphansKept
<1>11. \A x : Named(x)' => Named(x)
  BY <1>1, <1>3, <1>5, <1>7, <1>8 DEF Named, IsSwitching, Moved, Same
<1>12. NamedOK'
  BY <1>3, <1>5, <1>4, <1>7, <1>8, <1>11, Journals
     DEF Inv, Disk, NamedOK, StagingOK, Confirmed, InTransit, IsSwitching, IsStaging
<1>13. AtWork(w)'
  BY <1>3, <1>5, <1>4, <1>7, <1>8, Journals DEF AtWork, Moved, Same, IsStaging, Past
<1>14. Served' /\ HealthyRan'
  BY <1>3 DEF Inv, Alone, Served, HealthyRan
<1>15. ~overlap => (Undone /\ CurrentOK /\ Only(w))'
  <2> HAVE ~overlap
  <2>1. Undone /\ CurrentOK /\ Only(w)  BY DEF Inv, Alone, AloneInv
  <2>2. \A x : Good(x) => Good(x)'
    BY <1>3, <1>5, <1>4, <1>7, <1>8, Journals DEF Good, StagingOK, Inv, Disk
  <2>3. CurrentOK'
    BY <1>3, <1>5, <1>4, <1>7, <1>8, <2>1, <2>2 DEF CurrentOK, InTransit, Good, Only, Undone
  <2>4. Undone'  BY <1>3, <1>5, <1>4, <1>7, <1>8, <2>1, <2>2, Journals DEF Undone, IsSwitching
  <2>5. Only(w)'
    BY <1>3, <1>5, <1>4, <1>7, <1>8, <2>1, <2>2, Journals
       DEF Only, Before, IsSwitching, Moved, Same
  <2> QED  BY <2>3, <2>4, <2>5
<1>16. Along  BY <1>3, <1>5, <1>4, <1>7, <1>8 DEF Along, Transitions
<1>17. Alive(w) /\ worker[w].pc \in Labels \ {"idle"}  BY <1>5 DEF Alive, Ended, Labels
<1>18. \A d \in Changes : Past(d) => Past(d)'
  BY <1>3, <1>5, <1>4, <1>7, <1>8, Journals DEF Past, IsStaging, StagingOK
<1> QED
  BY <1>5, <1>4, <1>9, <1>10, <1>12, <1>13, <1>14, <1>15, <1>16, <1>17, <1>18, Others DEF Kept

LEMMA MarkRecoveryKeeps ==
  ASSUME Inv, NEW w \in Workers, NEW c \in Changes, MarkRecovery(w, c), UNCHANGED overlap
  PROVE  Kept
<1>1. /\ worker[w].pc \in {"opening", "staging"} /\ journal[c] # NoJournal
      /\ worker' = [worker EXCEPT ![w].at = c] /\ lock' = lock
      /\ record' = [record EXCEPT ![c] = "recovery_required"]
      /\ UNCHANGED <<slot, receipt, journal, current, previous, service, ran>>
  BY Zenon DEF MarkRecovery, Reconciling, Reconciled
<1>2. IsSwitching(c) /\ current = journal[c].prev /\ record[c] \in {"switching", "rolling_back"}
  BY Zenon DEF MarkRecovery, Reconciling, Reconciled
<1>3. UNCHANGED <<slot, receipt, journal, current, previous, service, ran>>  BY <1>1
<1>4. /\ Control /\ TypeOK /\ lock = w  BY <1>1 DEF Inv, Control, Sections, Locked
<1>5. /\ Moved(w, worker[w].pc) /\ Same(w) /\ worker[w].pc \in {"opening", "staging"}
      /\ Sections' /\ Begun' /\ lock' \in Workers \cup {NULL}
  <2>1. Moved(w, worker[w].pc) /\ Same(w)  BY <1>1, <1>4, AtMoves DEF Moved, Same, Pointers
  <2> QED  BY <1>1, <1>4, <2>1, LockMoves DEF Locked, Labels
<1>6. TypeOK  BY DEF Inv, Control
<1>7. /\ record'[c] = "recovery_required"
      /\ \A d \in Changes \ {c} : record'[d] = record[d]
  BY <1>1, <1>4, <1>6 DEF TypeOK
<1>8. IsSwitching(c) /\ current = journal[c].prev /\ record[c] \in {"switching", "rolling_back"}
  BY <1>2
<1>9. TypeOK'
  BY <1>1, <1>3, <1>5, <1>4, <1>6, Journals, BuilderAssumption
     DEF TypeOK, Moved, States, Pointers
<1>10. StagingOK' /\ NoOrphans'
  <2>1. StagingOK /\ NoOrphans  BY DEF Inv, Disk
  <2>2. \A d \in Changes \ {c} :
           slot'[d] = slot[d] /\ record'[d] = record[d] /\ journal'[d] = journal[d]
    BY <1>3, <1>7
  <2>3. IsStaging(c)' => record'[c] \in {"none", "staged"}
    BY <1>3, <1>5, <1>4, <1>7, <1>8, <2>1, Journals DEF StagingOK, IsStaging, Past
  <2>4. ~IsStaging(c)' => slot'[c] = (record'[c] # "none")
    BY <1>3, <1>5, <1>4, <1>7, <1>8, <2>1, Journals DEF NoOrphans, StagingOK, IsStaging
  <2> QED  BY <2>2, <2>3, <2>4, OrphansKept
<1>11. \A x : Named(x)' => Named(x)
  <2>1. current' = current /\ previous' = previous  BY <1>3, <1>5, <1>4, <1>7, <1>8
  <2>2. \A d \in Changes : journal'[d].state = "switching" =>
           journal[d].state = "switching" /\ journal'[d].prev = journal[d].prev
    BY <1>3, <1>5, <1>4, <1>7, <1>8, Journals
  <2>3. \A v \in Workers : worker'[v].pc \in {"saved", "marked"} =>
           worker[v].pc \in {"saved", "marked"} /\ worker'[v].prev = worker[v].prev
    BY <1>3, <1>5, <1>4, <1>7, <1>8 DEF Moved, Same
  <2> QED  BY <2>1, <2>2, <2>3, NamedLess
<1>12. NamedOK'
  BY <1>3, <1>5, <1>4, <1>7, <1>8, <1>11, Journals
     DEF Inv, Disk, NamedOK, StagingOK, Confirmed, InTransit, IsSwitching, IsStaging
<1>13. AtWork(w)'
  BY <1>3, <1>5, <1>4, <1>7, <1>8, Journals DEF AtWork, Moved, Same, IsStaging, Past
<1>14. Served' /\ HealthyRan'
  BY <1>3, <1>5, <1>4, <1>7, <1>8 DEF Inv, Alone, Served, HealthyRan
<1>15. ~overlap => (Undone /\ CurrentOK /\ Only(w))'
  <2> HAVE ~overlap
  <2>1. Undone /\ CurrentOK /\ Only(w)  BY DEF Inv, Alone, AloneInv
  <2>2. \A x : Good(x) => Good(x)'
    BY <1>3, <1>5, <1>4, <1>7, <1>8, Journals DEF Good, StagingOK, Inv, Disk
  <2>3. CurrentOK'
    BY <1>3, <1>5, <1>4, <1>7, <1>8, <2>1, <2>2 DEF CurrentOK, InTransit, Good, Only, Undone
  <2>4. Undone'  BY <1>3, <1>5, <1>4, <1>7, <1>8, <2>1, <2>2, Journals DEF Undone, IsSwitching
  <2>5. Only(w)'
    BY <1>3, <1>5, <1>4, <1>7, <1>8, <2>1, <2>2, Journals
       DEF Only, Before, IsSwitching, Moved, Same
  <2> QED  BY <2>3, <2>4, <2>5
<1>16. Along  BY <1>3, <1>5, <1>4, <1>7, <1>8 DEF Along, Transitions
<1>17. Alive(w) /\ worker[w].pc \in Labels \ {"idle"}  BY <1>5 DEF Alive, Ended, Labels
<1>18. \A d \in Changes : Past(d) => Past(d)'
  BY <1>3, <1>5, <1>4, <1>7, <1>8, Journals DEF Past, IsStaging, StagingOK
<1> QED
  BY <1>5, <1>4, <1>9, <1>10, <1>12, <1>13, <1>14, <1>15, <1>16, <1>17, <1>18, Others DEF Kept

LEMMA DropJournalKeeps ==
  ASSUME Inv, NEW w \in Workers, NEW c \in Changes, DropJournal(w, c), UNCHANGED overlap
  PROVE  Kept
<1>1. /\ worker[w].pc \in {"opening", "staging"} /\ journal[c] # NoJournal
      /\ worker' = [worker EXCEPT ![w].at = NULL] /\ lock' = lock
      /\ journal' = [journal EXCEPT ![c] = NoJournal]
      /\ UNCHANGED <<slot, receipt, record, current, previous, service, ran>>
  BY Zenon DEF DropJournal, Reconciling, Reconciled
<1>2. (IsStaging(c) => slot[c] = (record[c] # "none"))
      /\ (IsSwitching(c) => current = journal[c].prev /\ record[c] \notin {"switching", "rolling_back"})
  BY Zenon DEF DropJournal, Reconciling, Reconciled
<1>3. UNCHANGED <<slot, receipt, record, current, previous, service, ran>>  BY <1>1
<1>4. /\ Control /\ TypeOK /\ lock = w  BY <1>1 DEF Inv, Control, Sections, Locked
<1>5. /\ Moved(w, worker[w].pc) /\ Same(w) /\ worker[w].pc \in {"opening", "staging"}
      /\ Sections' /\ Begun' /\ lock' \in Workers \cup {NULL}
  <2>1. Moved(w, worker[w].pc) /\ Same(w)  BY <1>1, <1>4, AtMoves DEF Moved, Same, Pointers
  <2> QED  BY <1>1, <1>4, <2>1, LockMoves DEF Locked, Labels
<1>6. TypeOK  BY DEF Inv, Control
<1>7. /\ journal'[c] = NoJournal
      /\ \A d \in Changes \ {c} : journal'[d] = journal[d]
      /\ journal'[c].state = "none"
  BY <1>1, <1>4, <1>6, Journals DEF TypeOK
<1>8. /\ (IsStaging(c) => slot[c] = (record[c] # "none"))
      /\ (IsSwitching(c) => record[c] \notin {"switching", "rolling_back"})
  BY <1>2
<1>9. TypeOK'
  BY <1>1, <1>3, <1>5, <1>4, <1>6, Journals, BuilderAssumption
     DEF TypeOK, Moved, States, Pointers
<1>10. StagingOK' /\ NoOrphans'
  <2>1. StagingOK /\ NoOrphans  BY DEF Inv, Disk
  <2>2. \A d \in Changes \ {c} :
           slot'[d] = slot[d] /\ record'[d] = record[d] /\ journal'[d] = journal[d]
    BY <1>3, <1>7
  <2>3. IsStaging(c)' => record'[c] \in {"none", "staged"}
    BY <1>3, <1>5, <1>4, <1>7, <1>8, <2>1, Journals DEF StagingOK, IsStaging, Past
  <2>4. ~IsStaging(c)' => slot'[c] = (record'[c] # "none")
    <3>1. CASE IsStaging(c)  BY <1>3, <1>8, <3>1
    <3>2. CASE ~IsStaging(c)  BY <1>3, <2>1, <3>2 DEF NoOrphans
    <3> QED  BY <3>1, <3>2
  <2> QED  BY <2>2, <2>3, <2>4, OrphansKept
<1>11. \A x : Named(x)' => Named(x)
  <2>1. current' = current /\ previous' = previous  BY <1>3, <1>5, <1>4, <1>7, <1>8
  <2>2. \A d \in Changes : journal'[d].state = "switching" =>
           journal[d].state = "switching" /\ journal'[d].prev = journal[d].prev
    BY <1>3, <1>5, <1>4, <1>7, <1>8, Journals
  <2>3. \A v \in Workers : worker'[v].pc \in {"saved", "marked"} =>
           worker[v].pc \in {"saved", "marked"} /\ worker'[v].prev = worker[v].prev
    BY <1>3, <1>5, <1>4, <1>7, <1>8 DEF Moved, Same
  <2> QED  BY <2>1, <2>2, <2>3, NamedLess
<1>12. NamedOK'
  <2> SUFFICES ASSUME NEW d \in Changes, Named(d)'
                PROVE  (Confirmed(d) /\ (InTransit(d) => IsSwitching(d)))'
    BY DEF NamedOK
  <2>1. Confirmed(d) /\ (InTransit(d) => IsSwitching(d))  BY <1>11 DEF Inv, Disk, NamedOK
  <2>2. Confirmed(d)'  BY <1>3, <2>1 DEF Confirmed
  <2>3. CASE d = c
    <3>1. ~InTransit(c)  BY <1>8, <2>1, <2>3 DEF InTransit
    <3> QED  BY <1>3, <2>2, <2>3, <3>1 DEF InTransit
  <2>4. CASE d # c
    <3>1. journal'[d] = journal[d]  BY <1>7, <2>4
    <3> QED  BY <1>3, <2>1, <2>2, <3>1 DEF InTransit, IsSwitching
  <2> QED  BY <2>3, <2>4
<1>13. AtWork(w)'
  BY <1>3, <1>5, <1>4, <1>7, <1>8, Journals DEF AtWork, Moved, Same, IsStaging, Past
<1>14. Served' /\ HealthyRan'
  BY <1>3 DEF Inv, Alone, Served, HealthyRan
<1>15. ~overlap => (Undone /\ CurrentOK /\ Only(w))'
  <2> HAVE ~overlap
  <2>1. Undone /\ CurrentOK /\ Only(w)  BY DEF Inv, Alone, AloneInv
  <2>2. \A x : Good(x) => Good(x)'
    BY <1>3, <1>5, <1>4, <1>7, <1>8, Journals DEF Good, StagingOK, Inv, Disk
  <2>3. CurrentOK'
    BY <1>3, <1>5, <1>4, <1>7, <1>8, <2>1, <2>2 DEF CurrentOK, InTransit, Good, Only, Undone
  <2>4. Undone'  BY <1>3, <1>5, <1>4, <1>7, <1>8, <2>1, <2>2, Journals DEF Undone, IsSwitching
  <2>5. Only(w)'
    BY <1>3, <1>5, <1>4, <1>7, <1>8, <2>1, <2>2, Journals
       DEF Only, Before, IsSwitching, Moved, Same
  <2> QED  BY <2>3, <2>4, <2>5
<1>16. Along  BY <1>3, <1>5, <1>4, <1>7, <1>8 DEF Along, Transitions
<1>17. Alive(w) /\ worker[w].pc \in Labels \ {"idle"}  BY <1>5 DEF Alive, Ended, Labels
<1>18. \A d \in Changes : Past(d) => Past(d)'
  BY <1>3, <1>5, <1>4, <1>7, <1>8, Journals DEF Past, IsStaging, StagingOK
<1> QED
  BY <1>5, <1>4, <1>9, <1>10, <1>12, <1>13, <1>14, <1>15, <1>16, <1>17, <1>18, Others DEF Kept

LEMMA StageIsJournalledKeeps ==
  ASSUME Inv, NEW w \in Workers, UNCHANGED overlap,
         Inside(w, "staging", "journaled"),
         ~slot[worker[w].change] /\ record[worker[w].change] = "none",
         journal' = [journal EXCEPT ![worker[w].change] = Staging(FALSE)],
         UNCHANGED <<slot, receipt, record, current, previous, service, ran>>
  PROVE  Kept
<1>1. /\ Inside(w, "staging", "journaled")
      /\ journal' = [journal EXCEPT ![worker[w].change] = Staging(FALSE)]
      /\ UNCHANGED <<slot, receipt, record, current, previous, service, ran>>
  OBVIOUS
<1>2. ~slot[worker[w].change] /\ record[worker[w].change] = "none"  OBVIOUS
<1>3. UNCHANGED <<slot, receipt, record, current, previous, service, ran>>  BY <1>1
<1>4. /\ worker[w].pc = "staging" /\ Moved(w, "journaled") /\ Same(w)
      /\ lock = w /\ lock' = w /\ Sections' /\ Begun'
  BY <1>1, InsideMoves DEF Inv, Locked, Labels, Ended
<1>5. PICK c \in Changes : c = worker[w].change /\ c = worker'[w].change
  BY <1>4 DEF Inv, Control, Begun, Moved
<1>6. TypeOK  BY DEF Inv, Control
<1>7. /\ journal'[c] = Staging(FALSE)
      /\ \A d \in Changes \ {c} : journal'[d] = journal[d]
      /\ journal'[c].state = "staging"
  BY <1>1, <1>5, <1>6, Journals DEF TypeOK
<1>8. slot[c] = FALSE /\ record[c] = "none"
  BY <1>2, <1>5, <1>6 DEF TypeOK
<1>9. TypeOK'
  <2>1. Staging(FALSE) \in Journal  BY Journals, Zenon
  <2>2. PICK j \in Journal : j = Staging(FALSE)  BY <2>1, Zenon
  <2>3. journal' = [journal EXCEPT ![c] = j]  BY <1>1, <1>5, <2>2, Zenon
  <2> QED  BY <1>3, <1>4, <1>6, <2>3 DEF TypeOK, Moved
<1>10. StagingOK' /\ NoOrphans'
  <2>1. StagingOK /\ NoOrphans  BY DEF Inv, Disk
  <2>2. \A d \in Changes \ {c} :
           slot'[d] = slot[d] /\ record'[d] = record[d] /\ journal'[d] = journal[d]
    BY <1>3, <1>7
  <2>3. IsStaging(c)' => record'[c] \in {"none", "staged"}
    BY <1>3, <1>4, <1>5, <1>7, <1>8, <2>1, Journals DEF StagingOK, IsStaging, Past
  <2>4. ~IsStaging(c)' => slot'[c] = (record'[c] # "none")
    BY <1>3, <1>4, <1>5, <1>7, <1>8, <2>1, Journals DEF NoOrphans, StagingOK, IsStaging
  <2> QED  BY <2>2, <2>3, <2>4, OrphansKept
<1>11. \A x : Named(x)' => Named(x)
  <2>1. current' = current /\ previous' = previous  BY <1>3, <1>4, <1>5, <1>7, <1>8
  <2>2. \A d \in Changes : journal'[d].state = "switching" =>
           journal[d].state = "switching" /\ journal'[d].prev = journal[d].prev
    BY <1>3, <1>4, <1>5, <1>7, <1>8, Journals
  <2>3. \A v \in Workers : worker'[v].pc \in {"saved", "marked"} =>
           worker[v].pc \in {"saved", "marked"} /\ worker'[v].prev = worker[v].prev
    BY <1>3, <1>4, <1>5, <1>7, <1>8 DEF Moved, Same
  <2> QED  BY <2>1, <2>2, <2>3, NamedLess
<1>12. NamedOK'
  <2>1. ~Named(c)  BY <1>8 DEF Inv, Disk, NamedOK, Confirmed
  <2>2. ASSUME NEW d \in Changes, Named(d)'
        PROVE  (Confirmed(d) /\ (InTransit(d) => IsSwitching(d)))'
    <3>1. Named(d) /\ d # c  BY <2>1, <2>2, <1>11
    <3>2. Confirmed(d) /\ (InTransit(d) => IsSwitching(d))  BY <3>1 DEF Inv, Disk, NamedOK
    <3> QED  BY <1>3, <1>7, <3>1, <3>2 DEF Confirmed, InTransit, IsSwitching
  <2> QED  BY <2>2 DEF NamedOK
<1>13. AtWork(w)'
  BY <1>3, <1>4, <1>5, <1>7, <1>8, Journals DEF AtWork, Moved, Same, IsStaging, Past
<1>14. Served' /\ HealthyRan'
  BY <1>3 DEF Inv, Alone, Served, HealthyRan
<1>15. ~overlap => (Undone /\ CurrentOK /\ Only(w))'
  <2> HAVE ~overlap
  <2>1. Undone /\ CurrentOK /\ Only(w)  BY DEF Inv, Alone, AloneInv
  <2>2. \A x : Good(x) => Good(x)'
    BY <1>3, <1>4, <1>5, <1>7, <1>8, Journals DEF Good, StagingOK, Inv, Disk
  <2>3. CurrentOK'
    BY <1>3, <1>4, <1>5, <1>7, <1>8, <2>1, <2>2 DEF CurrentOK, InTransit, Good, Only
  <2>4. Undone'  BY <1>3, <1>4, <1>5, <1>7, <1>8, <2>1, <2>2, Journals DEF Undone, IsSwitching
  <2>5. Only(w)'
    BY <1>3, <1>4, <1>5, <1>7, <2>1, <2>2, Journals DEF Only, Before, IsSwitching, Moved, Same
  <2> QED  BY <2>3, <2>4, <2>5
<1>16. Along  BY <1>3, <1>4, <1>5, <1>7, <1>8 DEF Along, Transitions
<1>17. Alive(w) /\ "journaled" \in Labels \ {"idle"}  BY <1>4 DEF Alive, Ended, Labels
<1>18. \A d \in Changes : Past(d) => Past(d)'
  BY <1>3, <1>4, <1>5, <1>7, <1>8, Journals DEF Past, IsStaging, StagingOK
<1> QED
  BY <1>4, <1>9, <1>10, <1>12, <1>13, <1>14, <1>15, <1>16, <1>17, <1>18, Others DEF Kept

LEMMA CleanUpEndsKeeps ==
  ASSUME Inv, NEW w \in Workers, UNCHANGED overlap,
         Leave(w, "cleaning", "over"),
         ~slot[worker[w].change] /\ record[worker[w].change] = "none",
         journal' = [journal EXCEPT ![worker[w].change] = NoJournal],
         UNCHANGED <<slot, receipt, record, current, previous, service, ran>>
  PROVE  Kept
<1>1. /\ Leave(w, "cleaning", "over")
      /\ journal' = [journal EXCEPT ![worker[w].change] = NoJournal]
      /\ UNCHANGED <<slot, receipt, record, current, previous, service, ran>>
  OBVIOUS
<1>2. ~slot[worker[w].change] /\ record[worker[w].change] = "none"  OBVIOUS
<1>3. UNCHANGED <<slot, receipt, record, current, previous, service, ran>>  BY <1>1
<1>4. /\ worker[w].pc = "cleaning" /\ Moved(w, "over")
      /\ lock = w /\ lock' = NULL /\ Sections' /\ Begun'
  BY <1>1, LeaveMoves DEF Inv, Locked, Labels, Ended
<1>5. PICK c \in Changes : c = worker[w].change /\ c = worker'[w].change
  BY <1>4 DEF Inv, Control, Begun, Moved
<1>6. TypeOK  BY DEF Inv, Control
<1>7. /\ journal'[c] = NoJournal
      /\ \A d \in Changes \ {c} : journal'[d] = journal[d]
      /\ journal'[c].state = "none"
  BY <1>1, <1>5, <1>6, Journals DEF TypeOK
<1>8. slot[c] = FALSE /\ record[c] = "none"
  BY <1>2, <1>5, <1>6 DEF TypeOK
<1>9. TypeOK'
  BY <1>1, <1>3, <1>4, <1>5, <1>6, Journals, BuilderAssumption
     DEF TypeOK, Moved, States, Pointers
<1>10. StagingOK' /\ NoOrphans'
  <2>1. StagingOK /\ NoOrphans  BY DEF Inv, Disk
  <2>2. \A d \in Changes \ {c} :
           slot'[d] = slot[d] /\ record'[d] = record[d] /\ journal'[d] = journal[d]
    BY <1>3, <1>7
  <2>3. IsStaging(c)' => record'[c] \in {"none", "staged"}
    BY <1>3, <1>4, <1>5, <1>7, <1>8, <2>1, Journals DEF StagingOK, IsStaging, Past
  <2>4. ~IsStaging(c)' => slot'[c] = (record'[c] # "none")
    BY <1>3, <1>4, <1>5, <1>7, <1>8, <2>1, Journals DEF NoOrphans, StagingOK, IsStaging
  <2> QED  BY <2>2, <2>3, <2>4, OrphansKept
<1>11. \A x : Named(x)' => Named(x)
  <2>1. current' = current /\ previous' = previous  BY <1>3, <1>4, <1>5, <1>7, <1>8
  <2>2. \A d \in Changes : journal'[d].state = "switching" =>
           journal[d].state = "switching" /\ journal'[d].prev = journal[d].prev
    BY <1>3, <1>4, <1>5, <1>7, <1>8, Journals
  <2>3. \A v \in Workers : worker'[v].pc \in {"saved", "marked"} =>
           worker[v].pc \in {"saved", "marked"} /\ worker'[v].prev = worker[v].prev
    BY <1>3, <1>4, <1>5, <1>7, <1>8 DEF Moved, Same
  <2> QED  BY <2>1, <2>2, <2>3, NamedLess
<1>12. NamedOK'
  <2>1. ~Named(c)  BY <1>8 DEF Inv, Disk, NamedOK, Confirmed
  <2>2. ASSUME NEW d \in Changes, Named(d)'
        PROVE  (Confirmed(d) /\ (InTransit(d) => IsSwitching(d)))'
    <3>1. Named(d) /\ d # c  BY <2>1, <2>2, <1>11
    <3>2. Confirmed(d) /\ (InTransit(d) => IsSwitching(d))  BY <3>1 DEF Inv, Disk, NamedOK
    <3> QED  BY <1>3, <1>7, <3>1, <3>2 DEF Confirmed, InTransit, IsSwitching
  <2> QED  BY <2>2 DEF NamedOK
<1>13. AtWork(w)'
  BY <1>3, <1>4, <1>5, <1>7, <1>8, Journals DEF AtWork, Moved, Same, IsStaging, Past
<1>14. Served' /\ HealthyRan'
  BY <1>3 DEF Inv, Alone, Served, HealthyRan
<1>15. ~overlap => (Undone /\ CurrentOK /\ Only(w))'
  <2> HAVE ~overlap
  <2>1. Undone /\ CurrentOK /\ Only(w)  BY DEF Inv, Alone, AloneInv
  <2>2. \A x : Good(x) => Good(x)'
    BY <1>3, <1>4, <1>5, <1>7, <1>8, Journals DEF Good, StagingOK, Inv, Disk
  <2>3. CurrentOK'
    BY <1>3, <1>4, <1>5, <1>7, <1>8, <2>1, <2>2 DEF CurrentOK, InTransit, Good, Only
  <2>4. Undone'  BY <1>3, <1>4, <1>5, <1>7, <1>8, <2>1, <2>2, Journals DEF Undone, IsSwitching
  <2>5. Only(w)'
    BY <1>3, <1>4, <1>5, <1>7, <1>8, <2>1, <2>2, Journals
       DEF Only, Before, IsSwitching, Moved, Same
  <2> QED  BY <2>3, <2>4, <2>5
<1>16. Along  BY <1>3, <1>4, <1>5, <1>7, <1>8 DEF Along, Transitions
<1>17. Alive(w) /\ "over" \in Labels \ {"idle"}  BY <1>4 DEF Alive, Ended, Labels
<1>18. \A d \in Changes : Past(d) => Past(d)'
  BY <1>3, <1>4, <1>5, <1>7, <1>8, Journals DEF Past, IsStaging, StagingOK
<1> QED
  BY <1>4, <1>9, <1>10, <1>12, <1>13, <1>14, <1>15, <1>16, <1>17, <1>18, Others DEF Kept

LEMMA PreflightPassesKeeps ==
  ASSUME Inv, NEW w \in Workers, UNCHANGED overlap,
         Whole(w, "staged", "checked"),
         record[worker[w].change] = "staged",
         receipt' = [receipt EXCEPT ![worker[w].change] = "passed"],
         UNCHANGED <<slot, record, journal, current, previous, service, ran>>
  PROVE  Kept
<1>1. /\ Whole(w, "staged", "checked")
      /\ receipt' = [receipt EXCEPT ![worker[w].change] = "passed"]
      /\ UNCHANGED <<slot, record, journal, current, previous, service, ran>>
  OBVIOUS
<1>2. record[worker[w].change] = "staged"  OBVIOUS
<1>3. UNCHANGED <<slot, record, journal, current, previous, service, ran>>  BY <1>1
<1>4. /\ worker[w].pc = "staged" /\ Moved(w, "checked") /\ Same(w)
      /\ lock = NULL /\ lock' = NULL /\ Sections' /\ Begun'
  BY <1>1, WholeMoves DEF Inv, Locked, Labels, Ended
<1>5. PICK c \in Changes : c = worker[w].change /\ c = worker'[w].change
  BY <1>4 DEF Inv, Control, Begun, Moved
<1>6. TypeOK  BY DEF Inv, Control
<1>7. /\ receipt'[c] = "passed"
      /\ \A d \in Changes \ {c} : receipt'[d] = receipt[d]
  BY <1>1, <1>5, <1>6 DEF TypeOK
<1>8. record[c] = "staged" /\ Past(c)
  BY <1>2, <1>4, <1>5 DEF Inv, Disk, AllAtWork, AtWork
<1>9. TypeOK'
  BY <1>1, <1>3, <1>4, <1>5, <1>6, Journals, BuilderAssumption
     DEF TypeOK, Moved, States, Pointers
<1>10. StagingOK' /\ NoOrphans'
  <2>1. StagingOK /\ NoOrphans  BY DEF Inv, Disk
  <2>2. \A d \in Changes \ {c} :
           slot'[d] = slot[d] /\ record'[d] = record[d] /\ journal'[d] = journal[d]
    BY <1>3, <1>7
  <2>3. IsStaging(c)' => record'[c] \in {"none", "staged"}
    BY <1>3, <1>4, <1>5, <1>7, <1>8, <2>1, Journals DEF StagingOK, IsStaging, Past
  <2>4. ~IsStaging(c)' => slot'[c] = (record'[c] # "none")
    BY <1>3, <1>4, <1>5, <1>7, <1>8, <2>1, Journals DEF NoOrphans, StagingOK, IsStaging
  <2> QED  BY <2>2, <2>3, <2>4, OrphansKept
<1>11. \A x : Named(x)' => Named(x)
  <2>1. current' = current /\ previous' = previous  BY <1>3, <1>4, <1>5, <1>7, <1>8
  <2>2. \A d \in Changes : journal'[d].state = "switching" =>
           journal[d].state = "switching" /\ journal'[d].prev = journal[d].prev
    BY <1>3, <1>4, <1>5, <1>7, <1>8, Journals
  <2>3. \A v \in Workers : worker'[v].pc \in {"saved", "marked"} =>
           worker[v].pc \in {"saved", "marked"} /\ worker'[v].prev = worker[v].prev
    BY <1>3, <1>4, <1>5, <1>7, <1>8 DEF Moved, Same
  <2> QED  BY <2>1, <2>2, <2>3, NamedLess
<1>12. NamedOK'
  BY <1>3, <1>4, <1>5, <1>7, <1>8, <1>11, Journals
     DEF Inv, Disk, NamedOK, StagingOK, Confirmed, InTransit, IsSwitching, IsStaging
<1>13. AtWork(w)'
  BY <1>3, <1>4, <1>5, <1>7, <1>8, Journals DEF AtWork, Moved, Same, IsStaging, Past
<1>14. Served' /\ HealthyRan'
  BY <1>3 DEF Inv, Alone, Served, HealthyRan
<1>15. ~overlap => (Undone /\ CurrentOK /\ Only(w))'
  <2> HAVE ~overlap
  <2>1. Undone /\ CurrentOK /\ Only(w)  BY DEF Inv, Alone, AloneInv
  <2>2. \A x : Good(x) => Good(x)'
    BY <1>3, <1>4, <1>5, <1>7, <1>8, Journals DEF Good, StagingOK, Inv, Disk
  <2>3. CurrentOK'
    BY <1>3, <1>4, <1>5, <1>7, <1>8, <2>1, <2>2 DEF CurrentOK, InTransit, Good, Only
  <2>4. Undone'  BY <1>3, <1>4, <1>5, <1>7, <1>8, <2>1, <2>2, Journals DEF Undone, IsSwitching
  <2>5. Only(w)'
    BY <1>3, <1>4, <1>5, <1>7, <1>8, <2>1, <2>2, Journals
       DEF Only, Before, IsSwitching, Moved, Same
  <2> QED  BY <2>3, <2>4, <2>5
<1>16. Along  BY <1>3, <1>4, <1>5, <1>7, <1>8 DEF Along, Transitions
<1>17. Alive(w) /\ "checked" \in Labels \ {"idle"}  BY <1>4 DEF Alive, Ended, Labels
<1>18. \A d \in Changes : Past(d) => Past(d)'
  BY <1>3, <1>4, <1>5, <1>7, <1>8, Journals DEF Past, IsStaging, StagingOK
<1> QED
  BY <1>4, <1>9, <1>10, <1>12, <1>13, <1>14, <1>15, <1>16, <1>17, <1>18, Others DEF Kept

LEMMA PreflightFailsKeeps ==
  ASSUME Inv, NEW w \in Workers, UNCHANGED overlap,
         Whole(w, "staged", "over"),
         record[worker[w].change] = "staged",
         receipt' = [receipt EXCEPT ![worker[w].change] = "failed"],
         UNCHANGED <<slot, record, journal, current, previous, service, ran>>
  PROVE  Kept
<1>1. /\ Whole(w, "staged", "over")
      /\ receipt' = [receipt EXCEPT ![worker[w].change] = "failed"]
      /\ UNCHANGED <<slot, record, journal, current, previous, service, ran>>
  OBVIOUS
<1>2. record[worker[w].change] = "staged"  OBVIOUS
<1>3. UNCHANGED <<slot, record, journal, current, previous, service, ran>>  BY <1>1
<1>4. /\ worker[w].pc = "staged" /\ Moved(w, "over")
      /\ lock = NULL /\ lock' = NULL /\ Sections' /\ Begun'
  BY <1>1, WholeMoves DEF Inv, Locked, Labels, Ended
<1>5. PICK c \in Changes : c = worker[w].change /\ c = worker'[w].change
  BY <1>4 DEF Inv, Control, Begun, Moved
<1>6. TypeOK  BY DEF Inv, Control
<1>7. /\ receipt'[c] = "failed"
      /\ \A d \in Changes \ {c} : receipt'[d] = receipt[d]
  BY <1>1, <1>5, <1>6 DEF TypeOK
<1>8. record[c] = "staged"
  BY <1>2, <1>5
<1>9. TypeOK'
  BY <1>1, <1>3, <1>4, <1>5, <1>6, Journals, BuilderAssumption
     DEF TypeOK, Moved, States, Pointers
<1>10. StagingOK' /\ NoOrphans'
  <2>1. StagingOK /\ NoOrphans  BY DEF Inv, Disk
  <2>2. \A d \in Changes \ {c} :
           slot'[d] = slot[d] /\ record'[d] = record[d] /\ journal'[d] = journal[d]
    BY <1>3, <1>7
  <2>3. IsStaging(c)' => record'[c] \in {"none", "staged"}
    BY <1>3, <1>4, <1>5, <1>7, <1>8, <2>1, Journals DEF StagingOK, IsStaging, Past
  <2>4. ~IsStaging(c)' => slot'[c] = (record'[c] # "none")
    BY <1>3, <1>4, <1>5, <1>7, <1>8, <2>1, Journals DEF NoOrphans, StagingOK, IsStaging
  <2> QED  BY <2>2, <2>3, <2>4, OrphansKept
<1>11. \A x : Named(x)' => Named(x)
  <2>1. current' = current /\ previous' = previous  BY <1>3, <1>4, <1>5, <1>7, <1>8
  <2>2. \A d \in Changes : journal'[d].state = "switching" =>
           journal[d].state = "switching" /\ journal'[d].prev = journal[d].prev
    BY <1>3, <1>4, <1>5, <1>7, <1>8, Journals
  <2>3. \A v \in Workers : worker'[v].pc \in {"saved", "marked"} =>
           worker[v].pc \in {"saved", "marked"} /\ worker'[v].prev = worker[v].prev
    BY <1>3, <1>4, <1>5, <1>7, <1>8 DEF Moved, Same
  <2> QED  BY <2>1, <2>2, <2>3, NamedLess
<1>12. NamedOK'
  BY <1>3, <1>4, <1>5, <1>7, <1>8, <1>11, Journals
     DEF Inv, Disk, NamedOK, StagingOK, Confirmed, InTransit, IsSwitching, IsStaging
<1>13. AtWork(w)'
  BY <1>3, <1>4, <1>5, <1>7, <1>8, Journals DEF AtWork, Moved, Same, IsStaging, Past
<1>14. Served' /\ HealthyRan'
  BY <1>3 DEF Inv, Alone, Served, HealthyRan
<1>15. ~overlap => (Undone /\ CurrentOK /\ Only(w))'
  <2> HAVE ~overlap
  <2>1. Undone /\ CurrentOK /\ Only(w)  BY DEF Inv, Alone, AloneInv
  <2>2. \A x : Good(x) => Good(x)'
    BY <1>3, <1>4, <1>5, <1>7, <1>8, Journals DEF Good, StagingOK, Inv, Disk
  <2>3. CurrentOK'
    BY <1>3, <1>4, <1>5, <1>7, <1>8, <2>1, <2>2 DEF CurrentOK, InTransit, Good, Only
  <2>4. Undone'  BY <1>3, <1>4, <1>5, <1>7, <1>8, <2>1, <2>2, Journals DEF Undone, IsSwitching
  <2>5. Only(w)'
    BY <1>3, <1>4, <1>5, <1>7, <1>8, <2>1, <2>2, Journals
       DEF Only, Before, IsSwitching, Moved, Same
  <2> QED  BY <2>3, <2>4, <2>5
<1>16. Along  BY <1>3, <1>4, <1>5, <1>7, <1>8 DEF Along, Transitions
<1>17. Alive(w) /\ "over" \in Labels \ {"idle"}  BY <1>4 DEF Alive, Ended, Labels
<1>18. \A d \in Changes : Past(d) => Past(d)'
  BY <1>3, <1>4, <1>5, <1>7, <1>8, Journals DEF Past, IsStaging, StagingOK
<1> QED
  BY <1>4, <1>9, <1>10, <1>12, <1>13, <1>14, <1>15, <1>16, <1>17, <1>18, Others DEF Kept

LEMMA ConfirmKeeps ==
  ASSUME Inv, NEW w \in Workers, Confirm(w), UNCHANGED overlap
  PROVE  Kept
<1>1. /\ Whole(w, "checked", "confirmed")
      /\ record' = [record EXCEPT ![worker[w].change] = "awaiting_confirmation"]
      /\ UNCHANGED <<slot, receipt, journal, current, previous, service, ran>>
  BY Zenon DEF Confirm
<1>2. record[worker[w].change] = "staged"
  BY Zenon DEF Confirm
<1>3. UNCHANGED <<slot, receipt, journal, current, previous, service, ran>>  BY <1>1
<1>4. /\ worker[w].pc = "checked" /\ Moved(w, "confirmed") /\ Same(w)
      /\ lock = NULL /\ lock' = NULL /\ Sections' /\ Begun'
  BY <1>1, WholeMoves DEF Inv, Locked, Labels, Ended
<1>5. PICK c \in Changes : c = worker[w].change /\ c = worker'[w].change
  BY <1>4 DEF Inv, Control, Begun, Moved
<1>6. TypeOK  BY DEF Inv, Control
<1>7. /\ record'[c] = "awaiting_confirmation"
      /\ \A d \in Changes \ {c} : record'[d] = record[d]
  BY <1>1, <1>5, <1>6 DEF TypeOK
<1>8. record[c] = "staged" /\ Past(c)
  BY <1>2, <1>4, <1>5 DEF Inv, Disk, AllAtWork, AtWork
<1>9. TypeOK'
  BY <1>1, <1>3, <1>4, <1>5, <1>6, Journals, BuilderAssumption
     DEF TypeOK, Moved, States, Pointers
<1>10. StagingOK' /\ NoOrphans'
  <2>1. StagingOK /\ NoOrphans  BY DEF Inv, Disk
  <2>2. \A d \in Changes \ {c} :
           slot'[d] = slot[d] /\ record'[d] = record[d] /\ journal'[d] = journal[d]
    BY <1>3, <1>7
  <2>3. IsStaging(c)' => record'[c] \in {"none", "staged"}
    BY <1>3, <1>4, <1>5, <1>7, <1>8, <2>1, Journals DEF StagingOK, IsStaging, Past
  <2>4. ~IsStaging(c)' => slot'[c] = (record'[c] # "none")
    BY <1>3, <1>4, <1>5, <1>7, <1>8, <2>1, Journals DEF NoOrphans, StagingOK, IsStaging
  <2> QED  BY <2>2, <2>3, <2>4, OrphansKept
<1>11. \A x : Named(x)' => Named(x)
  <2>1. current' = current /\ previous' = previous  BY <1>3, <1>4, <1>5, <1>7, <1>8
  <2>2. \A d \in Changes : journal'[d].state = "switching" =>
           journal[d].state = "switching" /\ journal'[d].prev = journal[d].prev
    BY <1>3, <1>4, <1>5, <1>7, <1>8, Journals
  <2>3. \A v \in Workers : worker'[v].pc \in {"saved", "marked"} =>
           worker[v].pc \in {"saved", "marked"} /\ worker'[v].prev = worker[v].prev
    BY <1>3, <1>4, <1>5, <1>7, <1>8 DEF Moved, Same
  <2> QED  BY <2>1, <2>2, <2>3, NamedLess
<1>12. NamedOK'
  BY <1>3, <1>4, <1>5, <1>7, <1>8, <1>11, Journals
     DEF Inv, Disk, NamedOK, StagingOK, Confirmed, InTransit, IsSwitching, IsStaging
<1>13. AtWork(w)'
  BY <1>3, <1>4, <1>5, <1>7, <1>8, Journals DEF AtWork, Moved, Same, IsStaging, Past
<1>14. Served' /\ HealthyRan'
  BY <1>3, <1>4, <1>5, <1>7, <1>8 DEF Inv, Alone, Served, HealthyRan
<1>15. ~overlap => (Undone /\ CurrentOK /\ Only(w))'
  <2> HAVE ~overlap
  <2>1. Undone /\ CurrentOK /\ Only(w)  BY DEF Inv, Alone, AloneInv
  <2>2. \A x : Good(x) => Good(x)'
    BY <1>3, <1>4, <1>5, <1>7, <1>8, Journals DEF Good, StagingOK, Inv, Disk
  <2>3. CurrentOK'
    BY <1>3, <1>4, <1>5, <1>7, <1>8, <2>1, <2>2 DEF CurrentOK, InTransit, Good, Only
  <2>4. Undone'  BY <1>3, <1>4, <1>5, <1>7, <1>8, <2>1, <2>2, Journals DEF Undone, IsSwitching
  <2>5. Only(w)'
    BY <1>3, <1>4, <1>5, <1>7, <1>8, <2>1, <2>2, Journals
       DEF Only, Before, IsSwitching, Moved, Same
  <2> QED  BY <2>3, <2>4, <2>5
<1>16. Along  BY <1>3, <1>4, <1>5, <1>7, <1>8 DEF Along, Transitions
<1>17. Alive(w) /\ "confirmed" \in Labels \ {"idle"}  BY <1>4 DEF Alive, Ended, Labels
<1>18. \A d \in Changes : Past(d) => Past(d)'
  BY <1>3, <1>4, <1>5, <1>7, <1>8, Journals DEF Past, IsStaging, StagingOK
<1> QED
  BY <1>4, <1>9, <1>10, <1>12, <1>13, <1>14, <1>15, <1>16, <1>17, <1>18, Others DEF Kept

LEMMA SettleHealthyKeeps ==
  ASSUME Inv, NEW w \in Workers, UNCHANGED overlap,
         Enter(w, "judged", "accepted"),
         record[worker[w].change] = "switching" /\ worker[w].good,
         record' = [record EXCEPT ![worker[w].change] = "healthy"],
         UNCHANGED <<slot, receipt, journal, current, previous, service, ran>>
  PROVE  Kept
<1>1. /\ Enter(w, "judged", "accepted")
      /\ record' = [record EXCEPT ![worker[w].change] = "healthy"]
      /\ UNCHANGED <<slot, receipt, journal, current, previous, service, ran>>
  OBVIOUS
<1>2. record[worker[w].change] = "switching" /\ worker[w].good  OBVIOUS
<1>3. UNCHANGED <<slot, receipt, journal, current, previous, service, ran>>  BY <1>1
<1>4. /\ worker[w].pc = "judged" /\ Moved(w, "accepted") /\ Same(w)
      /\ lock = NULL /\ lock' = w /\ Sections' /\ Begun'
  BY <1>1, EnterMoves DEF Inv, Locked, Labels, Ended
<1>5. PICK c \in Changes : c = worker[w].change /\ c = worker'[w].change
  BY <1>4 DEF Inv, Control, Begun, Moved
<1>6. TypeOK  BY DEF Inv, Control
<1>7. /\ record'[c] = "healthy"
      /\ \A d \in Changes \ {c} : record'[d] = record[d]
  BY <1>1, <1>5, <1>6 DEF TypeOK
<1>8. record[c] = "switching" /\ worker[w].good
  BY <1>2, <1>5
<1>9. TypeOK'
  BY <1>1, <1>3, <1>4, <1>5, <1>6, Journals, BuilderAssumption
     DEF TypeOK, Moved, States, Pointers
<1>10. StagingOK' /\ NoOrphans'
  <2>1. StagingOK /\ NoOrphans  BY DEF Inv, Disk
  <2>2. \A d \in Changes \ {c} :
           slot'[d] = slot[d] /\ record'[d] = record[d] /\ journal'[d] = journal[d]
    BY <1>3, <1>7
  <2>3. IsStaging(c)' => record'[c] \in {"none", "staged"}
    BY <1>3, <1>4, <1>5, <1>7, <1>8, <2>1, Journals DEF StagingOK, IsStaging, Past
  <2>4. ~IsStaging(c)' => slot'[c] = (record'[c] # "none")
    BY <1>3, <1>4, <1>5, <1>7, <1>8, <2>1, Journals DEF NoOrphans, StagingOK, IsStaging
  <2> QED  BY <2>2, <2>3, <2>4, OrphansKept
<1>11. \A x : Named(x)' => Named(x)
  <2>1. current' = current /\ previous' = previous  BY <1>3, <1>4, <1>5, <1>7, <1>8
  <2>2. \A d \in Changes : journal'[d].state = "switching" =>
           journal[d].state = "switching" /\ journal'[d].prev = journal[d].prev
    BY <1>3, <1>4, <1>5, <1>7, <1>8, Journals
  <2>3. \A v \in Workers : worker'[v].pc \in {"saved", "marked"} =>
           worker[v].pc \in {"saved", "marked"} /\ worker'[v].prev = worker[v].prev
    BY <1>3, <1>4, <1>5, <1>7, <1>8 DEF Moved, Same
  <2> QED  BY <2>1, <2>2, <2>3, NamedLess
<1>12. NamedOK'
  BY <1>3, <1>4, <1>5, <1>7, <1>8, <1>11, Journals
     DEF Inv, Disk, NamedOK, StagingOK, Confirmed, InTransit, IsSwitching, IsStaging
<1>13. AtWork(w)'
  BY <1>3, <1>4, <1>5, <1>7, <1>8, Journals DEF AtWork, Moved, Same, IsStaging, Past
<1>14. Served' /\ HealthyRan'
  BY <1>3, <1>4, <1>5, <1>7, <1>8 DEF Inv, Alone, Served, HealthyRan, AloneInv, Only
<1>15. ~overlap => (Undone /\ CurrentOK /\ Only(w))'
  <2> HAVE ~overlap
  <2>1. Undone /\ CurrentOK /\ Only(w)  BY DEF Inv, Alone, AloneInv
  <2>2. \A x : Good(x) => Good(x)'
    BY <1>3, <1>4, <1>5, <1>7, <1>8, Journals DEF Good, StagingOK, Inv, Disk
  <2>3. CurrentOK'
    BY <1>3, <1>4, <1>5, <1>7, <1>8, <2>1, <2>2 DEF CurrentOK, InTransit, Good, Only
  <2>4. Undone'  BY <1>3, <1>4, <1>5, <1>7, <1>8, <2>1, <2>2, Journals DEF Undone, IsSwitching
  <2>5. Only(w)'
    BY <1>3, <1>4, <1>5, <1>7, <1>8, <2>1, <2>2, Journals
       DEF Only, Before, IsSwitching, Moved, Same
  <2> QED  BY <2>3, <2>4, <2>5
<1>16. Along  BY <1>3, <1>4, <1>5, <1>7, <1>8 DEF Along, Transitions
<1>17. Alive(w) /\ "accepted" \in Labels \ {"idle"}  BY <1>4 DEF Alive, Ended, Labels
<1>18. \A d \in Changes : Past(d) => Past(d)'
  BY <1>3, <1>4, <1>5, <1>7, <1>8, Journals DEF Past, IsStaging, StagingOK
<1> QED
  BY <1>4, <1>9, <1>10, <1>12, <1>13, <1>14, <1>15, <1>16, <1>17, <1>18, Others DEF Kept

LEMMA SettleRefusedKeeps ==
  ASSUME Inv, NEW w \in Workers, UNCHANGED overlap,
         Enter(w, "judged", "refused"),
         record[worker[w].change] = "switching" /\ ~worker[w].good,
         record' = [record EXCEPT ![worker[w].change] = "rolling_back"],
         UNCHANGED <<slot, receipt, journal, current, previous, service, ran>>
  PROVE  Kept
<1>1. /\ Enter(w, "judged", "refused")
      /\ record' = [record EXCEPT ![worker[w].change] = "rolling_back"]
      /\ UNCHANGED <<slot, receipt, journal, current, previous, service, ran>>
  OBVIOUS
<1>2. record[worker[w].change] = "switching" /\ ~worker[w].good  OBVIOUS
<1>3. UNCHANGED <<slot, receipt, journal, current, previous, service, ran>>  BY <1>1
<1>4. /\ worker[w].pc = "judged" /\ Moved(w, "refused") /\ Same(w)
      /\ lock = NULL /\ lock' = w /\ Sections' /\ Begun'
  BY <1>1, EnterMoves DEF Inv, Locked, Labels, Ended
<1>5. PICK c \in Changes : c = worker[w].change /\ c = worker'[w].change
  BY <1>4 DEF Inv, Control, Begun, Moved
<1>6. TypeOK  BY DEF Inv, Control
<1>7. /\ record'[c] = "rolling_back"
      /\ \A d \in Changes \ {c} : record'[d] = record[d]
  BY <1>1, <1>5, <1>6 DEF TypeOK
<1>8. record[c] = "switching" /\ ~worker[w].good
  BY <1>2, <1>5
<1>9. TypeOK'
  BY <1>1, <1>3, <1>4, <1>5, <1>6, Journals, BuilderAssumption
     DEF TypeOK, Moved, States, Pointers
<1>10. StagingOK' /\ NoOrphans'
  <2>1. StagingOK /\ NoOrphans  BY DEF Inv, Disk
  <2>2. \A d \in Changes \ {c} :
           slot'[d] = slot[d] /\ record'[d] = record[d] /\ journal'[d] = journal[d]
    BY <1>3, <1>7
  <2>3. IsStaging(c)' => record'[c] \in {"none", "staged"}
    BY <1>3, <1>4, <1>5, <1>7, <1>8, <2>1, Journals DEF StagingOK, IsStaging, Past
  <2>4. ~IsStaging(c)' => slot'[c] = (record'[c] # "none")
    BY <1>3, <1>4, <1>5, <1>7, <1>8, <2>1, Journals DEF NoOrphans, StagingOK, IsStaging
  <2> QED  BY <2>2, <2>3, <2>4, OrphansKept
<1>11. \A x : Named(x)' => Named(x)
  <2>1. current' = current /\ previous' = previous  BY <1>3, <1>4, <1>5, <1>7, <1>8
  <2>2. \A d \in Changes : journal'[d].state = "switching" =>
           journal[d].state = "switching" /\ journal'[d].prev = journal[d].prev
    BY <1>3, <1>4, <1>5, <1>7, <1>8, Journals
  <2>3. \A v \in Workers : worker'[v].pc \in {"saved", "marked"} =>
           worker[v].pc \in {"saved", "marked"} /\ worker'[v].prev = worker[v].prev
    BY <1>3, <1>4, <1>5, <1>7, <1>8 DEF Moved, Same
  <2> QED  BY <2>1, <2>2, <2>3, NamedLess
<1>12. NamedOK'
  BY <1>3, <1>4, <1>5, <1>7, <1>8, <1>11, Journals
     DEF Inv, Disk, NamedOK, StagingOK, Confirmed, InTransit, IsSwitching, IsStaging
<1>13. AtWork(w)'
  BY <1>3, <1>4, <1>5, <1>7, <1>8, Journals DEF AtWork, Moved, Same, IsStaging, Past
<1>14. Served' /\ HealthyRan'
  BY <1>3, <1>4, <1>5, <1>7, <1>8 DEF Inv, Alone, Served, HealthyRan
<1>15. ~overlap => (Undone /\ CurrentOK /\ Only(w))'
  <2> HAVE ~overlap
  <2>1. Undone /\ CurrentOK /\ Only(w)  BY DEF Inv, Alone, AloneInv
  <2>2. \A x : Good(x) => Good(x)'
    BY <1>3, <1>4, <1>5, <1>7, <1>8, Journals DEF Good, StagingOK, Inv, Disk
  <2>3. CurrentOK'
    BY <1>3, <1>4, <1>5, <1>7, <1>8, <2>1, <2>2 DEF CurrentOK, InTransit, Good, Only
  <2>4. Undone'  BY <1>3, <1>4, <1>5, <1>7, <1>8, <2>1, <2>2, Journals DEF Undone, IsSwitching
  <2>5. Only(w)'
    BY <1>3, <1>4, <1>5, <1>7, <1>8, <2>1, <2>2, Journals
       DEF Only, Before, IsSwitching, Moved, Same
  <2> QED  BY <2>3, <2>4, <2>5
<1>16. Along  BY <1>3, <1>4, <1>5, <1>7, <1>8 DEF Along, Transitions
<1>17. Alive(w) /\ "refused" \in Labels \ {"idle"}  BY <1>4 DEF Alive, Ended, Labels
<1>18. \A d \in Changes : Past(d) => Past(d)'
  BY <1>3, <1>4, <1>5, <1>7, <1>8, Journals DEF Past, IsStaging, StagingOK
<1> QED
  BY <1>4, <1>9, <1>10, <1>12, <1>13, <1>14, <1>15, <1>16, <1>17, <1>18, Others DEF Kept

LEMMA RollbackSettledGoodKeeps ==
  ASSUME Inv, NEW w \in Workers, UNCHANGED overlap,
         Enter(w, "restoredUp", "closing"),
         record[worker[w].change] = "rolling_back",
         record' = [record EXCEPT ![worker[w].change] = "rolled_back"],
         UNCHANGED <<slot, receipt, journal, current, previous, service, ran>>
  PROVE  Kept
<1>1. /\ Enter(w, "restoredUp", "closing")
      /\ record' = [record EXCEPT ![worker[w].change] = "rolled_back"]
      /\ UNCHANGED <<slot, receipt, journal, current, previous, service, ran>>
  OBVIOUS
<1>2. record[worker[w].change] = "rolling_back"  OBVIOUS
<1>3. UNCHANGED <<slot, receipt, journal, current, previous, service, ran>>  BY <1>1
<1>4. /\ worker[w].pc = "restoredUp" /\ Moved(w, "closing") /\ Same(w)
      /\ lock = NULL /\ lock' = w /\ Sections' /\ Begun'
  BY <1>1, EnterMoves DEF Inv, Locked, Labels, Ended
<1>5. PICK c \in Changes : c = worker[w].change /\ c = worker'[w].change
  BY <1>4 DEF Inv, Control, Begun, Moved
<1>6. TypeOK  BY DEF Inv, Control
<1>7. /\ record'[c] = "rolled_back"
      /\ \A d \in Changes \ {c} : record'[d] = record[d]
  BY <1>1, <1>5, <1>6 DEF TypeOK
<1>8. record[c] = "rolling_back"
  BY <1>2, <1>5
<1>9. TypeOK'
  BY <1>1, <1>3, <1>4, <1>5, <1>6, Journals, BuilderAssumption
     DEF TypeOK, Moved, States, Pointers
<1>10. StagingOK' /\ NoOrphans'
  <2>1. StagingOK /\ NoOrphans  BY DEF Inv, Disk
  <2>2. \A d \in Changes \ {c} :
           slot'[d] = slot[d] /\ record'[d] = record[d] /\ journal'[d] = journal[d]
    BY <1>3, <1>7
  <2>3. IsStaging(c)' => record'[c] \in {"none", "staged"}
    BY <1>3, <1>4, <1>5, <1>7, <1>8, <2>1, Journals DEF StagingOK, IsStaging, Past
  <2>4. ~IsStaging(c)' => slot'[c] = (record'[c] # "none")
    BY <1>3, <1>4, <1>5, <1>7, <1>8, <2>1, Journals DEF NoOrphans, StagingOK, IsStaging
  <2> QED  BY <2>2, <2>3, <2>4, OrphansKept
<1>11. \A x : Named(x)' => Named(x)
  <2>1. current' = current /\ previous' = previous  BY <1>3, <1>4, <1>5, <1>7, <1>8
  <2>2. \A d \in Changes : journal'[d].state = "switching" =>
           journal[d].state = "switching" /\ journal'[d].prev = journal[d].prev
    BY <1>3, <1>4, <1>5, <1>7, <1>8, Journals
  <2>3. \A v \in Workers : worker'[v].pc \in {"saved", "marked"} =>
           worker[v].pc \in {"saved", "marked"} /\ worker'[v].prev = worker[v].prev
    BY <1>3, <1>4, <1>5, <1>7, <1>8 DEF Moved, Same
  <2> QED  BY <2>1, <2>2, <2>3, NamedLess
<1>12. NamedOK'
  BY <1>3, <1>4, <1>5, <1>7, <1>8, <1>11, Journals
     DEF Inv, Disk, NamedOK, StagingOK, Confirmed, InTransit, IsSwitching, IsStaging
<1>13. AtWork(w)'
  BY <1>3, <1>4, <1>5, <1>7, <1>8, Journals DEF AtWork, Moved, Same, IsStaging, Past
<1>14. Served' /\ HealthyRan'
  BY <1>3, <1>4, <1>5, <1>7, <1>8 DEF Inv, Alone, Served, HealthyRan
<1>15. ~overlap => (Undone /\ CurrentOK /\ Only(w))'
  <2> HAVE ~overlap
  <2>1. Undone /\ CurrentOK /\ Only(w)  BY DEF Inv, Alone, AloneInv
  <2>2. \A x : Good(x) => Good(x)'
    BY <1>3, <1>4, <1>5, <1>7, <1>8, Journals DEF Good, StagingOK, Inv, Disk
  <2>3. CurrentOK'
    BY <1>3, <1>4, <1>5, <1>7, <1>8, <2>1, <2>2 DEF CurrentOK, InTransit, Good, Only
  <2>4. Undone'  BY <1>3, <1>4, <1>5, <1>7, <1>8, <2>1, <2>2, Journals DEF Undone, IsSwitching
  <2>5. Only(w)'
    BY <1>3, <1>4, <1>5, <1>7, <1>8, <2>1, <2>2, Journals
       DEF Only, Before, IsSwitching, Moved, Same
  <2> QED  BY <2>3, <2>4, <2>5
<1>16. Along  BY <1>3, <1>4, <1>5, <1>7, <1>8 DEF Along, Transitions
<1>17. Alive(w) /\ "closing" \in Labels \ {"idle"}  BY <1>4 DEF Alive, Ended, Labels
<1>18. \A d \in Changes : Past(d) => Past(d)'
  BY <1>3, <1>4, <1>5, <1>7, <1>8, Journals DEF Past, IsStaging, StagingOK
<1> QED
  BY <1>4, <1>9, <1>10, <1>12, <1>13, <1>14, <1>15, <1>16, <1>17, <1>18, Others DEF Kept

LEMMA RollbackSettledBadKeeps ==
  ASSUME Inv, NEW w \in Workers, UNCHANGED overlap,
         Enter(w, "restoredUp", "closing"),
         record[worker[w].change] = "rolling_back",
         record' = [record EXCEPT ![worker[w].change] = "recovery_required"],
         UNCHANGED <<slot, receipt, journal, current, previous, service, ran>>
  PROVE  Kept
<1>1. /\ Enter(w, "restoredUp", "closing")
      /\ record' = [record EXCEPT ![worker[w].change] = "recovery_required"]
      /\ UNCHANGED <<slot, receipt, journal, current, previous, service, ran>>
  OBVIOUS
<1>2. record[worker[w].change] = "rolling_back"  OBVIOUS
<1>3. UNCHANGED <<slot, receipt, journal, current, previous, service, ran>>  BY <1>1
<1>4. /\ worker[w].pc = "restoredUp" /\ Moved(w, "closing") /\ Same(w)
      /\ lock = NULL /\ lock' = w /\ Sections' /\ Begun'
  BY <1>1, EnterMoves DEF Inv, Locked, Labels, Ended
<1>5. PICK c \in Changes : c = worker[w].change /\ c = worker'[w].change
  BY <1>4 DEF Inv, Control, Begun, Moved
<1>6. TypeOK  BY DEF Inv, Control
<1>7. /\ record'[c] = "recovery_required"
      /\ \A d \in Changes \ {c} : record'[d] = record[d]
  BY <1>1, <1>5, <1>6 DEF TypeOK
<1>8. record[c] = "rolling_back"
  BY <1>2, <1>5
<1>9. TypeOK'
  BY <1>1, <1>3, <1>4, <1>5, <1>6, Journals, BuilderAssumption
     DEF TypeOK, Moved, States, Pointers
<1>10. StagingOK' /\ NoOrphans'
  <2>1. StagingOK /\ NoOrphans  BY DEF Inv, Disk
  <2>2. \A d \in Changes \ {c} :
           slot'[d] = slot[d] /\ record'[d] = record[d] /\ journal'[d] = journal[d]
    BY <1>3, <1>7
  <2>3. IsStaging(c)' => record'[c] \in {"none", "staged"}
    BY <1>3, <1>4, <1>5, <1>7, <1>8, <2>1, Journals DEF StagingOK, IsStaging, Past
  <2>4. ~IsStaging(c)' => slot'[c] = (record'[c] # "none")
    BY <1>3, <1>4, <1>5, <1>7, <1>8, <2>1, Journals DEF NoOrphans, StagingOK, IsStaging
  <2> QED  BY <2>2, <2>3, <2>4, OrphansKept
<1>11. \A x : Named(x)' => Named(x)
  <2>1. current' = current /\ previous' = previous  BY <1>3, <1>4, <1>5, <1>7, <1>8
  <2>2. \A d \in Changes : journal'[d].state = "switching" =>
           journal[d].state = "switching" /\ journal'[d].prev = journal[d].prev
    BY <1>3, <1>4, <1>5, <1>7, <1>8, Journals
  <2>3. \A v \in Workers : worker'[v].pc \in {"saved", "marked"} =>
           worker[v].pc \in {"saved", "marked"} /\ worker'[v].prev = worker[v].prev
    BY <1>3, <1>4, <1>5, <1>7, <1>8 DEF Moved, Same
  <2> QED  BY <2>1, <2>2, <2>3, NamedLess
<1>12. NamedOK'
  BY <1>3, <1>4, <1>5, <1>7, <1>8, <1>11, Journals
     DEF Inv, Disk, NamedOK, StagingOK, Confirmed, InTransit, IsSwitching, IsStaging
<1>13. AtWork(w)'
  BY <1>3, <1>4, <1>5, <1>7, <1>8, Journals DEF AtWork, Moved, Same, IsStaging, Past
<1>14. Served' /\ HealthyRan'
  BY <1>3, <1>4, <1>5, <1>7, <1>8 DEF Inv, Alone, Served, HealthyRan
<1>15. ~overlap => (Undone /\ CurrentOK /\ Only(w))'
  <2> HAVE ~overlap
  <2>1. Undone /\ CurrentOK /\ Only(w)  BY DEF Inv, Alone, AloneInv
  <2>2. \A x : Good(x) => Good(x)'
    BY <1>3, <1>4, <1>5, <1>7, <1>8, Journals DEF Good, StagingOK, Inv, Disk
  <2>3. CurrentOK'
    BY <1>3, <1>4, <1>5, <1>7, <1>8, <2>1, <2>2 DEF CurrentOK, InTransit, Good, Only
  <2>4. Undone'  BY <1>3, <1>4, <1>5, <1>7, <1>8, <2>1, <2>2, Journals DEF Undone, IsSwitching
  <2>5. Only(w)'
    BY <1>3, <1>4, <1>5, <1>7, <1>8, <2>1, <2>2, Journals
       DEF Only, Before, IsSwitching, Moved, Same
  <2> QED  BY <2>3, <2>4, <2>5
<1>16. Along  BY <1>3, <1>4, <1>5, <1>7, <1>8 DEF Along, Transitions
<1>17. Alive(w) /\ "closing" \in Labels \ {"idle"}  BY <1>4 DEF Alive, Ended, Labels
<1>18. \A d \in Changes : Past(d) => Past(d)'
  BY <1>3, <1>4, <1>5, <1>7, <1>8, Journals DEF Past, IsStaging, StagingOK
<1> QED
  BY <1>4, <1>9, <1>10, <1>12, <1>13, <1>14, <1>15, <1>16, <1>17, <1>18, Others DEF Kept

(* The steps that write nothing durable.                                   *)

LEMMA OpenKeeps ==
  ASSUME Inv, NEW w \in Workers, NEW c \in Changes, Open(w, c)
  PROVE  Kept
<1>1. /\ worker[w].pc = "idle" /\ lock = NULL /\ lock' = w
      /\ worker' = [worker EXCEPT ![w].pc = "opening", ![w].change = c]
      /\ UNCHANGED <<durable, service, ran>>
  BY Zenon DEF Open
<1>2. overlap' = (overlap \/ \E v \in Workers : Alive(v))  BY Zenon DEF Open
<1>3. UNCHANGED <<slot, receipt, record, journal, current, previous, service, ran>>
  BY <1>1 DEF durable
<1>4. TypeOK /\ Control  BY DEF Inv, Control
<1>5. /\ worker' \in [Workers -> Worker]
      /\ \A v \in Workers \ {w} : worker'[v] = worker[v]
      /\ worker'[w].pc = "opening" /\ worker'[w].change = c
  BY <1>1, <1>4, OpenMoves
<1>6. overlap' \in BOOLEAN  BY <1>2
<1>7. TypeOK'  BY <1>1, <1>3, <1>4, <1>5, <1>6 DEF TypeOK
<1>8. \A v \in Workers : v # NULL  BY BuilderAssumption
<1>9. Sections'
  <2>1. ASSUME NEW v \in Workers, v # w
        PROVE  worker'[v].pc \in Locked <=> lock' = v
    BY <1>1, <1>5, <1>8, <2>1 DEF Inv, Control, Sections
  <2>2. worker'[w].pc \in Locked <=> lock' = w  BY <1>1, <1>5 DEF Locked
  <2> QED  BY <2>1, <2>2 DEF Sections
<1>10. Begun'  BY <1>5 DEF Inv, Control, Begun
<1>11. \A x : Named(x)' => Named(x)
  <2>1. \A v \in Workers : worker'[v].pc \in {"saved", "marked"} =>
          worker[v].pc \in {"saved", "marked"} /\ worker'[v].prev = worker[v].prev
    BY <1>5
  <2> QED  BY <1>3, <2>1, NamedLess
<1>12. StagingOK' /\ NoOrphans' /\ NamedOK'
  BY <1>3, <1>11
     DEF Inv, Disk, StagingOK, NoOrphans, IsStaging, NamedOK, Confirmed, InTransit, IsSwitching
<1>13. AllAtWork'
  <2>1. ASSUME NEW v \in Workers, v # w
        PROVE  AtWork(v)'
    <3>1. AtWork(v) /\ worker'[v] = worker[v]  BY <1>5, <2>1 DEF Inv, Disk, AllAtWork
    <3> QED  BY <1>3, <1>11, <3>1 DEF AtWork, IsStaging, Past
  <2>2. AtWork(w)'  BY <1>5 DEF AtWork
  <2> QED  BY <2>1, <2>2 DEF AllAtWork
<1>14. ASSUME ~overlap'
       PROVE  ~overlap /\ \A v \in Workers : v # w => ~Alive(v) /\ worker'[v] = worker[v]
  <2>1. ~overlap /\ \A v \in Workers : ~Alive(v)  BY <1>2, <1>14, Zenon
  <2> QED  BY <1>5, <2>1
<1>15. Single'
  <2>1. ASSUME ~overlap', NEW v \in Workers, v # w
        PROVE  ~Alive(v)'
    BY <1>14, <2>1 DEF Alive
  <2> QED  BY <2>1 DEF Single
<1>16. Served' /\ HealthyRan'
  <2>1. overlap => overlap'  BY <1>2
  <2> QED  BY <1>3, <2>1 DEF Inv, Alone, Served, HealthyRan
<1>17. AloneInv'
  <2> SUFFICES ASSUME ~overlap'  PROVE (Undone /\ CurrentOK)' /\ \A v \in Workers : Only(v)'
    BY DEF AloneInv
  <2>1. Undone /\ CurrentOK  BY <1>14 DEF Inv, Alone, AloneInv
  <2>2. (Undone /\ CurrentOK)'
    BY <1>3, <2>1 DEF Undone, CurrentOK, Good, InTransit, IsSwitching
  <2>3. Only(w)'  BY <1>5 DEF Only, Before
  <2>4. ASSUME NEW v \in Workers, v # w
        PROVE  Only(v)'
    <3>1. worker'[v].pc \in {"idle"} \cup Ended  BY <1>14, <2>4 DEF Alive
    <3> QED  BY <3>1 DEF Only, Before, Ended
  <2> QED  BY <2>2, <2>3, <2>4
<1>18. Along  BY <1>3 DEF Along
<1> QED
  BY <1>7, <1>9, <1>10, <1>12, <1>13, <1>15, <1>16, <1>17, <1>18
     DEF Kept, Inv, Control, Disk, Alone

LEMMA OpenedKeeps ==
  ASSUME Inv, NEW w \in Workers, Opened(w), UNCHANGED overlap
  PROVE  Kept
<1>1. /\ \A c \in Changes : journal[c] = NoJournal
      /\ Leave(w, "opening", "opened") /\ UNCHANGED <<durable, service, ran>>
  BY Zenon DEF Opened
<1>2. /\ worker[w].pc = "opening" /\ Moved(w, "opened")
      /\ lock' = NULL /\ Sections' /\ Begun'
  BY <1>1, LeaveMoves DEF Inv, Locked, Labels
<1>3. \A c \in Changes : ~IsSwitching(c)'
  <2>1. journal' = journal  BY <1>1 DEF durable
  <2> QED  BY <1>1, <2>1, Journals DEF IsSwitching
<1>4. AtWork(w)' /\ Only(w)'  BY <1>2, <1>3 DEF Moved, AtWork, Only
<1>5. /\ service' \in Pointers \cup {Down} /\ ran \subseteq ran' /\ ran' \subseteq Changes
      /\ Served'
  BY <1>1 DEF Inv, Control, TypeOK, Alone, Served
<1> QED
  BY <1>1, <1>2, <1>4, <1>5, Still DEF Alive, Ended, Labels

LEMMA StageKeeps ==
  ASSUME Inv, NEW w \in Workers, Stage(w), UNCHANGED overlap
  PROVE  Kept
<1>1. Enter(w, "opened", "staging") /\ UNCHANGED <<durable, service, ran>>  BY Zenon DEF Stage
<1>2. /\ worker[w].pc = "opened" /\ Moved(w, "staging")
      /\ lock' = w /\ Sections' /\ Begun'
  BY <1>1, EnterMoves DEF Inv, Locked, Labels
<1>3. AtWork(w)'  BY <1>2 DEF Moved, AtWork
<1>4. ASSUME ~overlap
      PROVE  Only(w)'
  <2>1. Only(w)  BY <1>4 DEF Inv, Alone, AloneInv
  <2>2. journal' = journal  BY <1>1 DEF durable
  <2> QED  BY <1>2, <2>1, <2>2 DEF Only, Before, Moved, IsSwitching
<1>5. /\ service' \in Pointers \cup {Down} /\ ran \subseteq ran' /\ ran' \subseteq Changes
      /\ Served'
  BY <1>1 DEF Inv, Control, TypeOK, Alone, Served
<1> QED
  BY <1>1, <1>2, <1>3, <1>4, <1>5, Still DEF Alive, Ended, Labels

(* An exception while staging: the journal of the stage is still there.    *)
LEMMA StageFailsKeeps ==
  ASSUME Inv, NEW w \in Workers, StageFails(w), UNCHANGED overlap
  PROVE  Kept
<1>1. /\ worker[w].pc \in {"journaled", "prepared", "published", "recorded"}
      /\ Goto(w, "cleaning") /\ lock' = lock /\ UNCHANGED <<durable, service, ran>>
  BY Zenon DEF StageFails
<1>2. PICK from \in Locked : from = worker[w].pc /\ from \in {"journaled", "prepared", "published", "recorded"}
  BY <1>1 DEF Locked
<1>3. Inside(w, from, "cleaning")  BY <1>1, <1>2, Zenon DEF Inside
<1>4. /\ Moved(w, "cleaning") /\ Same(w)
      /\ lock' = w /\ Sections' /\ Begun'
  BY <1>3, InsideMoves DEF Inv, Locked
<1>5. IsStaging(worker[w].change)
  <2>1. AtWork(w)  BY DEF Inv, Disk, AllAtWork
  <2> QED  BY <1>1, <2>1, Journals DEF AtWork, IsStaging
<1>6. journal' = journal  BY <1>1 DEF durable
<1>7. AtWork(w)'  BY <1>4, <1>5, <1>6 DEF Moved, AtWork, IsStaging
<1>8. ASSUME ~overlap
      PROVE  Only(w)'
  <2>1. Only(w)  BY <1>8 DEF Inv, Alone, AloneInv
  <2> QED  BY <1>1, <1>4, <1>6, <2>1 DEF Only, Before, Moved, IsSwitching
<1>9. /\ service' \in Pointers \cup {Down} /\ ran \subseteq ran' /\ ran' \subseteq Changes
      /\ Served'
  BY <1>1 DEF Inv, Control, TypeOK, Alone, Served
<1> QED
  BY <1>1, <1>4, <1>7, <1>8, <1>9, Still DEF Alive, Ended, Labels

(* A command that is refused, or whose record has moved on, only ends.     *)
LEMMA EndKeeps ==
  ASSUME Inv, NEW w \in Workers, UNCHANGED <<durable, service, ran>>, UNCHANGED overlap,
         Alive(w), NEW to \in Ended, Moved(w, to), Sections', Begun',
         lock' \in Workers \cup {NULL}
  PROVE  Kept
<1>1. AtWork(w)' /\ Only(w)'  BY DEF Moved, AtWork, Only, Before, Ended
<1>2. /\ service' \in Pointers \cup {Down} /\ ran \subseteq ran' /\ ran' \subseteq Changes
      /\ Served'
  BY DEF Inv, Control, TypeOK, Alone, Served
<1> QED  BY <1>1, <1>2, Still DEF Ended, Labels

LEMMA DieKeeps ==
  ASSUME Inv, NEW w \in Workers, Die(w), UNCHANGED overlap
  PROVE  Kept
<1>1. /\ Alive(w) /\ Goto(w, "dead") /\ lock' = (IF lock = w THEN NULL ELSE lock)
      /\ UNCHANGED <<durable, service, ran>>
  BY Zenon DEF Die
<1>2. Moved(w, "dead")  BY <1>1, GotoMoves DEF Inv, Control, Labels, Moved
<1>3. worker[w].pc # "idle"  BY <1>1 DEF Alive
<1>4. \/ lock \in {NULL, w} /\ lock' = NULL
      \/ worker[w].pc \notin Locked /\ lock' = lock
  BY <1>1 DEF Inv, Control, Sections
<1>5. Sections' /\ Begun' /\ lock' \in Workers \cup {NULL}
  BY <1>2, <1>3, <1>4, LockMoves DEF Inv, Labels, Locked
<1> QED  BY <1>1, <1>2, <1>5, EndKeeps DEF Ended

(* A restart writes nothing durable; a service it starts runs from then on.*)
LEMMA RestartKeeps ==
  ASSUME Inv, NEW w \in Workers, UNCHANGED overlap,
         NEW from \in {"switched", "restored"}, NEW to \in {"restarted", "restoredUp"},
         from = "switched" <=> to = "restarted",
         Restart(w, from, to)
  PROVE  Kept
<1>1. worker[w].pc = from /\ UNCHANGED <<durable, lock>>  BY Zenon DEF Restart
<1>2. PICK ok \in BOOLEAN, up \in {current, Down} \cup {service} :
        /\ worker' = [worker EXCEPT ![w].pc = to, ![w].good = ok]
        /\ service' = up /\ ran' = ran \cup ({up} \cap Changes)
  BY Zenon DEF Restart
<1>3. Control /\ TypeOK  BY DEF Inv, Control
<1>4. Moved(w, to) /\ worker'[w].good = ok
  BY <1>2, <1>3, GoodMoves DEF Labels, Moved
<1>5. Sections' /\ Begun' /\ lock' \in Workers \cup {NULL}
  BY <1>1, <1>3, <1>4, LockMoves DEF Labels, Locked
<1>6. /\ service' \in Pointers \cup {Down} /\ ran \subseteq ran' /\ ran' \subseteq Changes
      /\ Served'
  BY <1>2, <1>3 DEF TypeOK, Served
<1>7. AtWork(w)'  BY <1>4 DEF Moved, AtWork
<1>8. ASSUME ~overlap
      PROVE  Only(w)'
  <2>1. Only(w)  BY <1>8 DEF Inv, Alone, AloneInv
  <2>2. current' = current /\ previous' = previous /\ record' = record  BY <1>1 DEF durable
  <2>3. worker'[w].pc = to /\ worker'[w].change = worker[w].change  BY <1>4 DEF Moved
  <2> QED  BY <1>1, <2>1, <2>2, <2>3 DEF Only, Before, Good
<1>9. Alive(w) /\ to \in Labels \ {"idle", "saved", "marked"}  BY <1>1 DEF Alive, Ended, Labels
<1> QED  BY <1>1, <1>4, <1>5, <1>6, <1>7, <1>8, <1>9, Still

(* A health check that passes has seen the service run from the slot.      *)
LEMMA JudgeKeeps ==
  ASSUME Inv, NEW w \in Workers, Judge(w), UNCHANGED overlap
  PROVE  Kept
<1>1. worker[w].pc = "restarted" /\ UNCHANGED <<durable, service, ran, lock>>
  BY Zenon DEF Judge
<1>2. PICK healthy \in BOOLEAN :
        /\ healthy => current # NULL /\ service = current
        /\ worker' = [worker EXCEPT ![w].pc = "judged", ![w].good = healthy]
  BY Zenon DEF Judge
<1>3. Control /\ TypeOK  BY DEF Inv, Control
<1>4. Moved(w, "judged") /\ worker'[w].good = healthy
  BY <1>2, <1>3, GoodMoves DEF Labels, Moved
<1>5. Sections' /\ Begun' /\ lock' \in Workers \cup {NULL}
  BY <1>1, <1>3, <1>4, LockMoves DEF Labels, Locked
<1>6. /\ service' \in Pointers \cup {Down} /\ ran \subseteq ran' /\ ran' \subseteq Changes
      /\ Served'
  BY <1>1, <1>3 DEF TypeOK, Inv, Alone, Served
<1>7. AtWork(w)'  BY <1>4 DEF Moved, AtWork
<1>8. ASSUME ~overlap
      PROVE  Only(w)'
  <2>1. Only(w)  BY <1>8 DEF Inv, Alone, AloneInv
  <2>2. current' = current /\ previous' = previous /\ record' = record /\ ran' = ran
    BY <1>1 DEF durable
  <2>3. PICK c \in Changes : c = worker[w].change /\ c = worker'[w].change
    BY <1>1, <1>4 DEF Inv, Control, Begun, Moved
  <2>4. current = c /\ record[c] = "switching" /\ Good(previous)  BY <1>1, <2>1, <2>3 DEF Only
  <2>5. healthy => c \in ran  BY <1>2, <2>4 DEF Inv, Alone, Served
  <2> QED  BY <1>4, <2>2, <2>3, <2>4, <2>5 DEF Only, Before, Good, Moved
<1>9. Alive(w) /\ "judged" \in Labels \ {"idle", "saved", "marked"}
  BY <1>1 DEF Alive, Ended, Labels
<1>10. UNCHANGED durable  BY <1>1
<1> QED  BY <1>4, <1>5, <1>6, <1>7, <1>8, <1>9, <1>10, Still

(* The rest: actions of several outcomes, and the first write of a switch. *)

LEMMA JournalStageKeeps ==
  ASSUME Inv, NEW w \in Workers, JournalStage(w), UNCHANGED overlap
  PROVE  Kept
<1>1. /\ IF slot[worker[w].change] \/ record[worker[w].change] # "none"
         THEN Leave(w, "staging", "over") /\ UNCHANGED journal
         ELSE /\ Inside(w, "staging", "journaled")
              /\ journal' = [journal EXCEPT ![worker[w].change] = Staging(FALSE)]
      /\ UNCHANGED <<slot, receipt, record, current, previous, service, ran>>
  BY Zenon DEF JournalStage
<1>2. CASE slot[worker[w].change] \/ record[worker[w].change] # "none"
  <2>1. Leave(w, "staging", "over") /\ UNCHANGED journal  BY <1>1, <1>2, Zenon
  <2>2. /\ worker[w].pc = "staging" /\ Moved(w, "over")
        /\ lock' = NULL /\ Sections' /\ Begun'
    BY <2>1, LeaveMoves DEF Inv, Locked, Labels
  <2>3. UNCHANGED <<durable, service, ran>>  BY <1>1, <2>1 DEF durable
  <2> QED  BY <2>2, <2>3, EndKeeps DEF Alive, Ended
<1>3. CASE ~slot[worker[w].change] /\ record[worker[w].change] = "none"
  <2>1. /\ Inside(w, "staging", "journaled")
        /\ journal' = [journal EXCEPT ![worker[w].change] = Staging(FALSE)]
    BY <1>1, <1>3, Zenon
  <2> QED  BY <1>1, <1>3, <2>1, StageIsJournalledKeeps
<1> QED  BY <1>2, <1>3, Zenon

(* The slot goes before the record: a stage in progress has its journal.   *)
LEMMA CleanUpKeeps ==
  ASSUME Inv, NEW w \in Workers, CleanUp(w), UNCHANGED overlap
  PROVE  Kept
<1>1. TypeOK /\ Control  BY DEF Inv, Control
<1>2. /\ worker[w].pc = "cleaning"
      /\ UNCHANGED <<receipt, current, previous, service, ran>>
  BY Zenon DEF CleanUp
<1>3. PICK c \in Changes : c = worker[w].change  BY <1>2 DEF Inv, Control, Begun
<1>4. /\ slot' = [slot EXCEPT ![c] = FALSE]
      /\ record' = [record EXCEPT ![c] = IF slot[c] THEN record[c] ELSE "none"]
      /\ IF slot[c] \/ record[c] # "none"
         THEN UNCHANGED <<journal, lock, worker>>
         ELSE journal' = [journal EXCEPT ![c] = NoJournal] /\ Leave(w, "cleaning", "over")
  <2>1. record' = [record EXCEPT ![c] = IF slot[c] THEN @ ELSE "none"]
    BY <1>3, Zenon DEF CleanUp
  <2>2. /\ slot' = [slot EXCEPT ![c] = FALSE]
        /\ IF slot[c] \/ record[c] # "none"
           THEN UNCHANGED <<journal, lock, worker>>
           ELSE journal' = [journal EXCEPT ![c] = NoJournal] /\ Leave(w, "cleaning", "over")
    BY <1>3, Zenon DEF CleanUp
  <2> QED  BY <2>1, <2>2
<1>5. CASE ~slot[c] /\ record[c] = "none"
  <2>1. journal' = [journal EXCEPT ![c] = NoJournal] /\ Leave(w, "cleaning", "over")
    BY <1>4, <1>5, Zenon
  <2>2. slot[c] = FALSE  BY <1>1, <1>5 DEF TypeOK
  <2>3. slot' = slot  BY <1>1, <1>4, <2>2 DEF TypeOK
  <2>4. (IF slot[c] THEN record[c] ELSE "none") = record[c]  BY <1>5
  <2>5. record' = record  BY <1>1, <1>4, <2>4 DEF TypeOK
  <2>6. UNCHANGED <<slot, receipt, record, current, previous, service, ran>>
    BY <1>2, <2>3, <2>5
  <2> QED  BY <1>3, <1>5, <2>1, <2>6, CleanUpEndsKeeps
<1>6. CASE slot[c] \/ record[c] # "none"
  <2>1. UNCHANGED <<journal, lock, worker>>  BY <1>4, <1>6, Zenon
  <2>2. IsStaging(c)
    <3>1. AtWork(w)  BY DEF Inv, Disk, AllAtWork
    <3> QED  BY <1>2, <1>3, <3>1 DEF AtWork
  <2>3. record[c] \in {"none", "staged"}  BY <2>2 DEF Inv, Disk, StagingOK
  <2>4. PICK r \in {"none", "staged"} : record' = [record EXCEPT ![c] = r]
    <3> DEFINE r == IF slot[c] THEN record[c] ELSE "none"
    <3>1. r \in {"none", "staged"}  BY <2>3
    <3>2. record' = [record EXCEPT ![c] = r]  BY <1>4
    <3> QED  BY <3>1, <3>2
  <2>5. /\ Moved(w, "cleaning") /\ Sections' /\ Begun'
        /\ lock = w /\ worker' = worker /\ lock' = lock
    BY <1>1, <1>2, <2>1 DEF Moved, Control, TypeOK, Sections, Begun, Locked
  <2>6. TypeOK'  BY <1>1, <1>2, <1>4, <2>1, <2>4, <2>5 DEF TypeOK, States
  <2>7. \A d \in Changes \ {c} : slot'[d] = slot[d] /\ record'[d] = record[d]
    BY <1>1, <1>4, <2>4 DEF TypeOK
  <2>8. record'[c] \in {"none", "staged"}  BY <1>1, <2>4 DEF TypeOK
  <2>9. StagingOK' /\ NoOrphans'
    BY <2>1, <2>2, <2>7, <2>8 DEF Inv, Disk, StagingOK, NoOrphans, IsStaging
  <2>10. \A x : Named(x)' => Named(x)  BY <1>2, <2>1, NamedLess
  <2>11. NamedOK'
    BY <1>2, <2>1, <2>3, <2>7, <2>10 DEF Inv, Disk, NamedOK, Confirmed, InTransit, IsSwitching
  <2>12. AtWork(w)'  BY <1>2, <1>3, <2>1, <2>2 DEF AtWork, IsStaging
  <2>13. Served' /\ HealthyRan'  BY <1>2, <2>7, <2>8 DEF Inv, Alone, Served, HealthyRan
  <2>14. ~overlap => (Undone /\ CurrentOK /\ Only(w))'
    <3>1. \A x : Good(x) => Good(x)'  BY <2>3, <2>7 DEF Good
    <3>2. CurrentOK => CurrentOK'  BY <1>2, <2>3, <2>7, <3>1 DEF CurrentOK, InTransit
    <3>3. Undone => Undone'  BY <2>1, <3>1 DEF Undone, IsSwitching
    <3>4. Only(w) => Only(w)'  BY <1>2, <2>1 DEF Only, IsSwitching
    <3> QED  BY <3>2, <3>3, <3>4 DEF Inv, Alone, AloneInv
  <2>15. \A d \in Changes : Past(d) => Past(d)'  BY <2>1, <2>2, <2>7 DEF Past, IsStaging
  <2>16. Along  BY <2>3, <2>7, <2>8 DEF Along, Transitions
  <2>17. Alive(w) /\ "cleaning" \in Labels \ {"idle"}  BY <1>2 DEF Alive, Ended, Labels
  <2> QED
    BY <2>5, <2>6, <2>9, <2>11, <2>12, <2>13, <2>14, <2>15, <2>16, <2>17, Others DEF Kept
<1> QED  BY <1>5, <1>6, Zenon

LEMMA PreflightKeeps ==
  ASSUME Inv, NEW w \in Workers, Preflight(w), UNCHANGED overlap
  PROVE  Kept
<1>1. /\ record[worker[w].change] = "staged"
      /\ \/ /\ Whole(w, "staged", "checked")
            /\ receipt' = [receipt EXCEPT ![worker[w].change] = "passed"]
         \/ /\ Whole(w, "staged", "over")
            /\ receipt' = [receipt EXCEPT ![worker[w].change] = "failed"]
      /\ UNCHANGED <<slot, record, journal, current, previous, service, ran>>
  BY Zenon DEF Preflight
<1> QED  BY <1>1, PreflightPassesKeeps, PreflightFailsKeeps, Zenon

(* The first write of a switch: what is saved is what the pointer names,   *)
(* and while commands run one at a time that is a slot called healthy.     *)
LEMMA SavePreviousKeeps ==
  ASSUME Inv, NEW w \in Workers, SavePrevious(w), UNCHANGED overlap
  PROVE  Kept
<1>1. /\ worker[w].pc = "confirmed" /\ lock = NULL /\ lock' = w
      /\ previous' = current
      /\ worker' = [worker EXCEPT ![w].pc = "saved", ![w].prev = current]
      /\ UNCHANGED <<slot, receipt, record, journal, current, service, ran>>
  BY Zenon DEF SavePrevious
<1>2. TypeOK /\ Control  BY DEF Inv, Control
<1>3. PICK c \in Changes : c = worker[w].change  BY <1>1 DEF Inv, Control, Begun
<1>4. record[c] = "awaiting_confirmation" /\ slot[c] /\ receipt[c] = "passed"
  BY <1>3, Zenon DEF SavePrevious
<1>5. Moved(w, "saved") /\ worker'[w].prev = current /\ worker'[w].change = c
  BY <1>1, <1>2, <1>3, PrevMoves DEF Moved, TypeOK
<1>6. Sections' /\ Begun' /\ lock' \in Workers \cup {NULL}
  BY <1>1, <1>2, <1>5, LockMoves DEF Labels, Locked
<1>7. TypeOK'  BY <1>1, <1>2, <1>5, <1>6 DEF TypeOK, Moved
<1>8. StagingOK' /\ NoOrphans'
  BY <1>1 DEF Inv, Disk, StagingOK, NoOrphans, IsStaging
<1>9. \A x : Named(x)' => Named(x)
  BY <1>1, <1>5 DEF Named, IsSwitching, Moved
<1>10. NamedOK'
  BY <1>1, <1>9 DEF Inv, Disk, NamedOK, Confirmed, InTransit, IsSwitching
<1>11. AtWork(w)'  BY <1>1, <1>4, <1>5 DEF AtWork, Moved
<1>12. Served' /\ HealthyRan'  BY <1>1 DEF Inv, Alone, Served, HealthyRan
<1>13. ASSUME ~overlap
       PROVE  (Undone /\ CurrentOK /\ Only(w))'
  <2>1. Undone /\ CurrentOK /\ Only(w)  BY <1>13 DEF Inv, Alone, AloneInv
  <2>2. \A d \in Changes : ~IsSwitching(d)  BY <1>1, <2>1 DEF Only, Before
  <2>3. Good(current)
    <3>1. ASSUME current \in Changes, InTransit(current)
          PROVE  FALSE
      <4>1. Named(current)  BY DEF Named
      <4> QED  BY <2>2, <3>1, <4>1 DEF Inv, Disk, NamedOK
    <3> QED  BY <2>1, <3>1 DEF CurrentOK
  <2>4. (Undone /\ CurrentOK)'
    BY <1>1, <2>1 DEF Undone, CurrentOK, Good, InTransit, IsSwitching
  <2>5. Only(w)'  BY <1>1, <1>5, <2>2, <2>3 DEF Only, Good, IsSwitching, Moved
  <2> QED  BY <2>4, <2>5
<1>14. \A d \in Changes : Past(d) => Past(d)'  BY <1>1 DEF Past, IsStaging
<1>15. Along  BY <1>1 DEF Along
<1>16. Alive(w) /\ "saved" \in Labels \ {"idle"}  BY <1>1 DEF Alive, Ended, Labels
<1> QED
  BY <1>1, <1>5, <1>6, <1>7, <1>8, <1>10, <1>11, <1>12, <1>13, <1>14, <1>15, <1>16, Others
     DEF Kept

LEMMA SettleKeeps ==
  ASSUME Inv, NEW w \in Workers, Settle(w), UNCHANGED overlap
  PROVE  Kept
<1>1. /\ worker[w].pc = "judged"
      /\ \/ /\ record[worker[w].change] = "switching" /\ worker[w].good
            /\ Enter(w, "judged", "accepted")
            /\ record' = [record EXCEPT ![worker[w].change] = "healthy"]
         \/ /\ record[worker[w].change] = "switching" /\ ~worker[w].good
            /\ Enter(w, "judged", "refused")
            /\ record' = [record EXCEPT ![worker[w].change] = "rolling_back"]
         \/ /\ Whole(w, "judged", "over")
            /\ UNCHANGED record
      /\ UNCHANGED <<slot, receipt, journal, current, previous, service, ran>>
  BY Zenon DEF Settle
<1>2. ASSUME Whole(w, "judged", "over"), UNCHANGED record
      PROVE  Kept
  <2>1. Moved(w, "over") /\ lock' = NULL /\ Sections' /\ Begun'
    BY <1>2, WholeMoves DEF Inv, Locked, Labels
  <2>2. UNCHANGED <<durable, service, ran>>  BY <1>1, <1>2 DEF durable
  <2> QED  BY <1>1, <2>1, <2>2, EndKeeps DEF Alive, Ended
<1> QED  BY <1>1, <1>2, SettleHealthyKeeps, SettleRefusedKeeps, Zenon

LEMMA SettleRollbackKeeps ==
  ASSUME Inv, NEW w \in Workers, SettleRollback(w), UNCHANGED overlap
  PROVE  Kept
<1>1. /\ worker[w].pc = "restoredUp"
      /\ \/ /\ record[worker[w].change] = "rolling_back"
            /\ Enter(w, "restoredUp", "closing")
            /\ record' = [record EXCEPT ![worker[w].change] =
                            IF worker[w].good THEN "rolled_back" ELSE "recovery_required"]
         \/ /\ Whole(w, "restoredUp", "over")
            /\ UNCHANGED record
      /\ UNCHANGED <<slot, receipt, journal, current, previous, service, ran>>
  BY Zenon DEF SettleRollback
<1>2. ASSUME Whole(w, "restoredUp", "over"), UNCHANGED record
      PROVE  Kept
  <2>1. Moved(w, "over") /\ lock' = NULL /\ Sections' /\ Begun'
    BY <1>2, WholeMoves DEF Inv, Locked, Labels
  <2>2. UNCHANGED <<durable, service, ran>>  BY <1>1, <1>2 DEF durable
  <2> QED  BY <1>1, <2>1, <2>2, EndKeeps DEF Alive, Ended
<1>3. ASSUME record[worker[w].change] = "rolling_back", Enter(w, "restoredUp", "closing"),
             record' = [record EXCEPT ![worker[w].change] =
                          IF worker[w].good THEN "rolled_back" ELSE "recovery_required"]
      PROVE  Kept
  <2> DEFINE r == IF worker[w].good THEN "rolled_back" ELSE "recovery_required"
  <2>1. r = "rolled_back" \/ r = "recovery_required"  OBVIOUS
  <2>2. record' = [record EXCEPT ![worker[w].change] = r]  BY <1>3
  <2> HIDE DEF r
  <2> QED  BY <1>1, <1>3, <2>1, <2>2, RollbackSettledGoodKeeps, RollbackSettledBadKeeps, Zenon
<1> QED  BY <1>1, <1>2, <1>3, Zenon

----------------------------------------------------------------------------
(* The specification.                                                      *)

LEMMA InitHolds == Init => Inv
<1> SUFFICES ASSUME Init  PROVE Inv  OBVIOUS
<1> DEFINE r == [pc |-> "idle", change |-> NULL, at |-> NULL, prev |-> NULL, good |-> FALSE]
<1>1. worker = [w \in Workers |-> r]  BY DEF Init
<1>2. r \in Worker /\ r.pc = "idle"  BY DEF Worker, Labels, Pointers
<1> HIDE DEF r
<1>3. /\ slot = [c \in Changes |-> FALSE] /\ receipt = [c \in Changes |-> "none"]
      /\ record = [c \in Changes |-> "none"] /\ journal = [c \in Changes |-> NoJournal]
      /\ current = NULL /\ previous = NULL /\ service = NULL /\ ran = {}
      /\ lock = NULL /\ overlap = FALSE
  BY DEF Init
<1>4. worker \in [Workers -> Worker] /\ \A w \in Workers : worker[w].pc = "idle"
  BY <1>1, <1>2
<1>5. \A c \in Changes : journal[c].state = "none"  BY <1>3, Journals
<1>6. Control
  <2>1. TypeOK
    <3>1. journal \in [Changes -> Journal]  BY <1>3, Journals
    <3>2. slot \in [Changes -> BOOLEAN]  BY <1>3
    <3> QED  BY <1>3, <1>4, <3>1, <3>2 DEF TypeOK, Pointers, States
  <2>2. Sections /\ Begun  BY <1>3, <1>4, BuilderAssumption DEF Sections, Begun, Locked
  <2> QED  BY <2>1, <2>2 DEF Control
<1>7. Disk
  <2>1. StagingOK /\ NoOrphans  BY <1>3, <1>5 DEF StagingOK, NoOrphans, IsStaging
  <2>2. NamedOK  BY <1>3, <1>4, <1>5, BuilderAssumption DEF NamedOK, Named, IsSwitching
  <2>3. AllAtWork  BY <1>4 DEF AllAtWork, AtWork
  <2> QED  BY <2>1, <2>2, <2>3 DEF Disk
<1>8. Alone
  <2>1. Single  BY <1>4 DEF Single, Alive
  <2>2. Served /\ HealthyRan  BY <1>3, BuilderAssumption DEF Served, HealthyRan
  <2>3. AloneInv
    BY <1>3, <1>4, <1>5 DEF AloneInv, Undone, CurrentOK, Good, Only, Before, IsSwitching
  <2> QED  BY <2>1, <2>2, <2>3 DEF Alone
<1> QED  BY <1>6, <1>7, <1>8 DEF Inv

LEMMA NextKeeps ==
  ASSUME Inv, Next
  PROVE  Kept
<1>1. ASSUME NEW w \in Workers, NEW c \in Changes, Open(w, c)  PROVE Kept
  BY <1>1, OpenKeeps
<1>2. ASSUME NEW w \in Workers, Die(w), UNCHANGED overlap  PROVE Kept
  BY <1>2, DieKeeps
<1>3. ASSUME NEW w \in Workers, Step(w), UNCHANGED overlap  PROVE Kept
  <2>1. CASE Opened(w)  BY <1>3, <2>1, OpenedKeeps
  <2>2. CASE Stage(w)  BY <1>3, <2>2, StageKeeps
  <2>3. ASSUME NEW c \in Changes,
               Mend(w, c) \/ RestoreJournalled(w, c) \/ MarkRecovery(w, c) \/ DropJournal(w, c)
        PROVE  Kept
    BY <1>3, <2>3, MendKeeps, RestoreJournalledKeeps, MarkRecoveryKeeps, DropJournalKeeps
  <2>4. CASE JournalStage(w)  BY <1>3, <2>4, JournalStageKeeps
  <2>5. CASE JournalPayload(w)  BY <1>3, <2>5, JournalPayloadKeeps
  <2>6. CASE PublishSlot(w)  BY <1>3, <2>6, PublishSlotKeeps
  <2>7. CASE RecordStaged(w)  BY <1>3, <2>7, RecordStagedKeeps
  <2>8. CASE FinishStage(w)  BY <1>3, <2>8, FinishStageKeeps
  <2>9. CASE StageFails(w)  BY <1>3, <2>9, StageFailsKeeps
  <2>10. CASE CleanUp(w)  BY <1>3, <2>10, CleanUpKeeps
  <2>11. CASE Preflight(w)  BY <1>3, <2>11, PreflightKeeps
  <2>12. CASE Confirm(w)  BY <1>3, <2>12, ConfirmKeeps
  <2>13. CASE SavePrevious(w)  BY <1>3, <2>13, SavePreviousKeeps
  <2>14. CASE MarkSwitching(w)  BY <1>3, <2>14, MarkSwitchingKeeps
  <2>15. CASE JournalSwitch(w)  BY <1>3, <2>15, JournalSwitchKeeps
  <2>16. CASE SwitchPointer(w)  BY <1>3, <2>16, SwitchPointerKeeps
  <2>17. CASE RestartNew(w)  BY <1>3, <2>17, RestartKeeps DEF RestartNew
  <2>18. CASE Judge(w)  BY <1>3, <2>18, JudgeKeeps
  <2>19. CASE Settle(w)  BY <1>3, <2>19, SettleKeeps
  <2>20. CASE FinishSwitch(w)  BY <1>3, <2>20, FinishSwitchKeeps
  <2>21. CASE RestorePointer(w)  BY <1>3, <2>21, RestorePointerKeeps
  <2>22. CASE RestartOld(w)  BY <1>3, <2>22, RestartKeeps DEF RestartOld
  <2>23. CASE SettleRollback(w)  BY <1>3, <2>23, SettleRollbackKeeps
  <2>24. CASE FinishRollback(w)  BY <1>3, <2>24, FinishRollbackKeeps
  <2> QED
    BY <1>3, <2>1, <2>2, <2>3, <2>4, <2>5, <2>6, <2>7, <2>8, <2>9, <2>10, <2>11, <2>12, <2>13,
       <2>14, <2>15, <2>16, <2>17, <2>18, <2>19, <2>20, <2>21, <2>22, <2>23, <2>24, Zenon DEF Step
<1> QED  BY <1>1, <1>2, <1>3, Zenon DEF Next

LEMMA StutterKeeps ==
  ASSUME Inv, UNCHANGED vars
  PROVE  Kept
<1>1. UNCHANGED <<slot, receipt, record, journal, current, previous, service, ran, lock, worker, overlap>>
  BY DEF vars, durable
<1>2. Control'  BY <1>1 DEF Inv, Control, TypeOK, Sections, Begun
<1>3. Disk'
  <2>1. StagingOK' /\ NoOrphans'  BY <1>1 DEF Inv, Disk, StagingOK, NoOrphans, IsStaging
  <2>2. \A x : Named(x)' = Named(x)  BY <1>1 DEF Named, IsSwitching
  <2>3. NamedOK'  BY <1>1, <2>2 DEF Inv, Disk, NamedOK, Confirmed, InTransit, IsSwitching
  <2>4. AllAtWork'
    <3> SUFFICES ASSUME NEW w \in Workers  PROVE AtWork(w)'  BY DEF AllAtWork
    <3>1. AtWork(w)  BY DEF Inv, Disk, AllAtWork
    <3> QED  BY <1>1, <2>2, <3>1 DEF AtWork, IsStaging, Past
  <2> QED  BY <2>1, <2>3, <2>4 DEF Disk
<1>4. Alone'
  <2>1. Single' /\ Served' /\ HealthyRan'
    BY <1>1 DEF Inv, Alone, Single, Alive, Served, HealthyRan
  <2>2. AloneInv'
    <3> SUFFICES ASSUME ~overlap  PROVE (Undone /\ CurrentOK)' /\ \A w \in Workers : Only(w)'
      BY <1>1 DEF AloneInv
    <3>1. Undone /\ CurrentOK /\ \A w \in Workers : Only(w)  BY DEF Inv, Alone, AloneInv
    <3>2. (Undone /\ CurrentOK)'
      BY <1>1, <3>1 DEF Undone, CurrentOK, Good, InTransit, IsSwitching
    <3>3. ASSUME NEW w \in Workers  PROVE Only(w)'
      BY <1>1, <3>1 DEF Only, Before, Good, IsSwitching
    <3> QED  BY <3>2, <3>3
  <2> QED  BY <2>1, <2>2 DEF Alone
<1> QED  BY <1>1, <1>2, <1>3, <1>4 DEF Inv, Kept, Along

LEMMA InvAlways == Spec => []Inv
<1>1. Inv /\ [Next]_vars => Inv'  BY NextKeeps, StutterKeeps DEF Kept
<1> QED  BY InitHolds, <1>1, PTL DEF Spec

(* Every variable keeps its type, whatever commands run and die.           *)
THEOREM TypeCorrect == Spec => []TypeOK
<1>1. Inv => TypeOK  BY DEF Inv, Control
<1> QED  BY InvAlways, <1>1, PTL

(* The pointer the service starts from, the pointer a rollback restores and*)
(* the pointers the journals of activate_confirmed and of a recovery hold  *)
(* name only complete, checked and confirmed slots, at every write and     *)
(* after every death between two writes.                                   *)
THEOREM PointersConfirmed == Spec => []PointsToConfirmed
<1>1. Inv => PointsToConfirmed
  <2> SUFFICES ASSUME Inv, NEW c \in Restorable \ {NULL}
               PROVE  Confirmed(c)
    BY DEF PointsToConfirmed, Confirmed
  <2>1. Named(c)  BY DEF Restorable, Named
  <2>2. c \in Changes
    <3>1. TypeOK  BY DEF Inv, Control
    <3>2. \A d \in Changes : IsSwitching(d) => journal[d].prev \in Pointers
      BY <3>1, Journals DEF TypeOK, IsSwitching
    <3> QED  BY <3>1, <3>2 DEF Restorable, TypeOK, Pointers
  <2> QED  BY <2>1, <2>2 DEF Inv, Disk, NamedOK
<1> QED  BY InvAlways, <1>1, PTL

(* A published slot without a record, or a record without a slot, is in a  *)
(* journalled stage: the next Store finds and mends it.                    *)
THEOREM OrphansJournalled == Spec => []NoOrphans
<1>1. Inv => NoOrphans  BY DEF Inv, Disk
<1> QED  BY InvAlways, <1>1, PTL

(* While the pointer names a slot whose switch is not settled, the journal *)
(* that undoes the switch is on disk.                                      *)
THEOREM SwitchesJournalled == Spec => []SwitchIsJournalled
<1>1. Inv => SwitchIsJournalled
  BY DEF Inv, Disk, NamedOK, Named, InTransit, SwitchIsJournalled
<1> QED  BY InvAlways, <1>1, PTL

(* Records only move along _TRANSITIONS.                                   *)
THEOREM RecordsMoveAlong == Spec => OnlyTransitions
<1>1. Inv /\ [Next]_vars => [Along]_vars  BY NextKeeps DEF Kept
<1> QED  BY InvAlways, <1>1, PTL DEF Spec, OnlyTransitions, Along

(* While commands run one at a time, deaths included, the pointer does not *)
(* stay on a change that was rolled back or needs recovery.                *)
THEOREM FailedNotCurrent == Spec => []FailedIsNotCurrent
<1>1. Inv => FailedIsNotCurrent
  BY BuilderAssumption DEF Inv, Alone, AloneInv, CurrentOK, Good, InTransit, FailedIsNotCurrent
<1> QED  BY InvAlways, <1>1, PTL

(* While commands run one at a time, a change is called healthy only after *)
(* the service ran from its slot: the health check saw the switched tree.  *)
THEOREM HealthyAfterRun == Spec => []HealthyRan
<1>1. Inv => HealthyRan  BY DEF Inv, Alone
<1> QED  BY InvAlways, <1>1, PTL
----------------------------------------------------------------------------
(* A switch is atomic while commands run one at a time.  At most one switch*)
(* is journalled, and the worker that has it in hand knows the pointer the *)
(* journal holds: it is the one that was saved, and the one a rollback has *)
(* put back before the journal goes.                                       *)
OneSwitch == \A c, d \in Changes : IsSwitching(c) /\ IsSwitching(d) => c = d

InHand == {"armed", "switched", "restarted", "judged", "accepted", "refused"}
PutBack == {"restored", "restoredUp", "closing"}

Paired(w) ==
  LET c  == worker[w].change
      pc == worker[w].pc
  IN  /\ pc \in {"saved", "marked"} => worker[w].prev = current
      /\ pc \in InHand => IsSwitching(c) /\ journal[c].prev = previous
      /\ pc = "accepted" => current = c
      /\ pc \in PutBack => IsSwitching(c) /\ journal[c].prev = current

Pairing == ~overlap => OneSwitch /\ \A w \in Workers : Paired(w)

(* What a step may do to the pointer in effect.                            *)
Atomic ==
  ~overlap' /\ Effective' # Effective => \E c \in ran : Effective' = c /\ record[c] = "healthy"

Sound == Pairing' /\ Atomic

LEMMA EffectiveIs ==
  /\ (\A c \in Changes : ~IsSwitching(c)) => Effective = current
  /\ \A c \in Changes : OneSwitch /\ IsSwitching(c) => Effective = journal[c].prev
<1>1. ASSUME NEW c \in Changes, OneSwitch, IsSwitching(c)
      PROVE  (CHOOSE d \in Changes : IsSwitching(d)) = c
  BY <1>1 DEF OneSwitch
<1> QED  BY <1>1 DEF Effective

(* The same of the state after a step.                                     *)
LEMMA EffectiveThen ==
  /\ (\A c \in Changes : ~IsSwitching(c)') => Effective' = current'
  /\ \A c \in Changes : OneSwitch' /\ IsSwitching(c)' => Effective' = journal'[c].prev
<1>1. ASSUME NEW c \in Changes, OneSwitch', IsSwitching(c)'
      PROVE  (CHOOSE d \in Changes : IsSwitching(d)') = c
  BY <1>1 DEF OneSwitch
<1> QED  BY <1>1 DEF Effective

(* No switch is begun, ended or rewritten, and the pointer moves only      *)
(* under one that is journalled: the pointer in effect stays.              *)
LEMMA SameEffect ==
  ASSUME OneSwitch,
         \A d \in Changes : IsSwitching(d)' <=> IsSwitching(d),
         \A d \in Changes : IsSwitching(d) => journal'[d].prev = journal[d].prev,
         current' = current \/ \E d \in Changes : IsSwitching(d)
  PROVE  OneSwitch' /\ Effective' = Effective
<1>1. OneSwitch'
  BY DEF OneSwitch
<1>2. CASE \A d \in Changes : ~IsSwitching(d)
  BY <1>1, <1>2, EffectiveIs, EffectiveThen
<1>3. CASE \E d \in Changes : IsSwitching(d)
  BY <1>1, <1>3, EffectiveIs, EffectiveThen
<1> QED  BY <1>1, <1>2, <1>3

(* Nobody but the one worker has a switch in hand.                         *)
LEMMA NobodyElse ==
  ASSUME Inv, ~overlap, NEW w \in Workers, Alive(w),
         \A v \in Workers \ {w} : worker'[v] = worker[v]
  PROVE  \A v \in Workers \ {w} : Paired(v)'
<1> SUFFICES ASSUME NEW v \in Workers \ {w}
             PROVE  Paired(v)'
  OBVIOUS
<1>1. worker'[v].pc \in {"idle", "over", "dead"}
  BY DEF Inv, Alone, Single, Alive, Ended
<1> QED  BY <1>1 DEF Paired, InHand, PutBack

Bare == Labels \ ({"idle", "saved", "marked"} \cup InHand \cup PutBack)

LEMMA BarePaired ==
  ASSUME NEW w \in Workers, NEW to \in Bare, Moved(w, to)
  PROVE  Paired(w)'
BY DEF Moved, Bare, Paired, InHand, PutBack

(* A step that leaves the worker with no switch in hand.                   *)
LEMMA BareSound ==
  ASSUME Inv, Pairing, NEW w \in Workers, Alive(w), UNCHANGED overlap,
         NEW to \in Bare, Moved(w, to),
         \A d \in Changes : IsSwitching(d)' <=> IsSwitching(d),
         \A d \in Changes : IsSwitching(d) => journal'[d].prev = journal[d].prev,
         current' = current \/ \E d \in Changes : IsSwitching(d)
  PROVE  Sound
<1> SUFFICES ASSUME ~overlap  PROVE Pairing' /\ Effective' = Effective
  BY DEF Sound, Atomic, Pairing
<1>1. OneSwitch' /\ Effective' = Effective
  BY SameEffect DEF Pairing
<1>2. Paired(w)'
  BY BarePaired
<1>3. \A v \in Workers \ {w} : Paired(v)'
  BY NobodyElse DEF Moved
<1> QED  BY <1>1, <1>2, <1>3 DEF Pairing

(* A step of the worker that has the switch in hand, or comes to have it.  *)
LEMMA HandSound ==
  ASSUME Inv, Pairing, NEW w \in Workers, Alive(w), UNCHANGED overlap,
         \A v \in Workers \ {w} : worker'[v] = worker[v],
         ~overlap => /\ Paired(w)' /\ OneSwitch'
                     /\ \/ Effective' = Effective
                        \/ \E c \in ran : Effective' = c /\ record[c] = "healthy"
  PROVE  Sound
<1>1. ~overlap => \A v \in Workers : Paired(v)'
  BY NobodyElse
<1> QED  BY <1>1 DEF Sound, Atomic, Pairing

(* Writes that touch neither journal nor pointer, by a worker with no      *)
(* switch in hand.                                                         *)
LEMMA StillSound ==
  ASSUME Inv, Pairing, NEW w \in Workers, Alive(w), UNCHANGED <<journal, current, overlap>>,
         NEW to \in Bare, Moved(w, to)
  PROVE  Sound
BY BareSound DEF IsSwitching

LEMMA CommandSound ==
  ASSUME Inv, Pairing, NEW w \in Workers, UNCHANGED overlap,
         \/ Opened(w) \/ Stage(w) \/ PublishSlot(w) \/ RecordStaged(w) \/ StageFails(w)
         \/ Preflight(w) \/ Confirm(w) \/ Die(w)
  PROVE  Sound
<1> USE DEF Inv, Control, Locked, Labels, Ended
<1>1. ASSUME NEW from \in Labels \ {"idle", "over", "dead"}, NEW to \in Bare,
             worker[w].pc = from, Moved(w, to), UNCHANGED <<journal, current>>
      PROVE  Sound
  BY <1>1, StillSound DEF Alive
<1>2. CASE Opened(w)
  <2>1. Leave(w, "opening", "opened") /\ UNCHANGED <<journal, current>>  BY <1>2 DEF Opened, durable
  <2> QED  BY <1>1, <2>1, LeaveMoves DEF Bare, InHand, PutBack
<1>3. CASE Stage(w)
  <2>1. Enter(w, "opened", "staging") /\ UNCHANGED <<journal, current>>  BY <1>3 DEF Stage, durable
  <2> QED  BY <1>1, <2>1, EnterMoves DEF Bare, InHand, PutBack
<1>4. CASE PublishSlot(w)
  <2>1. Inside(w, "prepared", "published") /\ UNCHANGED <<journal, current>>
    BY <1>4 DEF PublishSlot
  <2> QED  BY <1>1, <2>1, InsideMoves DEF Bare, InHand, PutBack
<1>5. CASE RecordStaged(w)
  <2>1. Inside(w, "published", "recorded") /\ UNCHANGED <<journal, current>>
    BY <1>5 DEF RecordStaged
  <2> QED  BY <1>1, <2>1, InsideMoves DEF Bare, InHand, PutBack
<1>6. CASE StageFails(w)
  <2>1. Goto(w, "cleaning") /\ UNCHANGED <<journal, current>>  BY <1>6 DEF StageFails, durable
  <2>2. Moved(w, "cleaning")  BY <2>1, GotoMoves DEF Moved
  <2> QED  BY <1>1, <1>6, <2>1, <2>2 DEF StageFails, Bare, InHand, PutBack
<1>7. CASE Preflight(w)
  <2>1. /\ Whole(w, "staged", "checked") \/ Whole(w, "staged", "over")
        /\ UNCHANGED <<journal, current>>
    BY <1>7 DEF Preflight
  <2> QED  BY <1>1, <2>1, WholeMoves DEF Bare, InHand, PutBack
<1>8. CASE Confirm(w)
  <2>1. Whole(w, "checked", "confirmed") /\ UNCHANGED <<journal, current>>  BY <1>8 DEF Confirm
  <2> QED  BY <1>1, <2>1, WholeMoves DEF Bare, InHand, PutBack
<1>9. CASE Die(w)
  <2>1. Goto(w, "dead") /\ UNCHANGED <<journal, current>> /\ Alive(w)  BY <1>9 DEF Die, durable
  <2>2. Moved(w, "dead")  BY <2>1, GotoMoves DEF Moved
  <2> QED  BY <2>1, <2>2, StillSound DEF Bare, InHand, PutBack
<1> QED  BY <1>2, <1>3, <1>4, <1>5, <1>6, <1>7, <1>8, <1>9

(* A run that begins while another is alive ends the premise; one that     *)
(* begins alone has no switch in hand.                                     *)
LEMMA OpenSound ==
  ASSUME Inv, Pairing, NEW w \in Workers, NEW c \in Changes, Open(w, c)
  PROVE  Sound
<1>1. /\ UNCHANGED <<journal, current>>
      /\ worker' = [worker EXCEPT ![w].pc = "opening", ![w].change = c]
      /\ ~overlap' => ~overlap /\ \A v \in Workers : ~Alive(v)
  BY DEF Open, durable
<1>2. worker'[w].pc = "opening" /\ \A v \in Workers \ {w} : worker'[v] = worker[v]
  BY <1>1, OpenMoves DEF Inv, Control
<1> SUFFICES ASSUME ~overlap'  PROVE Pairing' /\ Effective' = Effective
  BY DEF Sound, Atomic, Pairing
<1>3. OneSwitch' /\ Effective' = Effective
  BY <1>1, SameEffect DEF Pairing, IsSwitching
<1>4. \A v \in Workers : worker'[v].pc \in {"idle", "over", "dead", "opening"}
  BY <1>1, <1>2 DEF Alive, Ended
<1>5. \A v \in Workers : Paired(v)'
  BY <1>4 DEF Paired, InHand, PutBack
<1> QED  BY <1>3, <1>5 DEF Pairing

(* Writes to the journal of a stage.                                       *)
LEMMA StagingSound ==
  ASSUME Inv, Pairing, NEW w \in Workers, UNCHANGED overlap,
         JournalStage(w) \/ JournalPayload(w) \/ FinishStage(w) \/ CleanUp(w)
  PROVE  Sound
<1>1. PICK c \in Changes : c = worker[w].change
  BY DEF Inv, Control, Begun, JournalStage, JournalPayload, FinishStage, CleanUp, Inside, Leave
<1>2. journal \in [Changes -> Journal] /\ Control /\ TypeOK
  BY DEF Inv, Control, TypeOK
<1>3. ASSUME NEW from \in Labels \ {"idle", "over", "dead"}, NEW to \in Bare,
             worker[w].pc = from, Moved(w, to), UNCHANGED current, ~IsSwitching(c),
             NEW j \in Journal, j.state # "switching", journal' = [journal EXCEPT ![c] = j]
      PROVE  Sound
  <2>1. /\ \A d \in Changes : IsSwitching(d)' <=> IsSwitching(d)
        /\ \A d \in Changes : IsSwitching(d) => journal'[d].prev = journal[d].prev
    BY <1>2, <1>3 DEF IsSwitching
  <2> QED  BY <1>3, <2>1, BareSound DEF Alive, Ended
<1>4. AtWork(w)
  BY DEF Inv, Disk, AllAtWork
<1>5. CASE JournalStage(w)
  <2>1. \/ Leave(w, "staging", "over") /\ UNCHANGED <<journal, current>>
        \/ /\ Inside(w, "staging", "journaled") /\ UNCHANGED current
           /\ journal' = [journal EXCEPT ![c] = Staging(FALSE)]
    BY <1>1, <1>5, Zenon DEF JournalStage
  <2>2. journal[c].state = "none"
    BY <1>5, Journals DEF JournalStage
  <2>3. CASE Leave(w, "staging", "over") /\ UNCHANGED <<journal, current>>
    <3>1. worker[w].pc = "staging" /\ Moved(w, "over")
      BY <1>2, <2>3, LeaveMoves DEF Locked, Labels
    <3> QED  BY <2>3, <3>1, StillSound DEF Alive, Ended, Bare, Labels, InHand, PutBack
  <2>4. CASE /\ Inside(w, "staging", "journaled") /\ UNCHANGED current
             /\ journal' = [journal EXCEPT ![c] = Staging(FALSE)]
    <3>1. worker[w].pc = "staging" /\ Moved(w, "journaled")
      BY <1>2, <2>4, InsideMoves DEF Locked
    <3> QED
      BY <1>3, <2>2, <2>4, <3>1, Journals DEF IsSwitching, Bare, Labels, InHand, PutBack
  <2> QED  BY <2>1, <2>3, <2>4
<1>6. CASE JournalPayload(w)
  <2>1. /\ Inside(w, "journaled", "prepared") /\ UNCHANGED current
        /\ journal' = [journal EXCEPT ![c] = Staging(TRUE)]
    BY <1>1, <1>6 DEF JournalPayload
  <2>2. worker[w].pc = "journaled" /\ Moved(w, "prepared")
    BY <1>2, <2>1, InsideMoves DEF Locked
  <2>3. ~IsSwitching(c)
    BY <1>1, <1>4, <2>2, Journals DEF AtWork, IsSwitching
  <2> QED  BY <1>3, <2>1, <2>2, <2>3, Journals DEF Bare, Labels, InHand, PutBack
<1>7. CASE FinishStage(w)
  <2>1. /\ Leave(w, "recorded", "staged") /\ UNCHANGED current
        /\ journal' = [journal EXCEPT ![c] = NoJournal]
    BY <1>1, <1>7 DEF FinishStage
  <2>2. worker[w].pc = "recorded" /\ Moved(w, "staged")
    BY <1>2, <2>1, LeaveMoves DEF Locked, Labels
  <2>3. ~IsSwitching(c)
    BY <1>1, <1>4, <2>2, Journals DEF AtWork, IsSwitching
  <2> QED  BY <1>3, <2>1, <2>2, <2>3, Journals DEF Bare, Labels, InHand, PutBack
<1>8. CASE CleanUp(w)
  <2>1. worker[w].pc = "cleaning" /\ UNCHANGED current
    BY <1>8 DEF CleanUp
  <2>2. \/ UNCHANGED <<journal, worker>>
        \/ Leave(w, "cleaning", "over") /\ journal' = [journal EXCEPT ![c] = NoJournal]
    BY <1>1, <1>8, Zenon DEF CleanUp
  <2>3. ~IsSwitching(c)
    BY <1>1, <1>4, <2>1 DEF AtWork, IsStaging, IsSwitching
  <2>4. CASE UNCHANGED <<journal, worker>>
    <3>1. Moved(w, "cleaning")
      BY <1>2, <2>1, <2>4 DEF Moved, TypeOK
    <3> QED  BY <2>1, <2>4, <3>1, StillSound DEF Alive, Ended, Bare, Labels, InHand, PutBack
  <2>5. CASE Leave(w, "cleaning", "over") /\ journal' = [journal EXCEPT ![c] = NoJournal]
    <3>1. Moved(w, "over")
      BY <1>2, <2>5, LeaveMoves DEF Locked, Labels
    <3> QED
      BY <1>3, <2>1, <2>3, <2>5, <3>1, Journals DEF Bare, Labels, InHand, PutBack
  <2> QED  BY <2>2, <2>4, <2>5
<1> QED  BY <1>5, <1>6, <1>7, <1>8

(* The next Store: the pointer goes back under the journal, which goes     *)
(* when the pointer is what it holds.                                      *)
LEMMA ReconcileSound ==
  ASSUME Inv, Pairing, NEW w \in Workers, NEW c \in Changes, UNCHANGED overlap,
         Mend(w, c) \/ RestoreJournalled(w, c) \/ MarkRecovery(w, c) \/ DropJournal(w, c)
  PROVE  Sound
<1>1. /\ worker[w].pc \in {"opening", "staging"}
      /\ \E x \in Pointers : worker' = [worker EXCEPT ![w].at = x]
  BY DEF Mend, RestoreJournalled, MarkRecovery, DropJournal, Reconciling, Reconciled, Pointers
<1>2. PICK to \in Bare : to = worker[w].pc /\ Moved(w, to) /\ Alive(w)
  <2>1. Moved(w, worker[w].pc)
    BY <1>1, AtMoves DEF Inv, Control, Moved
  <2> QED  BY <1>1, <2>1 DEF Alive, Ended, Bare, Labels, InHand, PutBack
<1>3. journal \in [Changes -> Journal]
  BY DEF Inv, Control, TypeOK
<1>4. CASE Mend(w, c) \/ MarkRecovery(w, c)
  BY <1>2, <1>4, StillSound DEF Mend, MarkRecovery
<1>5. CASE RestoreJournalled(w, c)
  <2>1. UNCHANGED journal /\ IsSwitching(c)
    BY <1>5 DEF RestoreJournalled
  <2> QED  BY <1>2, <2>1, BareSound DEF IsSwitching
<1>6. CASE DropJournal(w, c)
  <2>1. /\ UNCHANGED current /\ journal' = [journal EXCEPT ![c] = NoJournal]
        /\ IsSwitching(c) => current = journal[c].prev
    BY <1>6 DEF DropJournal
  <2>2. /\ \A d \in Changes \ {c} : journal'[d] = journal[d]
        /\ ~IsSwitching(c)'
    BY <1>3, <2>1, Journals DEF IsSwitching
  <2>3. CASE ~IsSwitching(c)
    BY <1>2, <2>1, <2>2, <2>3, BareSound DEF IsSwitching
  <2>4. CASE IsSwitching(c)
    <3>1. ASSUME ~overlap
          PROVE  Paired(w)' /\ OneSwitch' /\ Effective' = Effective
      <4>1. \A d \in Changes : ~IsSwitching(d)'
        BY <2>2, <2>4, <3>1 DEF Pairing, OneSwitch, IsSwitching
      <4>2. Effective' = current' /\ Effective = journal[c].prev
        BY <2>4, <3>1, <4>1, EffectiveIs, EffectiveThen DEF Pairing
      <4>3. Paired(w)'
        BY <1>2, BarePaired
      <4> QED  BY <2>1, <2>4, <4>1, <4>2, <4>3 DEF OneSwitch
    <3> QED  BY <1>2, <3>1, HandSound DEF Moved
  <2> QED  BY <2>3, <2>4
<1> QED  BY <1>4, <1>5, <1>6

(* The pointer is saved, and the switch journalled with what was saved:    *)
(* the pointer in effect is then what the journal holds.                   *)
LEMMA PrepareSound ==
  ASSUME Inv, Pairing, NEW w \in Workers, UNCHANGED overlap,
         SavePrevious(w) \/ MarkSwitching(w) \/ JournalSwitch(w)
  PROVE  Sound
<1>1. /\ worker[w].pc \in {"confirmed", "saved", "marked"} /\ UNCHANGED current
      /\ Control /\ TypeOK /\ Alive(w)
  BY DEF SavePrevious, MarkSwitching, JournalSwitch, Inside, Inv, Control, Alive, Ended
<1>2. PICK c \in Changes : c = worker[w].change
  BY <1>1 DEF Control, Begun
<1>3. ~overlap => (\A d \in Changes : ~IsSwitching(d)) /\ Paired(w) /\ Only(w)
  BY <1>1 DEF Pairing, Inv, Alone, AloneInv, Only, Before
<1>4. CASE SavePrevious(w)
  <2>1. /\ UNCHANGED journal /\ worker' = [worker EXCEPT ![w].pc = "saved", ![w].prev = current]
        /\ current \in Pointers
    BY <1>1, <1>4 DEF SavePrevious, TypeOK
  <2>2. worker'[w].pc = "saved" /\ worker'[w].prev = current
        /\ \A v \in Workers \ {w} : worker'[v] = worker[v]
    BY <1>1, <2>1, PrevMoves
  <2>3. Paired(w)'
    BY <1>1, <2>2 DEF Paired, InHand, PutBack
  <2>4. ~overlap => OneSwitch' /\ Effective' = Effective
    BY <1>1, <2>1, SameEffect DEF Pairing, IsSwitching
  <2> QED  BY <1>1, <2>2, <2>3, <2>4, HandSound
<1>5. CASE MarkSwitching(w)
  <2>1. Inside(w, "saved", "marked") /\ UNCHANGED journal
    BY <1>5 DEF MarkSwitching
  <2>2. worker[w].pc = "saved" /\ Moved(w, "marked") /\ Same(w)
    BY <1>1, <2>1, InsideMoves DEF Locked
  <2>3. Paired(w) => Paired(w)'
    BY <1>1, <2>2 DEF Moved, Same, Paired, InHand, PutBack
  <2>4. ~overlap => OneSwitch' /\ Effective' = Effective
    BY <1>1, <2>1, SameEffect DEF Pairing, IsSwitching
  <2> QED  BY <1>1, <1>3, <2>2, <2>3, <2>4, HandSound DEF Moved
<1>6. CASE JournalSwitch(w)
  <2>1. PICK x \in Pointers : x = worker[w].prev
    BY <1>1 DEF TypeOK, Worker
  <2>2. Inside(w, "marked", "armed") /\ journal' = [journal EXCEPT ![c] = Switching(x)]
        /\ UNCHANGED previous
    BY <1>2, <1>6, <2>1 DEF JournalSwitch
  <2>3. worker[w].pc = "marked" /\ Moved(w, "armed")
    BY <1>1, <2>2, InsideMoves DEF Locked
  <2>4. /\ journal'[c].state = "switching" /\ journal'[c].prev = x
        /\ \A d \in Changes \ {c} : journal'[d] = journal[d]
    BY <1>1, <2>2, Journals DEF TypeOK
  <2>5. ASSUME ~overlap
        PROVE  Paired(w)' /\ OneSwitch' /\ Effective' = Effective
    <3>1. x = current /\ x = previous
      BY <1>3, <2>1, <2>3, <2>5 DEF Paired, Only
    <3>2. IsSwitching(c)' /\ \A d \in Changes \ {c} : ~IsSwitching(d)'
      BY <1>3, <2>4, <2>5 DEF IsSwitching
    <3>3. OneSwitch'
      BY <3>2 DEF OneSwitch
    <3>4. Effective = current /\ Effective' = x
      BY <1>3, <2>4, <2>5, <3>2, <3>3, EffectiveIs, EffectiveThen
    <3>5. worker'[w].pc = "armed" /\ worker'[w].change = c
      BY <1>2, <2>3 DEF Moved
    <3>6. Paired(w)'
      BY <2>2, <2>4, <3>1, <3>2, <3>5 DEF Paired, InHand, PutBack
    <3> QED  BY <3>1, <3>3, <3>4, <3>6
  <2> QED  BY <1>1, <2>3, <2>5, HandSound DEF Moved
<1> QED  BY <1>4, <1>5, <1>6

(* A switch under way: only the pointers move, and under the journal.      *)
LEMMA SwitchSound ==
  ASSUME Inv, Pairing, NEW w \in Workers, UNCHANGED overlap,
         \/ SwitchPointer(w) \/ RestartNew(w) \/ Judge(w) \/ Settle(w)
         \/ RestorePointer(w) \/ RestartOld(w) \/ SettleRollback(w)
  PROVE  Sound
<1>1. Control /\ TypeOK
  BY DEF Inv, Control
<1>2. ~overlap => Paired(w) /\ Only(w)
  BY DEF Pairing, Inv, Alone, AloneInv
<1>3. ASSUME NEW from \in InHand \cup PutBack, NEW to \in InHand \cup PutBack, worker[w].pc = from,
             Moved(w, to), UNCHANGED <<journal, previous>>, ~overlap => Paired(w)'
      PROVE  Sound
  <2>1. Alive(w) /\ worker[w].change \in Changes
    BY <1>1, <1>3 DEF Alive, Ended, InHand, PutBack, Control, Begun
  <2>2. ~overlap => \E d \in Changes : IsSwitching(d)
    BY <1>2, <1>3, <2>1 DEF Paired
  <2>3. ~overlap => OneSwitch' /\ Effective' = Effective
    BY <1>3, <2>2, SameEffect DEF Pairing, IsSwitching
  <2> QED  BY <1>3, <2>1, <2>3, HandSound DEF Moved
<1>4. CASE SwitchPointer(w)
  <2>1. Leave(w, "armed", "switched") /\ UNCHANGED <<journal, previous>>
    BY <1>4 DEF SwitchPointer
  <2>2. worker[w].pc = "armed" /\ Moved(w, "switched")
    BY <1>1, <2>1, LeaveMoves DEF Locked, Labels
  <2>3. Paired(w) => Paired(w)'
    BY <2>1, <2>2 DEF Moved, Paired, InHand, PutBack, IsSwitching
  <2> QED  BY <1>2, <1>3, <2>1, <2>2, <2>3 DEF InHand
<1>5. CASE RestorePointer(w)
  <2>1. Leave(w, "refused", "restored") /\ UNCHANGED <<journal, previous>> /\ current' = previous
    BY <1>5 DEF RestorePointer
  <2>2. worker[w].pc = "refused" /\ Moved(w, "restored")
    BY <1>1, <2>1, LeaveMoves DEF Locked, Labels
  <2>3. Paired(w) => Paired(w)'
    BY <2>1, <2>2 DEF Moved, Paired, InHand, PutBack, IsSwitching
  <2> QED  BY <1>2, <1>3, <2>1, <2>2, <2>3 DEF InHand, PutBack
<1>6. ASSUME NEW from \in {"switched", "restored"}, NEW to \in {"restarted", "restoredUp"},
             from = "switched" <=> to = "restarted", Restart(w, from, to)
      PROVE  Sound
  <2>1. worker[w].pc = from /\ UNCHANGED <<journal, current, previous>>
        /\ \E ok \in BOOLEAN : worker' = [worker EXCEPT ![w].pc = to, ![w].good = ok]
    BY <1>6 DEF Restart, durable
  <2>2. Moved(w, to)
    BY <1>1, <2>1, GoodMoves DEF Moved, Labels
  <2>3. Paired(w) => Paired(w)'
    BY <1>6, <2>1, <2>2 DEF Moved, Paired, InHand, PutBack, IsSwitching
  <2> QED  BY <1>2, <1>3, <2>1, <2>2, <2>3 DEF InHand, PutBack
<1>7. CASE Judge(w)
  <2>1. worker[w].pc = "restarted" /\ UNCHANGED <<journal, current, previous>>
        /\ \E healthy \in BOOLEAN : worker' = [worker EXCEPT ![w].pc = "judged", ![w].good = healthy]
    BY <1>7 DEF Judge, durable
  <2>2. Moved(w, "judged")
    BY <1>1, <2>1, GoodMoves DEF Moved, Labels
  <2>3. Paired(w) => Paired(w)'
    BY <2>1, <2>2 DEF Moved, Paired, InHand, PutBack, IsSwitching
  <2> QED  BY <1>2, <1>3, <2>1, <2>2, <2>3 DEF InHand, PutBack
<1>8. CASE Settle(w)
  <2>1. /\ worker[w].pc = "judged" /\ UNCHANGED <<journal, current, previous>>
        /\ \/ \E to \in {"accepted", "refused"} : Enter(w, "judged", to)
           \/ Whole(w, "judged", "over")
    BY <1>8 DEF Settle
  <2>2. ASSUME NEW to \in {"accepted", "refused"}, Enter(w, "judged", to)
        PROVE  Sound
    <3>1. Moved(w, to)
      BY <1>1, <2>2, EnterMoves DEF Locked, Labels
    <3>2. Paired(w) /\ Only(w) => Paired(w)'
      BY <2>1, <3>1 DEF Moved, Paired, Only, InHand, PutBack, IsSwitching
    <3> QED  BY <1>2, <1>3, <2>1, <3>1, <3>2 DEF InHand
  <2>3. ASSUME Whole(w, "judged", "over")
        PROVE  Sound
    <3>1. Moved(w, "over")
      BY <1>1, <2>3, WholeMoves DEF Locked, Labels
    <3> QED  BY <2>1, <3>1, StillSound DEF Alive, Ended, Bare, Labels, InHand, PutBack
  <2> QED  BY <2>1, <2>2, <2>3
<1>9. CASE SettleRollback(w)
  <2>1. /\ worker[w].pc = "restoredUp" /\ UNCHANGED <<journal, current, previous>>
        /\ Enter(w, "restoredUp", "closing") \/ Whole(w, "restoredUp", "over")
    BY <1>9 DEF SettleRollback
  <2>2. CASE Enter(w, "restoredUp", "closing")
    <3>1. Moved(w, "closing")
      BY <1>1, <2>2, EnterMoves DEF Locked, Labels
    <3>2. Paired(w) => Paired(w)'
      BY <2>1, <3>1 DEF Moved, Paired, InHand, PutBack, IsSwitching
    <3> QED  BY <1>2, <1>3, <2>1, <3>1, <3>2 DEF PutBack
  <2>3. CASE Whole(w, "restoredUp", "over")
    <3>1. Moved(w, "over")
      BY <1>1, <2>3, WholeMoves DEF Locked, Labels
    <3> QED  BY <2>1, <3>1, StillSound DEF Alive, Ended, Bare, Labels, InHand, PutBack
  <2> QED  BY <2>1, <2>2, <2>3
<1> QED
  BY <1>4, <1>5, <1>6, <1>7, <1>8, <1>9 DEF RestartNew, RestartOld

(* The journal goes: after a rollback the pointer is what it held, after a *)
(* switch it is a slot that is healthy and has been run.                   *)
LEMMA FinishSound ==
  ASSUME Inv, Pairing, NEW w \in Workers, UNCHANGED overlap, FinishSwitch(w) \/ FinishRollback(w)
  PROVE  Sound
<1>1. PICK from \in {"accepted", "closing"} : worker[w].pc = from /\ Leave(w, from, "over")
  BY DEF FinishSwitch, FinishRollback, Leave
<1>2. PICK c \in Changes : c = worker[w].change
  BY <1>1 DEF Inv, Control, Begun
<1>3. /\ Moved(w, "over") /\ Alive(w) /\ journal \in [Changes -> Journal]
      /\ UNCHANGED current /\ journal' = [journal EXCEPT ![c] = NoJournal]
  BY <1>1, <1>2, LeaveMoves
     DEF Inv, Control, TypeOK, Locked, Labels, Alive, Ended, FinishSwitch, FinishRollback
<1>4. ASSUME ~overlap
      PROVE  /\ Paired(w)' /\ OneSwitch'
             /\ Effective' = Effective \/ \E d \in ran : Effective' = d /\ record[d] = "healthy"
  <2>1. Paired(w) /\ OneSwitch
    BY <1>4 DEF Pairing
  <2>2. Paired(w)'
    BY <1>3, BarePaired DEF Bare, Labels, InHand, PutBack
  <2>3. IsSwitching(c)
    BY <1>1, <1>2, <2>1 DEF Paired, InHand, PutBack
  <2>4. \A d \in Changes : ~IsSwitching(d)'
    BY <1>3, <2>1, <2>3, Journals DEF OneSwitch, IsSwitching
  <2>5. Effective' = current /\ Effective = journal[c].prev
    BY <1>3, <2>1, <2>3, <2>4, EffectiveIs, EffectiveThen
  <2>6. CASE from = "accepted"
    <3>1. current = c
      BY <1>1, <1>2, <2>1, <2>6 DEF Paired
    <3>2. AtWork(w) /\ HealthyRan
      BY DEF Inv, Disk, AllAtWork, Alone
    <3>3. record[c] = "healthy"
      BY <1>1, <1>2, <2>6, <3>2 DEF AtWork
    <3>4. c \in ran
      BY <1>4, <3>2, <3>3 DEF HealthyRan
    <3> QED  BY <2>2, <2>4, <2>5, <3>1, <3>3, <3>4 DEF OneSwitch
  <2>7. CASE from = "closing"
    <3>1. journal[c].prev = current
      BY <1>1, <1>2, <2>1, <2>7 DEF Paired, PutBack
    <3> QED  BY <2>2, <2>4, <2>5, <3>1 DEF OneSwitch
  <2> QED  BY <2>6, <2>7
<1> QED  BY <1>3, <1>4, HandSound DEF Moved

LEMMA NextSound ==
  ASSUME Inv, Pairing, Next
  PROVE  Sound
<1>1. ASSUME NEW w \in Workers, Step(w), UNCHANGED overlap
      PROVE  Sound
  BY <1>1, CommandSound, StagingSound, ReconcileSound, PrepareSound, SwitchSound, FinishSound
     DEF Step
<1>2. ASSUME NEW w \in Workers, Die(w), UNCHANGED overlap
      PROVE  Sound
  BY <1>2, CommandSound
<1>3. ASSUME NEW w \in Workers, NEW c \in Changes, Open(w, c)
      PROVE  Sound
  BY <1>3, OpenSound
<1> QED  BY <1>1, <1>2, <1>3 DEF Next

LEMMA StutterSound ==
  ASSUME Pairing, UNCHANGED vars
  PROVE  Sound
<1>1. UNCHANGED <<journal, current, previous, worker, overlap>>
  BY DEF vars, durable
<1>2. Effective' = Effective
  BY <1>1 DEF Effective, IsSwitching
<1>3. Pairing'
  BY <1>1 DEF Pairing, OneSwitch, Paired, IsSwitching
<1> QED  BY <1>2, <1>3 DEF Sound, Atomic

(* While commands run one at a time, activate_confirmed is atomic: through *)
(* a death at any write, the rollback and the recovery by the next Store,  *)
(* the slot the service would be left with changes only to one that is     *)
(* recorded healthy and that the service has run from.                     *)
THEOREM SwitchesAreAtomic == Spec => SwitchIsAtomic
<1>1. Init => Pairing
  <2> SUFFICES ASSUME Init  PROVE Pairing
    OBVIOUS
  <2>1. \A c \in Changes : ~IsSwitching(c)
    BY Journals DEF Init, IsSwitching
  <2>2. \A w \in Workers : worker[w].pc = "idle"
    BY DEF Init
  <2> QED  BY <2>1, <2>2 DEF Pairing, OneSwitch, Paired, InHand, PutBack
<1>2. Inv /\ Pairing /\ [Next]_vars => Pairing' /\ [Atomic]_vars
  BY NextSound, StutterSound DEF Sound
<1> QED  BY InvAlways, <1>1, <1>2, PTL DEF Spec, SwitchIsAtomic, Atomic
=============================================================================
