---------------------------- MODULE Distillation ----------------------------
(***************************************************************************)
(* Memory distillation (honeyos/companion/distillation.py) and the memory  *)
(* store it fills (StructuredMemoryStore of honeyos/companion/             *)
(* continuity.py), for one private lane.                                   *)
(*                                                                         *)
(* A review takes a window of messages past the session's cursor, asks a   *)
(* model about it, writes a chapter and memory items, and moves the cursor *)
(* on.  Reviews are tasks of the gateway's event loop; the model call is   *)
(* the only point where one lets the loop go, yet every write is a         *)
(* transaction of its own and the process may die between two of them.     *)
(* The companion_memory tool and the page write items from other threads.  *)
(*                                                                         *)
(* Left out: wording, kinds, importance and expiry dates (an item may      *)
(* lapse whenever it has expired), and the one-shot repairs of chapters    *)
(* written by older releases.                                              *)
(***************************************************************************)
EXTENDS Naturals, Sequences, FiniteSetsExt

CONSTANTS
  Reviewers,        \* review tasks there can be at a time
  Facts,            \* what an item can say
  NULL,             \* no window
  TriggerMessages, MinTailMessages, MaxBatchMessages,
  MaxAttempts, MaxDailyRuns, MaxOperations, MaxKept,
  Cooldown, Day,    \* lengths of time
  MaxRows, MaxSessions, MaxTime, MaxFaults     \* bounds

ASSUME DistillationAssumption ==
  /\ TriggerMessages \in Nat \ {0} /\ MinTailMessages \in Nat \ {0}
  /\ MaxBatchMessages \in Nat \ {0} /\ MaxAttempts \in Nat \ {0}
  /\ MaxDailyRuns \in Nat \ {0} /\ MaxOperations \in Nat /\ MaxKept \in Nat
  /\ Cooldown \in Nat /\ Day \in Nat \ {0}
  /\ MaxRows \in Nat /\ MaxSessions \in Nat \ {0} /\ MaxTime \in Nat /\ MaxFaults \in Nat

VARIABLES
  now,
  rows,       \* the lane's messages: the session each belongs to
  session,    \* the session the lane is in
  cursor,     \* distillation_state: session -> last_source_row_id
  run,        \* distillation_runs: window -> its row (source_hash is unique)
  chapter,    \* conversation_chapters: windows that have one
  item,       \* structured_memories: fact -> its item
  replayed,   \* distillation_repairs: the one-shot replay has been decided
  review,     \* review tasks
  faults,     \* crashes and failed settling writes so far
  calls,      \* history: model calls of this day
  forgiven,   \* history: have attempts of this day been set back to 0
  lost        \* history: windows whose task was lost without settling its run

tables  == <<cursor, run, chapter, item, replayed>>
talk    == <<now, rows, session>>
history == <<faults, calls, forgiven, lost>>
vars    == <<talk, tables, review, history>>

Rows     == 1..MaxRows
Sessions == 1..MaxSessions
Windows  == {w \in [first: Rows, last: Rows] : w.first <= w.last}
RowsOf(w) == {i \in w.first..w.last : i \in DOMAIN rows /\ rows[i] = rows[w.first]}

Run    == [status: {"none", "pending", "running", "completed", "failed"},
           attempts: 0..MaxAttempts, created: 0..MaxTime]
Item   == [state: {"none", "active", "closed"}, by: {"foreground", "background"},
           from: Windows \cup {NULL}]
Stages == {"idle", "scheduled", "prepared", "asking", "applying", "pruned"}
Review == [stage: Stages, session: Sessions, reason: {"periodic", "new"}, upto: 0..MaxRows,
           window: Windows \cup {NULL}, left: 0..MaxOperations,
           applied: BOOLEAN, rejected: BOOLEAN]

TypeOK ==
  /\ now \in 0..MaxTime
  /\ rows \in Seq(Sessions) /\ Len(rows) <= MaxRows
  /\ session \in Sessions
  /\ cursor \in [Sessions -> 0..MaxRows]
  /\ run \in [Windows -> Run]
  /\ chapter \subseteq Windows
  /\ item \in [Facts -> Item]
  /\ replayed \in BOOLEAN
  /\ review \in [Reviewers -> Review]
  /\ faults \in 0..MaxFaults
  /\ calls \in Nat /\ forgiven \in BOOLEAN
  /\ lost \subseteq Windows

NoItem == [state |-> "none", by |-> "background", from |-> NULL]
NoRun  == [status |-> "none", attempts |-> 0, created |-> 0]
Resting == [stage |-> "idle", session |-> 1, reason |-> "periodic", upto |-> 0,
            window |-> NULL, left |-> 0, applied |-> FALSE, rejected |-> FALSE]

Init ==
  /\ now = 0 /\ rows = <<>> /\ session = 1
  /\ cursor = [s \in Sessions |-> 0]
  /\ run = [w \in Windows |-> NoRun]
  /\ chapter = {}
  /\ item = [f \in Facts |-> NoItem]
  /\ replayed = FALSE
  /\ review = [r \in Reviewers |-> Resting]
  /\ faults = 0 /\ calls = 0 /\ forgiven = FALSE
  /\ lost = {}

----------------------------------------------------------------------------
(* The event loop: a review that is not waiting for the model holds it.    *)
Holding == {"prepared", "applying", "pruned"}
LoopIsFree == \A r \in Reviewers : review[r].stage \notin Holding

Busy(r) == review[r].stage \notin {"idle", "scheduled"}
Window(r) == review[r].window

(* A new message of the lane's session is persisted.                       *)
Say ==
  /\ Len(rows) < MaxRows
  /\ rows' = Append(rows, session)
  /\ UNCHANGED <<now, session, tables, review, history>>

Today(t) == t \div Day = now \div Day

Tick ==
  /\ now < MaxTime
  /\ now' = now + 1
  /\ IF (now + 1) \div Day = now \div Day THEN UNCHANGED <<calls, forgiven>>
     ELSE calls' = 0 /\ forgiven' = FALSE
  /\ UNCHANGED <<rows, session, tables, review, faults, lost>>

(* _schedule_honeyos_memory_distillation: after a turn, with the           *)
(* transcript read back in a thread; "upto" is where the reading ended.    *)
Scheduled(reason) ==
  [Resting EXCEPT !.stage = "scheduled", !.session = session, !.reason = reason, !.upto = Len(rows)]

ReviewAfterTurn(r) ==
  /\ review[r].stage = "idle" /\ LoopIsFree
  /\ review' = [review EXCEPT ![r] = Scheduled("periodic")]
  /\ UNCHANGED <<talk, tables, history>>

(* /new: the session that ends is reviewed with the messages it has.       *)
NewSession(r) ==
  /\ review[r].stage = "idle" /\ LoopIsFree
  /\ session < MaxSessions
  /\ session' = session + 1
  /\ review' = [review EXCEPT ![r] = Scheduled("new")]
  /\ UNCHANGED <<now, rows, tables, history>>

----------------------------------------------------------------------------
(* _prepare, one transaction.                                              *)

DailyRuns == MapThenSumSet(LAMBDA w : run[w].attempts,
                           {w \in Windows : run[w].status # "none" /\ Today(run[w].created)})

Pending(q) == {i \in 1..q.upto : rows[i] = q.session /\ i > cursor[q.session]}

Minimum(q)   == IF q.reason = "periodic" THEN TriggerMessages ELSE MinTailMessages
BatchSize(q) == IF q.reason = "periodic" THEN TriggerMessages ELSE MaxBatchMessages

(* The first messages of those pending.                                    *)
IsBatch(q, w) ==
  /\ w.first \in Pending(q) /\ w.last \in Pending(q)
  /\ \A i \in Pending(q) : w.first <= i
  /\ Cardinality({i \in Pending(q) : i <= w.last}) =
       IF Cardinality(Pending(q)) < BatchSize(q) THEN Cardinality(Pending(q)) ELSE BatchSize(q)

Exhausted(w) == run[w].attempts >= MaxAttempts
Cooling(w)   == now < run[w].created + Cooldown

Due(q, w) ==
  /\ DailyRuns < MaxDailyRuns
  /\ Cardinality(Pending(q)) >= Minimum(q)
  /\ IsBatch(q, w)

\* Mutant: a window that is being reviewed is taken again.
OpenWindowTwice(w) ==
  /\ run[w].status # "completed"
  /\ run[w].status = "failed" => ~Exhausted(w) \/ ~Cooling(w)

OpenWindow(w) ==
  /\ run[w].status \in {"none", "failed"}
  /\ run[w].status = "failed" => ~Exhausted(w) \/ ~Cooling(w)

(* A new window gets a row; an exhausted one that has cooled down gets its *)
(* attempts back.                                                          *)
Prepare(r) ==
  /\ review[r].stage = "scheduled" /\ LoopIsFree
  /\ \E w \in Windows :
       /\ Due(review[r], w) /\ OpenWindow(w)
       /\ run' = [run EXCEPT ![w] =
            IF @.status = "none" THEN [status |-> "pending", attempts |-> 0, created |-> now]
            ELSE [@ EXCEPT !.attempts = IF Exhausted(w) THEN 0 ELSE run[w].attempts]]
       /\ forgiven' = (forgiven \/ (run[w].status = "failed" /\ Exhausted(w) /\ Today(run[w].created)))
       /\ review' = [review EXCEPT ![r].stage = "prepared", ![r].window = w]
  /\ UNCHANGED <<talk, cursor, chapter, item, replayed, faults, calls, lost>>

(* Not due: the task ends.                                                 *)
Decline(r) ==
  /\ review[r].stage = "scheduled" /\ LoopIsFree
  /\ ~\E w \in Windows : Due(review[r], w) /\ OpenWindow(w)
  /\ review' = [review EXCEPT ![r] = Resting]
  /\ UNCHANGED <<talk, tables, history>>

----------------------------------------------------------------------------
(* distill_if_due.                                                         *)

\* Mutant: an attempt is not counted when it starts.
AskUncounted(r) ==
  /\ review[r].stage = "prepared"
  /\ run' = [run EXCEPT ![Window(r)].status = "running", ![Window(r)].created = now]
  /\ review' = [review EXCEPT ![r].stage = "asking"]
  /\ calls' = calls + 1
  /\ UNCHANGED <<talk, cursor, chapter, item, replayed, faults, forgiven, lost>>

(* The row is marked running and the model is asked.                       *)
Ask(r) ==
  /\ review[r].stage = "prepared"
  /\ run' = [run EXCEPT ![Window(r)] =
       [status |-> "running", attempts |-> @.attempts + 1, created |-> now]]
  /\ review' = [review EXCEPT ![r].stage = "asking"]
  /\ calls' = calls + 1
  /\ UNCHANGED <<talk, cursor, chapter, item, replayed, faults, forgiven, lost>>

\* Mutant: a review that is cancelled or raises leaves its row as it is.
FailSilently(r) ==
  /\ review[r].stage \in {"asking", "applying", "pruned"}
  /\ review[r].stage = "asking" => LoopIsFree
  /\ review' = [review EXCEPT ![r] = Resting]
  /\ UNCHANGED <<talk, tables, history>>

(* The model call raises or is cancelled, the answer does not parse, the   *)
(* chapter is not stored, or a later write raises: the row is "failed".    *)
Fail(r) ==
  /\ review[r].stage \in {"asking", "applying", "pruned"}
  /\ review[r].stage = "asking" => LoopIsFree
  /\ run' = [run EXCEPT ![Window(r)].status = "failed"]
  /\ review' = [review EXCEPT ![r] = Resting]
  /\ UNCHANGED <<talk, cursor, chapter, item, replayed, history>>

(* ... and when that write raises too, or the one that marks the row       *)
(* running does, the row stays as it is.                                   *)
Lose(r) ==
  /\ Busy(r) /\ (review[r].stage = "asking" => LoopIsFree)
  /\ faults < MaxFaults
  /\ faults' = faults + 1
  /\ review' = [review EXCEPT ![r] = Resting]
  /\ lost' = lost \cup {Window(r)}
  /\ UNCHANGED <<talk, tables, calls, forgiven>>

\* Mutant: the operations are applied without the chapter.
RecordChapterLater(r) ==
  /\ review[r].stage = "asking" /\ LoopIsFree
  /\ \E n \in 0..MaxOperations :
       review' = [review EXCEPT ![r].stage = "applying", ![r].left = n]
  /\ UNCHANGED <<talk, tables, history>>

(* _record_chapter: an upsert by the window; a poor chapter is replaced by *)
(* a fallback.  The answer has at most MaxOperations operations.           *)
RecordChapter(r) ==
  /\ review[r].stage = "asking" /\ LoopIsFree
  /\ chapter' = chapter \cup {Window(r)}
  /\ \E n \in 0..MaxOperations :
       review' = [review EXCEPT ![r].stage = "applying", ![r].left = n]
  /\ UNCHANGED <<talk, cursor, run, item, replayed, history>>

----------------------------------------------------------------------------
(* _apply_operations: each operation is a transaction of its own.          *)

Operation(r, outcome) ==
  /\ review[r].stage = "applying" /\ review[r].left > 0
  /\ review' = [review EXCEPT ![r].left = @ - 1,
                              ![r].applied  = @ \/ outcome = "applied",
                              ![r].rejected = @ \/ outcome = "rejected"]

(* StructuredMemoryStore.record: an active item that says the same is      *)
(* merged, and stays the foreground's if it was.                           *)
Recorded(f, by, from) ==
  IF item[f].state = "active" /\ item[f].by = "foreground" THEN item
  ELSE [item EXCEPT ![f] = [state |-> "active", by |-> by, from |-> from]]

Record(r, f) ==
  /\ Operation(r, "applied")
  /\ item' = Recorded(f, "background", Window(r))
  /\ UNCHANGED <<talk, cursor, run, chapter, replayed, history>>

(* change_status and update_content, on an item that is still active.      *)
Resolve(r, f) ==
  /\ Operation(r, "applied")
  /\ item[f].state = "active"
  /\ item' = [item EXCEPT ![f].state = "closed"]
  /\ UNCHANGED <<talk, cursor, run, chapter, replayed, history>>

Update(r, f) ==
  /\ Operation(r, "applied")
  /\ item[f].state = "active"
  /\ item' = [item EXCEPT ![f].from = IF item[f].by = "background" THEN Window(r) ELSE @]
  /\ UNCHANGED <<talk, cursor, run, chapter, replayed, history>>

(* Unknown action or item, foreign evidence, inference.                    *)
Reject(r) ==
  /\ Operation(r, "rejected")
  /\ UNCHANGED <<talk, tables, history>>

ByReviews == {f \in Facts : item[f].state = "active" /\ item[f].by = "background"}

\* Mutant: every active item counts and may go.
PruneAny(r) ==
  /\ review[r].stage = "applying" /\ review[r].left = 0
  /\ LET all == {f \in Facts : item[f].state = "active"}
     IN  \E gone \in SUBSET all :
           /\ Cardinality(all \ gone) = IF Cardinality(all) < MaxKept THEN Cardinality(all) ELSE MaxKept
           /\ item' = [f \in Facts |-> IF f \in gone THEN NoItem ELSE item[f]]
  /\ review' = [review EXCEPT ![r].stage = "pruned"]
  /\ UNCHANGED <<talk, cursor, run, chapter, replayed, history>>

(* prune_background: of the items reviews recorded, MaxKept stay.          *)
Prune(r) ==
  /\ review[r].stage = "applying" /\ review[r].left = 0
  /\ \E gone \in SUBSET ByReviews :
       /\ Cardinality(ByReviews \ gone) =
            IF Cardinality(ByReviews) < MaxKept THEN Cardinality(ByReviews) ELSE MaxKept
       /\ item' = [f \in Facts |-> IF f \in gone THEN NoItem ELSE item[f]]
  /\ review' = [review EXCEPT ![r].stage = "pruned"]
  /\ UNCHANGED <<talk, cursor, run, chapter, replayed, history>>

AllRejected(r) == review[r].rejected /\ ~review[r].applied

\* Mutant: a review that stored nothing moves the cursor before it fails.
ConcludeRejectedFirst(r) ==
  /\ review[r].stage = "pruned"
  /\ LET w == Window(r)
     IN  /\ run' = [run EXCEPT ![w].status = IF AllRejected(r) THEN "failed" ELSE "completed"]
         /\ cursor' = [cursor EXCEPT ![review[r].session] = IF @ < w.last THEN w.last ELSE @]
  /\ review' = [review EXCEPT ![r] = Resting]
  /\ UNCHANGED <<talk, chapter, item, replayed, history>>

(* The checkpoint: cursor and row in one transaction.                      *)
Conclude(r) ==
  /\ review[r].stage = "pruned"
  /\ LET w == Window(r)
     IN  IF AllRejected(r)
         THEN run' = [run EXCEPT ![w].status = "failed"] /\ UNCHANGED cursor
         ELSE /\ run' = [run EXCEPT ![w].status = "completed"]
              /\ cursor' = [cursor EXCEPT ![review[r].session] = IF @ < w.last THEN w.last ELSE @]
  /\ review' = [review EXCEPT ![r] = Resting]
  /\ UNCHANGED <<talk, chapter, item, replayed, history>>

----------------------------------------------------------------------------
(* Other threads: the companion_memory tool, the page, and expiry.         *)

Remember(f) ==
  /\ item' = Recorded(f, "foreground", NULL)
  /\ UNCHANGED <<talk, cursor, run, chapter, replayed, review, history>>

CloseItem(f) ==
  /\ item[f].state = "active"
  /\ item' = [item EXCEPT ![f].state = "closed"]
  /\ UNCHANGED <<talk, cursor, run, chapter, replayed, review, history>>

Lapse(f) ==
  /\ item[f].state = "active"
  /\ item' = [item EXCEPT ![f] = NoItem]
  /\ UNCHANGED <<talk, cursor, run, chapter, replayed, review, history>>

----------------------------------------------------------------------------
(* The gateway dies and starts again.  repair_legacy_completed_rejections  *)
(* decides once: with windows completed and no item ever kept, all of them *)
(* are reviewed anew.                                                      *)
Completed == {w \in Windows : run[w].status = "completed"}
NeverKept == \A f \in Facts : item[f].state = "none"

Restart ==
  /\ faults < MaxFaults
  /\ faults' = faults + 1
  /\ review' = [r \in Reviewers |-> Resting]
  /\ lost' = lost \cup {Window(r) : r \in {q \in Reviewers : Busy(q)}}
  /\ replayed' \in BOOLEAN /\ (replayed \/ (\E w \in Windows : run[w].status # "none") => replayed')
  /\ IF ~replayed /\ replayed' /\ NeverKept /\ Completed # {}
     THEN /\ run' = [w \in Windows |-> IF w \in Completed
                       THEN [run[w] EXCEPT !.status = "failed", !.attempts = 0] ELSE run[w]]
          /\ cursor' = [s \in Sessions |-> 0]
          /\ forgiven' = (forgiven \/ \E w \in Completed : Today(run[w].created))
     ELSE UNCHANGED <<run, cursor, forgiven>>
  /\ UNCHANGED <<talk, chapter, item, calls>>

----------------------------------------------------------------------------
Work(r) ==
  \/ Prepare(r) \/ Decline(r) \/ Ask(r) \/ Fail(r) \/ RecordChapter(r)
  \/ \E f \in Facts : Record(r, f) \/ Resolve(r, f) \/ Update(r, f)
  \/ Reject(r) \/ Prune(r) \/ Conclude(r)

Next ==
  \/ Say \/ Tick \/ Restart
  \/ \E r \in Reviewers : ReviewAfterTurn(r) \/ NewSession(r) \/ Work(r) \/ Lose(r)
  \/ \E f \in Facts : Remember(f) \/ CloseItem(f) \/ Lapse(f)

Spec == Init /\ [][Next]_vars

----------------------------------------------------------------------------
(* Safety.                                                                 *)

(* What the cursor has passed was reviewed: every message up to it lies in *)
(* a window whose review was completed, whatever windows overlapped,       *)
(* failed, were retried or were lost.                                      *)
CursorCovered ==
  \A s \in Sessions : \A i \in DOMAIN rows :
    rows[i] = s /\ i <= cursor[s] => \E w \in Completed : i \in RowsOf(w)

(* No window is with two reviews at once.                                  *)
OneReviewPerWindow ==
  \A r, q \in Reviewers : Busy(r) /\ Busy(q) /\ Window(r) = Window(q) => r = q

(* A row that says a review is under way has one, or lost it to a crash or *)
(* to a write that failed.                                                 *)
OpenRunHasReview ==
  \A w \in Windows : run[w].status \in {"pending", "running"} =>
    w \in lost \/ \E r \in Reviewers : Busy(r) /\ Window(r) = w

(* What a review left behind has a chapter that shows where it came from,  *)
(* even when the review went no further.                                   *)
MemoriesHaveChapter ==
  /\ \A f \in ByReviews : item[f].from \in chapter
  /\ Completed \subseteq chapter

(* Reviews never take away what the foreground recorded, and never claim   *)
(* it: they may only close it.                                             *)
ForegroundKept ==
  [][\A f \in Facts, r \in Reviewers :
       /\ item[f].state = "active" /\ item[f].by = "foreground"
       /\ review'[r] # review[r]
       => item'[f].by = "foreground" /\ item'[f].state # "none"]_vars

(* A day has at most MaxDailyRuns model calls, unless a failed window got  *)
(* its attempts back that day.                                             *)
CallsBounded == calls <= MaxDailyRuns \/ forgiven

============================================================================
