---------------------------- MODULE KanbanProofs ----------------------------
(***************************************************************************)
(* What Kanban keeps for every set of tasks and every limit.               *)
(*                                                                         *)
(* The pointer from a task to its run is followed both ways (Pointers and  *)
(* OpenRunIsCurrent): a transaction that clears the pointer closes the run *)
(* it led to.  The retry budget needs the failures a sweep has seen and    *)
(* not yet counted (Pends): a count is lost only with the gateway.  That   *)
(* the board implements RunHistory rests on both; that a task that runs    *)
(* has an open run (WorkingOpen) then follows from RunHistory's steps      *)
(* alone.                                                                  *)
(***************************************************************************)
EXTENDS Kanban, SequenceTheorems, TLAPS

Pointers ==
  \A t \in Tasks : task[t].run # 0 =>
    task[t].run \in DOMAIN runs /\ runs[task[t].run].task = t

(* What a tick has under way: a run it has claimed, rows it has read whose *)
(* worker has since changed only by being forgotten.                       *)
Ticking ==
  /\ tick.step \in {"claimed", "started"} => tick.at = "spawn" /\ tick.run \in DOMAIN runs
  /\ tick.at = "stale" => \A t \in DOMAIN tick.rows : task[t].pid \in {0, tick.rows[t].pid}

(* A failure seen by a sweep whose count is still to be written.           *)
Pends(t) ==
  \/ tick.at = "crash" /\ t \in DOMAIN tick.rows /\ tick.rows[t] \in {"failed", "systemic"}
  \/ tick.at = "timeout" /\ tick.on = t /\ tick.step = "released"

Limit == IF FailureLimit < DispatchLimit THEN DispatchLimit ELSE FailureLimit

Stopped == {"blocked", "done", "archived"}

(* The failures since someone saw to the task, as far as they are counted: *)
(* past the limit the task stops at the next count.                        *)
Counts(t) ==
  IF task[t].failures < Limit THEN task[t].failures
  ELSE IF task[t].status \in Stopped THEN Limit ELSE 0

Budget ==
  \A t \in Tasks : spent[t] # 0 =>
    /\ spent[t] <= Counts(t) + (IF Pends(t) THEN 1 ELSE 0) + faults
    /\ Pends(t) => task[t].status = "ready" /\ task[t].run = 0

Inv == TypeOK /\ Pointers /\ OpenRunIsCurrent /\ RunningIsHeld /\ Ticking /\ Budget

----------------------------------------------------------------------------
(* The action properties, as they are stated of a step.                    *)

SparesLive ==
  \A r \in alive' :
    /\ tick.at = "stale" \/ tick'.at = "crash"
    /\ tick' # tick
    /\ runs[r].end = "open" /\ runs'[r].end # "open"
    => task[runs[r].task].pid # r

ByItsWorker ==
  \A r \in DOMAIN runs :
    /\ runs[r].end = "open" /\ runs'[r].end = "reported"
    /\ moves' = moves
    => r \in alive

AfterParents ==
  \A t \in Tasks :
    task[t].status # "running" /\ task'[t].status = "running" => ParentsFinished(t)

Kept == Inv' /\ SparesLive /\ ByItsWorker /\ AfterParents

----------------------------------------------------------------------------
(* The operators.                                                          *)

LEMMA LimitFacts == Limit \in Nat \ {0} /\ FailureLimit <= Limit /\ DispatchLimit <= Limit
BY KanbanAssumption DEF Limit

LEMMA FreedIs ==
  ASSUME TypeOK, NEW t \in Tasks, NEW status \in Statuses
  PROVE  \E x \in Task :
           /\ x = Freed(t, status)
           /\ x.status = status /\ x.lock = NULL /\ x.pid = 0 /\ x.run = 0
           /\ x.failures = task[t].failures /\ x.sticky = task[t].sticky
           /\ x.again = task[t].again
<1> DEFINE x == Freed(t, status)
<1>1. task[t] \in Task  BY DEF TypeOK
<1>2. x = [task[t] EXCEPT !.status = status, !.lock = NULL, !.pid = 0, !.run = 0]  BY DEF Freed
<1>3. x \in Task  BY <1>1, <1>2 DEF Task, Lock
<1>4. /\ x.status = status /\ x.lock = NULL /\ x.pid = 0 /\ x.run = 0
      /\ x.failures = task[t].failures /\ x.sticky = task[t].sticky /\ x.again = task[t].again
  BY <1>1, <1>2 DEF Task
<1> QED  BY <1>3, <1>4

LEMMA OneTask ==
  ASSUME TypeOK, NEW t \in Tasks, NEW x \in Task, task' = [task EXCEPT ![t] = x]
  PROVE  /\ task' \in [Tasks -> Task] /\ task'[t] = x
         /\ \A u \in Tasks \ {t} : task'[u] = task[u]
BY DEF TypeOK

(* _end_run closes the current run and nothing else.                       *)
LEMMA EndedIs ==
  ASSUME TypeOK, Pointers, NEW t \in Tasks, NEW how \in Ends, NEW rs, rs = Ended(t, how)
  PROVE  /\ rs \in Seq(Run) /\ Len(rs) = Len(runs) /\ DOMAIN rs = DOMAIN runs
         /\ \A r \in DOMAIN runs :
              /\ rs[r].task = runs[r].task
              /\ rs[r].end = IF r = task[t].run /\ runs[r].end = "open" THEN how ELSE runs[r].end
<1>1. runs \in Seq(Run)  BY DEF TypeOK
<1>2. CASE task[t].run = 0 \/ runs[task[t].run].end # "open"
  <2>1. rs = runs  BY <1>2 DEF Ended
  <2>2. \A r \in DOMAIN runs : r # 0  BY <1>1
  <2> QED  BY <1>1, <1>2, <2>1, <2>2
<1>3. CASE task[t].run # 0 /\ runs[task[t].run].end = "open"
  <2> DEFINE k == task[t].run
             x == [runs[k] EXCEPT !.end = how]
  <2>1. k \in DOMAIN runs  BY <1>3 DEF Pointers
  <2>2. runs[k] \in Run  BY <1>1, <2>1
  <2>3. x \in Run /\ x.task = runs[k].task /\ x.end = how  BY <2>2 DEF Run
  <2>4. rs = [runs EXCEPT ![k] = x]  BY <1>3 DEF Ended
  <2>5. DOMAIN runs = 1..Len(runs)  BY <1>1
  <2> HIDE DEF x, k
  <2>6. /\ rs \in Seq(Run) /\ Len(rs) = Len(runs)
        /\ \A r \in 1..Len(runs) : rs[r] = IF r = k THEN x ELSE runs[r]
    BY <1>1, <2>1, <2>3, <2>4, <2>5, ExceptSeq
  <2>7. DOMAIN rs = DOMAIN runs  BY <2>5, <2>6
  <2>8. runs[k].end = "open" /\ k = task[t].run  BY <1>3 DEF k
  <2> QED  BY <2>3, <2>5, <2>6, <2>7, <2>8
<1> QED  BY <1>2, <1>3

LEMMA AppendIs ==
  ASSUME NEW s \in Seq(Run), NEW x \in Run, NEW rs, rs = Append(s, x)
  PROVE  /\ rs \in Seq(Run) /\ Len(rs) = Len(s) + 1
         /\ DOMAIN rs = DOMAIN s \cup {Len(s) + 1} /\ Len(s) + 1 \notin DOMAIN s
         /\ \A r \in DOMAIN s : rs[r] = s[r]
         /\ rs[Len(s) + 1] = x
BY AppendProperties

----------------------------------------------------------------------------
(* What a step keeps by leaving parts of the board alone.                  *)

LEMMA RunsOfTasks ==
  ASSUME Inv
  PROVE  \A r \in DOMAIN runs : runs[r] \in Run /\ runs[r].task \in Tasks /\ r # 0
<1>1. runs \in Seq(Run)  BY DEF Inv, TypeOK
<1>2. \A r \in DOMAIN runs : runs[r] \in Run /\ r # 0  BY <1>1
<1> QED  BY <1>2 DEF Run

LEMMA RunsSame ==
  ASSUME Inv, runs' = runs, \A t \in Tasks : task'[t].run = task[t].run
  PROVE  Pointers' /\ OpenRunIsCurrent' /\ SparesLive /\ ByItsWorker
<1>1. \A r \in DOMAIN runs : runs[r].task \in Tasks  BY RunsOfTasks
<1>2. Pointers'  BY DEF Inv, Pointers
<1>3. OpenRunIsCurrent'  BY <1>1 DEF Inv, OpenRunIsCurrent
<1> QED  BY <1>2, <1>3 DEF SparesLive, ByItsWorker

(* A transaction that releases a task and closes its run.                  *)
LEMMA RunsEnded ==
  ASSUME Inv, NEW t \in Tasks, NEW how \in Ends \ {"open"},
         runs' = Ended(t, how) \/ runs' \in EndedOrNoted(t, how),
         task'[t].run = 0, \A u \in Tasks \ {t} : task'[u].run = task[u].run
  PROVE  /\ runs' \in Seq(Run) /\ Len(runs') <= MaxRuns /\ DOMAIN runs \subseteq DOMAIN runs'
         /\ Pointers' /\ OpenRunIsCurrent'
         /\ \A r \in DOMAIN runs : runs[r].end = "open" /\ runs'[r].end # "open" =>
              r = task[t].run /\ runs[r].task = t /\ runs'[r].end = how
<1>1. TypeOK /\ Pointers /\ OpenRunIsCurrent  BY DEF Inv
<1>2. runs \in Seq(Run) /\ Len(runs) <= MaxRuns /\ \A r \in DOMAIN runs : runs[r].task \in Tasks
  BY <1>1, RunsOfTasks DEF TypeOK
<1>3. CASE runs' = Ended(t, how)
  <2>1. /\ runs' \in Seq(Run) /\ Len(runs') = Len(runs) /\ DOMAIN runs' = DOMAIN runs
        /\ \A r \in DOMAIN runs :
             /\ runs'[r].task = runs[r].task
             /\ runs'[r].end = IF r = task[t].run /\ runs[r].end = "open" THEN how ELSE runs[r].end
    BY <1>1, <1>3, EndedIs
  <2>2. Pointers'  BY <1>1, <2>1 DEF Pointers
  <2>3. OpenRunIsCurrent'
    <3> SUFFICES ASSUME NEW r \in DOMAIN runs, runs'[r].end = "open"
                 PROVE  task'[runs'[r].task].run = r
      BY <2>1 DEF OpenRunIsCurrent
    <3>1. runs[r].end = "open" /\ r # task[t].run  BY <2>1
    <3>2. task[runs[r].task].run = r  BY <1>1, <3>1 DEF OpenRunIsCurrent
    <3>3. runs[r].task \in Tasks \ {t}  BY <1>2, <3>1, <3>2
    <3> QED  BY <2>1, <3>2, <3>3
  <2>4. \A r \in DOMAIN runs : runs[r].end = "open" /\ runs'[r].end # "open" =>
              r = task[t].run /\ runs[r].task = t /\ runs'[r].end = how
    BY <1>1, <2>1 DEF Pointers, OpenRunIsCurrent, TypeOK
  <2> QED  BY <1>2, <2>1, <2>2, <2>3, <2>4
<1>4. CASE runs' = runs /\ task[t].run = 0
  <2>1. \A u \in Tasks : task'[u].run = task[u].run  BY <1>4
  <2>2. Pointers' /\ OpenRunIsCurrent'  BY <1>4, <2>1, RunsSame
  <2> QED  BY <1>2, <1>4, <2>2
<1>5. CASE task[t].run = 0 /\ Len(runs) < MaxRuns
           /\ runs' = Append(runs, [task |-> t, lock |-> NULL, end |-> how])
  <2> DEFINE x == [task |-> t, lock |-> NULL, end |-> how]
  <2>1. x \in Run /\ x.end = how  BY DEF Run, Lock
  <2>2. runs' = Append(runs, x)  BY <1>5
  <2> HIDE DEF x
  <2>3. /\ runs' \in Seq(Run) /\ Len(runs') = Len(runs) + 1
        /\ DOMAIN runs' = DOMAIN runs \cup {Len(runs) + 1}
        /\ \A r \in DOMAIN runs : runs'[r] = runs[r]
        /\ runs'[Len(runs) + 1] = x
    BY <1>2, <2>1, <2>2, AppendIs
  <2>4. Len(runs') <= MaxRuns  BY <1>2, <1>5, <2>3, KanbanAssumption
  <2>5. \A u \in Tasks : task'[u].run = task[u].run  BY <1>5
  <2>6. Pointers'  BY <1>1, <2>3, <2>5 DEF Pointers
  <2>7. OpenRunIsCurrent'  BY <1>1, <1>2, <2>1, <2>3, <2>5 DEF OpenRunIsCurrent
  <2> QED  BY <2>3, <2>4, <2>6, <2>7
<1> QED  BY <1>3, <1>4, <1>5 DEF EndedOrNoted

LEMMA HeldSame ==
  ASSUME Inv,
         \A t \in Tasks : task'[t].status = "running" =>
            /\ task[t].status = "running"
            /\ task'[t].lock = task[t].lock /\ task'[t].run = task[t].run
  PROVE  RunningIsHeld' /\ AfterParents
BY DEF Inv, RunningIsHeld, Running, AfterParents

(* The tick goes on unmoved.                                               *)
LEMMA TickSame ==
  ASSUME Inv, tick' = tick, DOMAIN runs \subseteq DOMAIN runs',
         \A t \in Tasks : task'[t].pid \in {0, task[t].pid}
  PROVE  tick' \in Tick' /\ Ticking'
<1>1. tick \in Tick /\ DOMAIN tick.rows \subseteq Tasks  BY DEF Inv, TypeOK
<1>2. tick' \in Tick'  BY <1>1 DEF Tick
<1>3. Ticking'  BY <1>1 DEF Inv, Ticking
<1> QED  BY <1>2, <1>3

LEMMA SweepIs ==
  ASSUME NEW at \in {"idle", "stale", "crash", "timeout", "spawn"}, NEW rows,
         DOMAIN rows \subseteq Tasks, tick' = Sweep(at, rows)
  PROVE  /\ tick' \in Tick' /\ tick'.on = NULL /\ tick'.step = "read" /\ tick'.run = 0
         /\ DOMAIN tick'.rows \subseteq DOMAIN rows
         /\ \/ tick'.at = at /\ tick'.rows = rows
            \/ tick'.at = "idle" /\ at = "spawn"
<1> DEFINE i == [at |-> "idle", rows |-> NoRows, on |-> NULL, step |-> "read", run |-> 0]
           s == [at |-> at, rows |-> rows, on |-> NULL, step |-> "read", run |-> 0]
<1>1. (tick' = i /\ at = "spawn") \/ tick' = s  BY DEF Sweep, Idle
<1>2. DOMAIN NoRows = {}  BY DEF NoRows
<1>3. CASE tick' = i /\ at = "spawn"  BY <1>2, <1>3 DEF Tick
<1>4. CASE tick' = s  BY <1>4 DEF Tick
<1> QED  BY <1>1, <1>3, <1>4

(* The tick is done with the row of t.                                     *)
LEMMA WithoutIs ==
  ASSUME Inv, NEW t \in Tasks, tick' = Without(t)
  PROVE  /\ tick' \in Tick' /\ tick'.on = NULL /\ tick'.step = "read" /\ tick'.run = 0
         /\ DOMAIN tick'.rows \subseteq DOMAIN tick.rows \ {t}
         /\ tick'.at \in {tick.at, "idle"}
         /\ tick'.at # "idle" =>
              /\ DOMAIN tick'.rows = DOMAIN tick.rows \ {t}
              /\ \A u \in DOMAIN tick'.rows : tick'.rows[u] = tick.rows[u]
<1> DEFINE rows == [u \in DOMAIN tick.rows \ {t} |-> tick.rows[u]]
<1>1. tick' = Sweep(tick.at, rows)  BY DEF Without
<1>2. /\ DOMAIN rows = DOMAIN tick.rows \ {t}
      /\ \A u \in DOMAIN tick.rows \ {t} : rows[u] = tick.rows[u]
  OBVIOUS
<1>3. tick.at \in {"idle", "stale", "crash", "timeout", "spawn"} /\ DOMAIN tick.rows \subseteq Tasks
  BY DEF Inv, TypeOK, Tick
<1> HIDE DEF rows
<1> QED  BY <1>1, <1>2, <1>3, SweepIs

(* Nothing is owed, recorded or forgotten.                                 *)
LEMMA BudgetSame ==
  ASSUME Inv, task' \in [Tasks -> Task], faults \in Nat, faults' \in Nat, faults <= faults',
         \A t \in Tasks :
           \/ spent'[t] = 0
           \/ /\ spent'[t] = spent[t] /\ task'[t].failures = task[t].failures
              /\ Pends(t)' <=> Pends(t)
              /\ Pends(t) => task'[t].status = task[t].status /\ task'[t].run = task[t].run
              /\ \/ task[t].failures < Limit
                 \/ task[t].status \in Stopped => task'[t].status \in Stopped
  PROVE  Budget'
<1> SUFFICES ASSUME NEW t \in Tasks, spent'[t] # 0
             PROVE  /\ spent'[t] <= Counts(t)' + (IF Pends(t)' THEN 1 ELSE 0) + faults'
                    /\ Pends(t)' => task'[t].status = "ready" /\ task'[t].run = 0
  BY DEF Budget
<1>1. /\ spent'[t] = spent[t] /\ task'[t].failures = task[t].failures
      /\ Pends(t)' <=> Pends(t)
      /\ Pends(t) => task'[t].status = task[t].status /\ task'[t].run = task[t].run
      /\ \/ task[t].failures < Limit
         \/ task[t].status \in Stopped => task'[t].status \in Stopped
  OBVIOUS
<1>2. /\ spent[t] <= Counts(t) + (IF Pends(t) THEN 1 ELSE 0) + faults
      /\ Pends(t) => task[t].status = "ready" /\ task[t].run = 0
  BY <1>1 DEF Inv, Budget
<1>3. spent[t] \in Nat /\ task[t].failures \in Nat  BY DEF Inv, TypeOK, Task
<1>4. Counts(t) \in Nat /\ Counts(t)' \in Nat /\ Counts(t) <= Counts(t)'
  BY <1>1, <1>3, LimitFacts DEF Counts
<1>5. CASE Pends(t)  BY <1>1, <1>2, <1>3, <1>4, <1>5
<1>6. CASE ~Pends(t)  BY <1>1, <1>2, <1>3, <1>4, <1>6
<1> QED  BY <1>5, <1>6

----------------------------------------------------------------------------
(* Steps that leave the board alone.                                       *)

(* No row is read and none at work: no failure is left to count.           *)
LEMMA NonePends ==
  ASSUME Inv, NEW earlier, Swept(earlier)
  PROVE  \A t \in Tasks : ~Pends(t)
BY KanbanAssumption DEF Inv, TypeOK, Swept, Pends

LEMMA BoardSame ==
  ASSUME Inv, UNCHANGED board, moves' = moves, spent' = spent,
         alive' \subseteq DOMAIN runs, late' \subseteq Tasks, reclaim' = reclaim,
         after' \subseteq {"clear", "clear_recompute", "recompute"} \X Tasks,
         faults' \in 0..MaxFaults, faults' >= faults,
         tick' \in Tick', DOMAIN tick'.rows \subseteq Tasks,
         tick'.on \in DOMAIN tick'.rows \cup {NULL}, Ticking',
         \A t \in Tasks : (Pends(t)' <=> Pends(t)) \/ (~Pends(t)' /\ faults' > faults)
  PROVE  Kept
<1>1. task' = task /\ links' = links /\ runs' = runs  BY DEF board
<1>2. Pointers' /\ OpenRunIsCurrent' /\ SparesLive /\ ByItsWorker  BY <1>1, RunsSame
<1>3. RunningIsHeld' /\ AfterParents  BY <1>1, HeldSame
<1>4. TypeOK'  BY <1>1 DEF Inv, TypeOK
<1>5. Budget'
  <2> SUFFICES ASSUME NEW t \in Tasks, spent'[t] # 0
               PROVE  /\ spent'[t] <= Counts(t)' + (IF Pends(t)' THEN 1 ELSE 0) + faults'
                      /\ Pends(t)' => task'[t].status = "ready" /\ task'[t].run = 0
    BY DEF Budget
  <2>1. /\ spent[t] <= Counts(t) + (IF Pends(t) THEN 1 ELSE 0) + faults
        /\ Pends(t) => task[t].status = "ready" /\ task[t].run = 0
    BY DEF Inv, Budget
  <2>2. spent[t] \in Nat /\ task[t].failures \in Nat /\ faults \in Nat /\ faults' \in Nat
    BY KanbanAssumption DEF Inv, TypeOK, Task
  <2>3. Counts(t) \in Nat /\ Counts(t)' = Counts(t)  BY <1>1, <2>2, LimitFacts DEF Counts
  <2>4. CASE Pends(t)' <=> Pends(t)
    <3>1. CASE Pends(t)  BY <1>1, <2>1, <2>2, <2>3, <2>4, <3>1
    <3>2. CASE ~Pends(t)  BY <1>1, <2>1, <2>2, <2>3, <2>4, <3>2
    <3> QED  BY <3>1, <3>2
  <2>5. CASE ~Pends(t)' /\ faults' > faults
    <3>1. spent[t] <= Counts(t) + 1 + faults
      <4>1. CASE Pends(t)  BY <2>1, <2>2, <2>3, <4>1
      <4>2. CASE ~Pends(t)  BY <2>1, <2>2, <2>3, <4>2
      <4> QED  BY <4>1, <4>2
    <3> QED  BY <2>2, <2>3, <2>5, <3>1
  <2> QED  BY <2>4, <2>5
<1> QED  BY <1>2, <1>3, <1>4, <1>5 DEF Kept, Inv

LEMMA BeginTickKeeps ==
  ASSUME Inv, BeginTick
  PROVE  Kept
<1>1. /\ UNCHANGED board /\ moves' = moves /\ spent' = spent /\ alive' = alive
      /\ reclaim' = reclaim /\ after' = after /\ faults' = faults /\ Swept({"idle"})
  BY Zenon DEF BeginTick
<1>2. PICK expired \in SUBSET Running \ {{}} :
        tick' = Sweep("stale", [t \in expired |-> RowOf(t)]) /\ late' = expired
  BY Zenon DEF BeginTick
<1> DEFINE rows == [t \in expired |-> RowOf(t)]
<1>3. expired \subseteq Tasks /\ DOMAIN rows = expired /\ \A t \in expired : rows[t] = RowOf(t)
  BY <1>2 DEF Running
<1>4. tick' = Sweep("stale", rows)  BY <1>2
<1> HIDE DEF rows
<1>5. /\ tick' \in Tick' /\ tick'.on = NULL /\ tick'.step = "read"
      /\ DOMAIN tick'.rows \subseteq Tasks
      /\ (tick'.at = "stale" /\ tick'.rows = rows) \/ tick'.at = "idle"
  BY <1>3, <1>4, SweepIs
<1>6. task' = task  BY <1>1 DEF board
<1>7. \A t \in expired : rows[t].pid = task[t].pid  BY <1>3 DEF RowOf
<1>8. Ticking'  BY <1>3, <1>5, <1>6, <1>7 DEF Ticking
<1>9. \A t \in Tasks : ~Pends(t) /\ ~Pends(t)'  BY <1>1, <1>5, NonePends DEF Pends
<1>10. alive \subseteq DOMAIN runs /\ faults \in 0..MaxFaults
       /\ after \subseteq {"clear", "clear_recompute", "recompute"} \X Tasks
  BY DEF Inv, TypeOK
<1> QED  BY <1>1, <1>2, <1>3, <1>5, <1>8, <1>9, <1>10, BoardSame, KanbanAssumption

LEMMA FindOverdueKeeps ==
  ASSUME Inv, FindOverdue
  PROVE  Kept
<1>1. /\ UNCHANGED board /\ moves' = moves /\ spent' = spent /\ alive' = alive /\ late' = late
      /\ reclaim' = reclaim /\ after' = after /\ faults' = faults
      /\ Swept({"idle", "stale", "crash"})
  BY Zenon DEF FindOverdue
<1>2. PICK overdue \in SUBSET {t \in Running : task[t].pid # 0} \ {{}} :
        tick' = Sweep("timeout", [t \in overdue |-> RowOf(t)])
  BY Zenon DEF FindOverdue
<1> DEFINE rows == [t \in overdue |-> RowOf(t)]
<1>3. DOMAIN rows \subseteq Tasks  BY <1>2 DEF Running
<1>4. tick' = Sweep("timeout", rows)  BY <1>2
<1> HIDE DEF rows
<1>5. /\ tick' \in Tick' /\ tick'.on = NULL /\ tick'.step = "read"
      /\ DOMAIN tick'.rows \subseteq Tasks
      /\ tick'.at \in {"timeout", "idle"}
  BY <1>3, <1>4, SweepIs
<1>6. Ticking'  BY <1>5 DEF Ticking
<1>7. \A t \in Tasks : ~Pends(t) /\ ~Pends(t)'  BY <1>1, <1>5, NonePends DEF Pends
<1>8. /\ alive \subseteq DOMAIN runs /\ faults \in 0..MaxFaults /\ late \subseteq Tasks
      /\ after \subseteq {"clear", "clear_recompute", "recompute"} \X Tasks
  BY DEF Inv, TypeOK
<1> QED  BY <1>1, <1>5, <1>6, <1>7, <1>8, BoardSame, KanbanAssumption

LEMMA ExtendClaimKeeps ==
  ASSUME Inv, NEW t \in Tasks, ExtendClaim(t)
  PROVE  Kept
<1>1. /\ UNCHANGED board /\ moves' = moves /\ spent' = spent /\ alive' = alive
      /\ reclaim' = reclaim /\ after' = after /\ faults' = faults
      /\ late' = late \ {t} /\ Pending("stale", t) /\ tick' = Without(t)
  BY Zenon DEF ExtendClaim
<1>2. tick.at = "stale" /\ DOMAIN tick.rows \subseteq Tasks
  BY <1>1 DEF Pending, Inv, TypeOK
<1>3. /\ tick' \in Tick' /\ tick'.on = NULL /\ tick'.step = "read"
      /\ DOMAIN tick'.rows \subseteq DOMAIN tick.rows
      /\ tick'.at \in {"stale", "idle"}
      /\ tick'.at # "idle" => \A u \in DOMAIN tick'.rows : tick'.rows[u] = tick.rows[u]
  BY <1>1, <1>2, WithoutIs
<1>4. task' = task  BY <1>1 DEF board
<1>5. Ticking'  BY <1>2, <1>3, <1>4 DEF Inv, Ticking
<1>6. \A u \in Tasks : ~Pends(u) /\ ~Pends(u)'  BY <1>2, <1>3 DEF Pends
<1>7. /\ alive \subseteq DOMAIN runs /\ faults \in 0..MaxFaults /\ late \subseteq Tasks
      /\ after \subseteq {"clear", "clear_recompute", "recompute"} \X Tasks
  BY DEF Inv, TypeOK
<1>8. late' \subseteq Tasks /\ DOMAIN tick'.rows \subseteq Tasks  BY <1>1, <1>2, <1>3, <1>7
<1> QED  BY <1>1, <1>3, <1>5, <1>6, <1>7, <1>8, BoardSame, KanbanAssumption

(* A signal is sent, and the row stays at work.                            *)
LEMMA KillKeeps ==
  ASSUME Inv, NEW t \in Tasks, NEW at \in {"stale", "timeout"}, Pending(at, t),
         NEW p, Kill(p), tick' = [tick EXCEPT !.on = t, !.step = "killed"],
         UNCHANGED <<board, late, reclaim, after, moves, faults, spent>>
  PROVE  Kept
<1>1. /\ UNCHANGED board /\ moves' = moves /\ spent' = spent /\ late' = late
      /\ reclaim' = reclaim /\ after' = after /\ faults' = faults
  BY Zenon
<1>2. alive' \subseteq alive  BY DEF Kill
<1>3. tick.at = at /\ t \in DOMAIN tick.rows /\ tick.on = NULL  BY DEF Pending
<1>4. tick \in Tick /\ DOMAIN tick.rows \subseteq Tasks  BY DEF Inv, TypeOK
<1>5. /\ tick'.at = tick.at /\ tick'.rows = tick.rows /\ tick'.on = t /\ tick'.step = "killed"
      /\ tick' \in Tick'
  BY <1>4 DEF Tick
<1>6. task' = task  BY <1>1 DEF board
<1>7. Ticking'  BY <1>3, <1>5, <1>6 DEF Inv, Ticking
<1>8. \A u \in Tasks : ~Pends(u) /\ ~Pends(u)'  BY <1>3, <1>5, KanbanAssumption DEF Pends
<1>9. /\ alive \subseteq DOMAIN runs /\ faults \in 0..MaxFaults /\ late \subseteq Tasks
      /\ after \subseteq {"clear", "clear_recompute", "recompute"} \X Tasks
  BY DEF Inv, TypeOK
<1>10. alive' \subseteq DOMAIN runs /\ DOMAIN tick'.rows \subseteq Tasks
       /\ tick'.on \in DOMAIN tick'.rows \cup {NULL}
  BY <1>2, <1>3, <1>4, <1>5, <1>9
<1> QED  BY <1>1, <1>5, <1>7, <1>8, <1>9, <1>10, BoardSame, KanbanAssumption

LEMMA StartWorkerKeeps ==
  ASSUME Inv, NEW t \in Tasks, StartWorker(t)
  PROVE  Kept
<1>1. /\ UNCHANGED board /\ moves' = moves /\ spent' = spent /\ late' = late
      /\ reclaim' = reclaim /\ after' = after /\ faults' = faults
      /\ alive' = alive \cup {tick.run} /\ tick' = [tick EXCEPT !.step = "started"]
      /\ Working("spawn", t, "claimed")
  BY Zenon DEF StartWorker
<1>2. tick \in Tick /\ DOMAIN tick.rows \subseteq Tasks /\ tick.on \in DOMAIN tick.rows \cup {NULL}
  BY DEF Inv, TypeOK
<1>3. tick.at = "spawn" /\ tick.step = "claimed"  BY <1>1 DEF Working
<1>4. tick.run \in DOMAIN runs  BY <1>3 DEF Inv, Ticking
<1>5. /\ tick'.at = tick.at /\ tick'.rows = tick.rows /\ tick'.on = tick.on
      /\ tick'.step = "started" /\ tick'.run = tick.run /\ tick' \in Tick'
  BY <1>1, <1>2 DEF Tick
<1>6. runs' = runs  BY <1>1 DEF board
<1>7. Ticking'  BY <1>3, <1>4, <1>5, <1>6 DEF Ticking
<1>8. \A u \in Tasks : ~Pends(u) /\ ~Pends(u)'  BY <1>3, <1>5 DEF Pends
<1>9. /\ alive \subseteq DOMAIN runs /\ faults \in 0..MaxFaults /\ late \subseteq Tasks
      /\ after \subseteq {"clear", "clear_recompute", "recompute"} \X Tasks
  BY DEF Inv, TypeOK
<1>10. alive' \subseteq DOMAIN runs  BY <1>1, <1>4, <1>9
<1> QED  BY <1>1, <1>2, <1>5, <1>7, <1>8, <1>9, <1>10, BoardSame, KanbanAssumption

LEMMA GatewayDiesKeeps ==
  ASSUME Inv, GatewayDies
  PROVE  Kept
<1>1. /\ UNCHANGED board /\ moves' = moves /\ spent' = spent /\ alive' = alive
      /\ reclaim' = reclaim /\ after' = after /\ tick' = Idle /\ late' = {}
      /\ faults < MaxFaults /\ faults' = faults + 1
  BY Zenon DEF GatewayDies
<1>2. /\ alive \subseteq DOMAIN runs /\ faults \in 0..MaxFaults
      /\ after \subseteq {"clear", "clear_recompute", "recompute"} \X Tasks
  BY DEF Inv, TypeOK
<1>3. faults' \in 0..MaxFaults /\ faults' > faults  BY <1>1, <1>2, KanbanAssumption
<1>4. DOMAIN NoRows = {}  BY DEF NoRows
<1>5. /\ tick' \in Tick' /\ tick'.on = NULL /\ tick'.rows = NoRows /\ tick'.at = "idle"
      /\ tick'.step = "read"
  BY <1>1 DEF Idle, Tick
<1>6. Ticking' /\ \A t \in Tasks : ~Pends(t)'  BY <1>5 DEF Ticking, Pends
<1>7. DOMAIN tick'.rows \subseteq Tasks  BY <1>4, <1>5
<1>8. faults' >= faults  BY <1>2, <1>3, KanbanAssumption
<1> QED  BY <1>1, <1>2, <1>3, <1>5, <1>6, <1>7, <1>8, BoardSame

(* Steps that leave the tick alone, too.                                   *)
LEMMA AsideKeeps ==
  ASSUME Inv, UNCHANGED board, moves' = moves, spent' = spent, reclaim' = reclaim, tick' = tick,
         alive' \subseteq alive, late' \subseteq late, after' \subseteq after,
         faults' \in 0..MaxFaults, faults' >= faults
  PROVE  Kept
<1>1. /\ alive \subseteq DOMAIN runs /\ late \subseteq Tasks
      /\ after \subseteq {"clear", "clear_recompute", "recompute"} \X Tasks
      /\ DOMAIN tick.rows \subseteq Tasks /\ tick.on \in DOMAIN tick.rows \cup {NULL}
  BY DEF Inv, TypeOK
<1>2. task' = task /\ runs' = runs  BY DEF board
<1>3. tick' \in Tick' /\ Ticking'  BY <1>2, TickSame
<1>4. \A t \in Tasks : Pends(t)' <=> Pends(t)  BY DEF Pends
<1> QED  BY <1>1, <1>3, <1>4, BoardSame

LEMMA WorkersAside ==
  ASSUME Inv, NEW r \in RunIds, Heartbeat(r) \/ Exit(r)
  PROVE  Kept
<1>1. /\ UNCHANGED board /\ moves' = moves /\ spent' = spent /\ reclaim' = reclaim /\ tick' = tick
      /\ alive' \subseteq alive /\ late' \subseteq late /\ after' = after /\ faults' = faults
  BY DEF Heartbeat, Exit
<1>2. faults \in 0..MaxFaults  BY DEF Inv, TypeOK
<1> QED  BY <1>1, <1>2, AsideKeeps, KanbanAssumption

LEMMA LoseFollowUpKeeps ==
  ASSUME Inv, LoseFollowUp
  PROVE  Kept
<1>1. /\ UNCHANGED board /\ moves' = moves /\ spent' = spent /\ reclaim' = reclaim /\ tick' = tick
      /\ alive' = alive /\ late' = late /\ faults < MaxFaults /\ faults' = faults + 1
  BY Zenon DEF LoseFollowUp
<1>2. after' \subseteq after  BY DEF LoseFollowUp
<1>3. faults \in 0..MaxFaults  BY DEF Inv, TypeOK
<1>4. faults' \in 0..MaxFaults /\ faults' >= faults  BY <1>1, <1>3, KanbanAssumption
<1> QED  BY <1>1, <1>2, <1>4, AsideKeeps

----------------------------------------------------------------------------
(* Failures, promotions and claims.                                        *)

(* A failure counts, and at the limit the task stops; a task that is       *)
(* neither ready nor running stays as it is then.                          *)
LEMMA FailedIs ==
  ASSUME TypeOK, NEW t \in Tasks, NEW limit \in Nat, task' = Failed(t, limit)
  PROVE  /\ task' \in [Tasks -> Task] /\ \A u \in Tasks \ {t} : task'[u] = task[u]
         /\ task'[t].lock = task[t].lock /\ task'[t].pid = task[t].pid
         /\ task'[t].run = task[t].run
         /\ \/ /\ task'[t].failures = task[t].failures + 1 /\ task[t].failures + 1 < limit
               /\ task'[t].status = task[t].status
            \/ /\ task'[t].failures = task[t].failures + 1 /\ task'[t].status = "blocked"
               /\ task[t].status \in {"ready", "running"}
            \/ task'[t] = task[t] /\ task[t].status \notin {"ready", "running"}
<1> DEFINE n == task[t].failures + 1
           x == [task[t] EXCEPT !.failures = n]
           y == [task[t] EXCEPT !.failures = n, !.status = "blocked"]
<1>1. task \in [Tasks -> Task] /\ task[t] \in Task  BY DEF TypeOK
<1>2. n \in Nat  BY <1>1 DEF Task
<1>3. /\ x \in Task /\ x.failures = n /\ x.status = task[t].status
      /\ x.lock = task[t].lock /\ x.pid = task[t].pid /\ x.run = task[t].run
  BY <1>1, <1>2 DEF Task
<1>4. /\ y \in Task /\ y.failures = n /\ y.status = "blocked"
      /\ y.lock = task[t].lock /\ y.pid = task[t].pid /\ y.run = task[t].run
  BY <1>1, <1>2 DEF Task, Statuses
<1>5. \/ task' = [task EXCEPT ![t] = x] /\ n < limit
      \/ task' = [task EXCEPT ![t] = y] /\ task[t].status \in {"ready", "running"}
      \/ task' = task /\ task[t].status \notin {"ready", "running"}
  BY <1>1, <1>2 DEF Failed
<1> HIDE DEF x, y
<1>6. CASE task' = [task EXCEPT ![t] = x] /\ n < limit  BY <1>1, <1>3, <1>6, OneTask
<1>7. CASE task' = [task EXCEPT ![t] = y] /\ task[t].status \in {"ready", "running"}
  BY <1>1, <1>4, <1>7, OneTask
<1>8. CASE task' = task /\ task[t].status \notin {"ready", "running"}  BY <1>1, <1>8
<1> QED  BY <1>5, <1>6, <1>7, <1>8

(* A failure that was seen is now counted.                                 *)
LEMMA FailedBudget ==
  ASSUME Inv, NEW t \in Tasks, NEW limit \in Nat, limit <= Limit, task' = Failed(t, limit),
         spent' = spent, faults' = faults, ~Pends(t)',
         \A u \in Tasks \ {t} : Pends(u)' <=> Pends(u)
  PROVE  Budget'
<1>1. TypeOK  BY DEF Inv
<1>2. /\ task' \in [Tasks -> Task] /\ \A u \in Tasks \ {t} : task'[u] = task[u]
      /\ \/ /\ task'[t].failures = task[t].failures + 1 /\ task[t].failures + 1 < limit
            /\ task'[t].status = task[t].status
         \/ /\ task'[t].failures = task[t].failures + 1 /\ task'[t].status = "blocked"
            /\ task[t].status \in {"ready", "running"}
         \/ task'[t] = task[t] /\ task[t].status \notin {"ready", "running"}
  BY <1>1, FailedIs
<1> SUFFICES ASSUME NEW u \in Tasks, spent'[u] # 0
             PROVE  /\ spent'[u] <= Counts(u)' + (IF Pends(u)' THEN 1 ELSE 0) + faults'
                    /\ Pends(u)' => task'[u].status = "ready" /\ task'[u].run = 0
  BY DEF Budget
<1>3. /\ spent[u] <= Counts(u) + (IF Pends(u) THEN 1 ELSE 0) + faults
      /\ Pends(u) => task[u].status = "ready" /\ task[u].run = 0
  BY DEF Inv, Budget
<1>4. spent[u] \in Nat /\ task[u].failures \in Nat /\ faults \in Nat
  BY <1>1, KanbanAssumption DEF TypeOK, Task
<1>5. CASE u # t
  <2>1. task'[u] = task[u] /\ (Pends(u)' <=> Pends(u)) /\ Counts(u)' = Counts(u)
    BY <1>2, <1>5 DEF Counts, Limit
  <2>2. CASE Pends(u)  BY <1>3, <2>1, <2>2
  <2>3. CASE ~Pends(u)  BY <1>3, <2>1, <2>3
  <2> QED  BY <2>2, <2>3
<1>6. CASE u = t
  <2>1. Limit \in Nat \ {0} /\ Limit' = Limit  BY LimitFacts DEF Limit
  <2>2. Counts(t) \in Nat /\ Counts(t)' \in Nat  BY <1>2, <1>4, <1>6, <2>1 DEF Counts, Task
  <2>3. CASE Pends(t)
    <3>1. task[t].status = "ready"  BY <1>3, <1>6, <2>3
    <3>2. Counts(t) + 1 <= Counts(t)'  BY <1>2, <1>4, <1>6, <2>1, <3>1 DEF Counts, Stopped
    <3>3. spent[t] <= Counts(t) + 1 + faults  BY <1>3, <1>6, <2>3
    <3>4. spent[t] <= Counts(t)' + faults  BY <1>4, <1>6, <2>2, <3>2, <3>3
    <3> QED  BY <1>4, <1>6, <2>2, <3>4
  <2>4. CASE ~Pends(t)
    <3>1. Counts(t) <= Counts(t)'  BY <1>2, <1>4, <1>6, <2>1 DEF Counts, Stopped
    <3>2. spent[t] <= Counts(t) + faults  BY <1>3, <1>4, <1>6, <2>2, <2>4
    <3> QED  BY <1>4, <1>6, <2>2, <3>1, <3>2
  <2> QED  BY <2>3, <2>4
<1> QED  BY <1>5, <1>6

(* What the tick's steps on one row leave alone.                           *)
RowStep(t) ==
  /\ tick' = Without(t)
  /\ links' = links /\ alive' = alive /\ reclaim' = reclaim /\ after' = after
  /\ moves' = moves /\ late' \subseteq late
  /\ faults' \in 0..MaxFaults /\ faults' >= faults

LEMMA RowKeeps ==
  ASSUME Inv, NEW t \in Tasks, RowStep(t), task' \in [Tasks -> Task],
         \A u \in Tasks : tick.at = "stale" => task'[u].pid \in {0, task[u].pid},
         runs' \in Seq(Run), Len(runs') <= MaxRuns, DOMAIN runs \subseteq DOMAIN runs',
         spent' \in [Tasks -> Nat],
         Pointers', OpenRunIsCurrent', RunningIsHeld', Budget', SparesLive, ByItsWorker, AfterParents
  PROVE  Kept
<1>1. /\ tick' \in Tick' /\ tick'.on = NULL /\ tick'.step = "read"
      /\ DOMAIN tick'.rows \subseteq DOMAIN tick.rows
      /\ tick'.at \in {tick.at, "idle"}
      /\ tick'.at # "idle" => \A u \in DOMAIN tick'.rows : tick'.rows[u] = tick.rows[u]
  BY WithoutIs DEF RowStep
<1>2. DOMAIN tick.rows \subseteq Tasks  BY DEF Inv, TypeOK
<1>3. Ticking'  BY <1>1, <1>2 DEF Inv, Ticking
<1>4. /\ links' \subseteq Tasks \X Tasks /\ alive' \subseteq DOMAIN runs' /\ late' \subseteq Tasks
      /\ reclaim' = NULL \/ (reclaim'.on \in Tasks /\ reclaim'.lock \in Lock)
      /\ after' \subseteq {"clear", "clear_recompute", "recompute"} \X Tasks
      /\ moves' \in 0..MaxMoves /\ faults' \in 0..MaxFaults
  BY DEF Inv, TypeOK, RowStep
<1>5. DOMAIN tick'.rows \subseteq Tasks /\ tick'.on \in DOMAIN tick'.rows \cup {NULL}
  BY <1>1, <1>2
<1>6. TypeOK'  BY <1>1, <1>4, <1>5 DEF TypeOK, Lock
<1> QED  BY <1>3, <1>6 DEF Kept, Inv

(* Of the rows other than t's the tick knows what it knew.                 *)
LEMMA RowPends ==
  ASSUME Inv, NEW t \in Tasks, tick' = Without(t)
  PROVE  /\ ~Pends(t)'
         /\ tick.at \in {"crash", "timeout"} => \A u \in Tasks \ {t} : Pends(u) => Pends(u)' \/ tick.on = u
         /\ \A u \in Tasks \ {t} : Pends(u)' => Pends(u)
<1>1. /\ tick'.on = NULL /\ tick'.step = "read"
      /\ DOMAIN tick'.rows \subseteq DOMAIN tick.rows \ {t}
      /\ tick'.at \in {tick.at, "idle"}
      /\ tick'.at # "idle" =>
           /\ DOMAIN tick'.rows = DOMAIN tick.rows \ {t}
           /\ \A u \in DOMAIN tick'.rows : tick'.rows[u] = tick.rows[u]
  BY WithoutIs
<1>2. tick.at # "spawn" => tick'.at = tick.at  BY DEF Without, Sweep, Idle
<1>3. ~Pends(t)'  BY <1>1 DEF Pends
<1>4. ASSUME NEW u \in Tasks \ {t}, Pends(u)'  PROVE Pends(u)  BY <1>1, <1>4 DEF Pends
<1>5. ASSUME tick.at \in {"crash", "timeout"}, NEW u \in Tasks \ {t}, Pends(u), tick.on # u
      PROVE  Pends(u)'
  BY <1>1, <1>2, <1>5 DEF Pends
<1> QED  BY <1>3, <1>4, <1>5

LEMMA RecordPidKeeps ==
  ASSUME Inv, NEW t \in Tasks, RecordPid(t)
  PROVE  Kept
<1> DEFINE x == [task[t] EXCEPT !.pid = tick.run]
<1>1. TypeOK /\ task[t] \in Task /\ tick \in Tick /\ faults \in 0..MaxFaults /\ faults \in Nat
  BY KanbanAssumption DEF Inv, TypeOK
<1>2. /\ runs' = runs /\ spent' = spent /\ faults' = faults /\ tick' = Without(t)
      /\ links' = links /\ alive' = alive /\ reclaim' = reclaim /\ after' = after
      /\ moves' = moves /\ late' = late /\ Working("spawn", t, "started")
      /\ task' = [task EXCEPT ![t] = x]
  BY DEF RecordPid
<1>3. RowStep(t)  BY <1>1, <1>2 DEF RowStep
<1>4. /\ x \in Task /\ x.status = task[t].status /\ x.lock = task[t].lock /\ x.run = task[t].run
      /\ x.failures = task[t].failures
  BY <1>1 DEF Task, Tick
<1> HIDE DEF x
<1>5. task' \in [Tasks -> Task] /\ task'[t] = x /\ \A u \in Tasks \ {t} : task'[u] = task[u]
  BY <1>1, <1>2, <1>4, OneTask
<1>6. \A u \in Tasks : /\ task'[u].status = task[u].status /\ task'[u].lock = task[u].lock
                       /\ task'[u].run = task[u].run /\ task'[u].failures = task[u].failures
  BY <1>4, <1>5
<1>7. tick.at = "spawn"  BY <1>2 DEF Working
<1>8. \A u \in Tasks : ~Pends(u) /\ ~Pends(u)'  BY <1>2, <1>7, RowPends DEF Pends
<1>9. Budget'  BY <1>1, <1>2, <1>5, <1>6, <1>8, BudgetSame
<1>10. Pointers' /\ OpenRunIsCurrent' /\ SparesLive /\ ByItsWorker  BY <1>2, <1>6, RunsSame
<1>11. RunningIsHeld' /\ AfterParents  BY <1>6, HeldSame
<1>12. runs' \in Seq(Run) /\ Len(runs') <= MaxRuns /\ spent' \in [Tasks -> Nat]
  BY <1>1, <1>2 DEF TypeOK
<1> QED  BY <1>2, <1>3, <1>5, <1>7, <1>9, <1>10, <1>11, <1>12, RowKeeps

(* A failure is counted in a transaction of its own.                       *)
LEMMA FailedKeeps ==
  ASSUME Inv, NEW t \in Tasks, NEW limit \in Nat, limit <= Limit, task' = Failed(t, limit),
         RowStep(t), runs' = runs, spent' = spent, faults' = faults,
         tick.at \in {"crash", "timeout"}, tick.on \in {NULL, t}
  PROVE  Kept
<1>1. TypeOK /\ runs \in Seq(Run) /\ Len(runs) <= MaxRuns /\ spent \in [Tasks -> Nat]
  BY DEF Inv, TypeOK
<1>2. /\ task' \in [Tasks -> Task] /\ \A u \in Tasks \ {t} : task'[u] = task[u]
      /\ task'[t].lock = task[t].lock /\ task'[t].pid = task[t].pid
      /\ task'[t].run = task[t].run /\ task'[t].status \in {task[t].status, "blocked"}
  BY <1>1, FailedIs
<1>3. ~Pends(t)' /\ \A u \in Tasks \ {t} : Pends(u)' <=> Pends(u)
  BY RowPends, KanbanAssumption DEF RowStep
<1>4. Budget'  BY <1>3, FailedBudget
<1>5. \A u \in Tasks : task'[u].run = task[u].run  BY <1>2
<1>6. Pointers' /\ OpenRunIsCurrent' /\ SparesLive /\ ByItsWorker  BY <1>5, RunsSame
<1>7. RunningIsHeld' /\ AfterParents  BY <1>2, HeldSame
<1> QED  BY <1>1, <1>2, <1>4, <1>6, <1>7, RowKeeps

LEMMA RecordTimeoutKeeps ==
  ASSUME Inv, NEW t \in Tasks, RecordTimeout(t)
  PROVE  Kept
<1>1. /\ runs' = runs /\ spent' = spent /\ faults' = faults /\ tick' = Without(t)
      /\ links' = links /\ alive' = alive /\ reclaim' = reclaim /\ after' = after
      /\ moves' = moves /\ late' = late /\ Working("timeout", t, "released")
      /\ task' = Failed(t, FailureLimit)
  BY Zenon DEF RecordTimeout
<1>2. faults \in 0..MaxFaults /\ faults \in Nat  BY KanbanAssumption DEF Inv, TypeOK
<1>3. RowStep(t)  BY <1>1, <1>2 DEF RowStep
<1>4. tick.at = "timeout" /\ tick.on = t  BY <1>1 DEF Working
<1>5. FailureLimit \in Nat /\ FailureLimit <= Limit  BY KanbanAssumption, LimitFacts
<1> QED  BY <1>1, <1>3, <1>4, <1>5, FailedKeeps

LEMMA RecordCrashKeeps ==
  ASSUME Inv, NEW t \in Tasks, RecordCrash(t)
  PROVE  Kept
<1>1. /\ runs' = runs /\ spent' = spent /\ faults' = faults /\ tick' = Without(t)
      /\ links' = links /\ alive' = alive /\ reclaim' = reclaim /\ after' = after
      /\ moves' = moves /\ late' = late /\ Pending("crash", t)
  BY Zenon DEF RecordCrash
<1>2. TypeOK /\ faults \in 0..MaxFaults /\ faults \in Nat  BY KanbanAssumption DEF Inv, TypeOK
<1>3. RowStep(t)  BY <1>1, <1>2 DEF RowStep
<1>4. tick.at = "crash" /\ tick.on = NULL  BY <1>1 DEF Pending
<1>5. /\ FailureLimit \in Nat /\ FailureLimit <= Limit /\ 1 <= Limit /\ 0 <= Limit
  BY KanbanAssumption, LimitFacts
<1>6. \/ task' = Failed(t, FailureLimit) \/ task' = Failed(t, 1) \/ task' = Failed(t, 0)
      \/ task' = task /\ tick.rows[t] \notin {"failed", "systemic"}
  BY DEF RecordCrash
<1>7. CASE task' = Failed(t, FailureLimit)  BY <1>1, <1>3, <1>4, <1>5, <1>7, FailedKeeps
<1>8. CASE task' = Failed(t, 1)  BY <1>1, <1>3, <1>4, <1>5, <1>8, FailedKeeps
<1>9. CASE task' = Failed(t, 0)  BY <1>1, <1>3, <1>4, <1>5, <1>9, FailedKeeps
<1>10. CASE task' = task /\ tick.rows[t] \notin {"failed", "systemic"}
  <2>1. ~Pends(t) /\ ~Pends(t)'  BY <1>1, <1>4, <1>10, RowPends DEF Pends
  <2>2. \A u \in Tasks \ {t} : Pends(u)' <=> Pends(u)  BY <1>1, <1>4, RowPends, KanbanAssumption
  <2>3. task \in [Tasks -> Task]  BY <1>2 DEF TypeOK
  <2>4. \A u \in Tasks : Pends(u)' <=> Pends(u)  BY <2>1, <2>2
  <2>5. Budget'  BY <1>1, <1>2, <1>10, <2>3, <2>4, BudgetSame
  <2>6. Pointers' /\ OpenRunIsCurrent' /\ SparesLive /\ ByItsWorker  BY <1>1, <1>10, RunsSame
  <2>7. RunningIsHeld' /\ AfterParents  BY <1>10, HeldSame
  <2>8. runs' \in Seq(Run) /\ Len(runs') <= MaxRuns /\ spent' \in [Tasks -> Nat]
    BY <1>1, <1>2 DEF TypeOK
  <2> QED  BY <1>1, <1>3, <1>10, <2>3, <2>5, <2>6, <2>7, <2>8, RowKeeps
<1> QED  BY <1>6, <1>7, <1>8, <1>9, <1>10

(* A task that is made ready was waiting, or blocked below the limit.      *)
LEMMA PromotedIs ==
  ASSUME TypeOK, NEW limit \in Nat, limit <= Limit, task' = Promoted(limit)
  PROVE  /\ task' \in [Tasks -> Task]
         /\ \A t \in Tasks :
              /\ task'[t].lock = task[t].lock /\ task'[t].pid = task[t].pid
              /\ task'[t].run = task[t].run /\ task'[t].failures = task[t].failures
              /\ \/ task'[t].status = task[t].status
                 \/ task'[t].status = "ready" /\ task[t].status = "todo"
                 \/ /\ task'[t].status = "ready" /\ task[t].status = "blocked"
                    /\ task[t].failures < Limit
<1> DEFINE x(t) == [task[t] EXCEPT !.status = "ready"]
<1>1. \A t \in Tasks : task[t] \in Task  BY DEF TypeOK
<1>2. \A t \in Tasks :
        /\ x(t) \in Task /\ x(t).status = "ready" /\ x(t).lock = task[t].lock
        /\ x(t).pid = task[t].pid /\ x(t).run = task[t].run /\ x(t).failures = task[t].failures
  BY <1>1 DEF Task, Statuses
<1>3. task' = [t \in Tasks |-> IF Promotable(t, limit) THEN x(t) ELSE task[t]]  BY DEF Promoted
<1> HIDE DEF x
<1>4. task' \in [Tasks -> Task]  BY <1>1, <1>2, <1>3
<1>5. ASSUME NEW t \in Tasks
      PROVE  /\ task'[t].lock = task[t].lock /\ task'[t].pid = task[t].pid
             /\ task'[t].run = task[t].run /\ task'[t].failures = task[t].failures
             /\ \/ task'[t].status = task[t].status
                \/ task'[t].status = "ready" /\ task[t].status = "todo"
                \/ /\ task'[t].status = "ready" /\ task[t].status = "blocked"
                   /\ task[t].failures < Limit
  <2>1. CASE Promotable(t, limit)
    <3>1. task'[t] = x(t)  BY <1>3, <2>1
    <3>2. task[t].failures \in Nat /\ Limit \in Nat  BY <1>1, LimitFacts DEF Task
    <3>3. task[t].status = "todo" \/ (task[t].status = "blocked" /\ task[t].failures < limit)
      BY <2>1 DEF Promotable
    <3>4. task[t].status = "todo" \/ (task[t].status = "blocked" /\ task[t].failures < Limit)
      BY <3>2, <3>3
    <3> QED  BY <1>2, <3>1, <3>4
  <2>2. CASE ~Promotable(t, limit)  BY <1>3, <2>2
  <2> QED  BY <2>1, <2>2
<1> QED  BY <1>4, <1>5

LEMMA PromotedBudget ==
  ASSUME Inv, NEW limit \in Nat, limit <= Limit, task' = Promoted(limit),
         spent' = spent, faults' = faults, \A t \in Tasks : Pends(t)' <=> Pends(t)
  PROVE  Budget'
<1>1. TypeOK /\ faults \in Nat  BY KanbanAssumption DEF Inv, TypeOK
<1>2. /\ task' \in [Tasks -> Task]
      /\ \A t \in Tasks :
           /\ task'[t].run = task[t].run /\ task'[t].failures = task[t].failures
           /\ \/ task'[t].status = task[t].status
              \/ task'[t].status = "ready" /\ task[t].status = "todo"
              \/ /\ task'[t].status = "ready" /\ task[t].status = "blocked"
                 /\ task[t].failures < Limit
  BY <1>1, PromotedIs
<1>3. ASSUME NEW t \in Tasks, spent'[t] # 0, Pends(t)  PROVE task'[t].status = task[t].status
  <2>1. task[t].status = "ready"  BY <1>3 DEF Inv, Budget
  <2> QED  BY <1>2, <2>1
<1>4. \A t \in Tasks : task[t].failures < Limit
                       \/ (task[t].status \in Stopped => task'[t].status \in Stopped)
  BY <1>2 DEF Stopped
<1> QED  BY <1>1, <1>2, <1>3, <1>4, BudgetSame

LEMMA PromoteReadyKeeps ==
  ASSUME Inv, PromoteReady
  PROVE  Kept
<1>1. /\ Swept({"idle", "stale", "crash", "timeout"}) /\ task' = Promoted(DispatchLimit)
      /\ links' = links /\ runs' = runs /\ alive' = alive /\ late' = late /\ reclaim' = reclaim
      /\ after' = after /\ moves' = moves /\ faults' = faults /\ spent' = spent
  BY Zenon DEF PromoteReady
<1>2. PICK due \in SUBSET {t \in Tasks : task'[t].status = "ready" /\ task'[t].lock = NULL} :
        tick' = Sweep("spawn", [t \in due |-> NULL])
  BY Zenon DEF PromoteReady
<1> DEFINE rows == [t \in due |-> NULL]
<1>3. DOMAIN rows \subseteq Tasks  BY <1>2
<1>4. tick' = Sweep("spawn", rows)  BY <1>2
<1> HIDE DEF rows
<1>5. /\ tick' \in Tick' /\ tick'.on = NULL /\ tick'.step = "read"
      /\ DOMAIN tick'.rows \subseteq Tasks /\ tick'.at \in {"spawn", "idle"}
  BY <1>3, <1>4, SweepIs
<1>6. DispatchLimit \in Nat /\ DispatchLimit <= Limit  BY KanbanAssumption, LimitFacts
<1>7. TypeOK  BY DEF Inv
<1>8. /\ task' \in [Tasks -> Task]
      /\ \A t \in Tasks : /\ task'[t].lock = task[t].lock /\ task'[t].run = task[t].run
                          /\ task'[t].status = "running" => task[t].status = "running"
  BY <1>1, <1>6, <1>7, PromotedIs
<1>9. \A t \in Tasks : Pends(t)' <=> Pends(t)  BY <1>1, <1>5, NonePends DEF Pends
<1>10. Budget'  BY <1>1, <1>6, <1>9, PromotedBudget
<1>11. Pointers' /\ OpenRunIsCurrent' /\ SparesLive /\ ByItsWorker  BY <1>1, <1>8, RunsSame
<1>12. RunningIsHeld' /\ AfterParents  BY <1>8, HeldSame
<1>13. Ticking'  BY <1>5 DEF Ticking
<1>14. TypeOK'  BY <1>1, <1>5, <1>7, <1>8 DEF TypeOK
<1> QED  BY <1>10, <1>11, <1>12, <1>13, <1>14 DEF Kept, Inv

----------------------------------------------------------------------------
(* A claim: the task's run is the new one, and the one before is closed.   *)

LEMMA ClaimIs ==
  ASSUME Inv, NEW t \in Tasks, NEW lock \in Claims, Claim(t, lock)
  PROVE  /\ task' \in [Tasks -> Task] /\ \A u \in Tasks \ {t} : task'[u] = task[u]
         /\ task'[t].pid = task[t].pid /\ task'[t].failures = task[t].failures
         /\ task[t].status = "ready" /\ task'[t].status = "running"
         /\ runs' \in Seq(Run) /\ Len(runs') <= MaxRuns /\ DOMAIN runs \subseteq DOMAIN runs'
         /\ Len(runs') \in DOMAIN runs' \cap RunIds
         /\ Pointers' /\ OpenRunIsCurrent' /\ RunningIsHeld' /\ AfterParents /\ ByItsWorker
         /\ late' \subseteq late
<1> DEFINE rs == Ended(t, "reclaimed")
           x == [task |-> t, lock |-> lock, end |-> "open"]
           k == Len(runs) + 1
           y == [task[t] EXCEPT !.status = "running", !.lock = lock, !.run = k]
<1>1. TypeOK /\ Pointers /\ OpenRunIsCurrent /\ RunningIsHeld  BY DEF Inv
<1>2. runs \in Seq(Run) /\ Len(runs) \in Nat /\ task[t] \in Task /\ MaxRuns \in Nat
  BY <1>1, KanbanAssumption DEF TypeOK
<1>3. Claimable(t) /\ Len(runs) < MaxRuns /\ runs' = Append(rs, x) /\ late' = late \ {t}
  BY Zenon DEF Claim
<1>4. task' = [task EXCEPT ![t] = y]  BY DEF Claim
<1>5. ParentsFinished(t) /\ task[t].status = "ready"  BY <1>3 DEF Claimable
<1>6. k \in {0} \cup RunIds /\ lock \in Lock  BY <1>2, <1>3 DEF RunIds, Lock
<1> HIDE DEF k
<1>7. /\ y \in Task /\ y.status = "running" /\ y.lock = lock /\ y.run = k
      /\ y.pid = task[t].pid /\ y.failures = task[t].failures
  BY <1>2, <1>6 DEF Task, Statuses
<1>8. x \in Run /\ x.task = t /\ x.end = "open"  BY DEF Run, Lock, Ends
<1>9. /\ rs \in Seq(Run) /\ Len(rs) = Len(runs) /\ DOMAIN rs = DOMAIN runs
      /\ \A r \in DOMAIN runs :
           /\ rs[r].task = runs[r].task
           /\ rs[r].end = IF r = task[t].run /\ runs[r].end = "open" THEN "reclaimed" ELSE runs[r].end
  BY <1>1, EndedIs DEF Ends
<1> HIDE DEF rs, x, y
<1>10. /\ runs' \in Seq(Run) /\ Len(runs') = Len(rs) + 1
       /\ DOMAIN runs' = DOMAIN rs \cup {Len(rs) + 1} /\ Len(rs) + 1 \notin DOMAIN rs
       /\ \A r \in DOMAIN rs : runs'[r] = rs[r]
       /\ runs'[Len(rs) + 1] = x
  BY <1>3, <1>8, <1>9, AppendIs
<1>11. k \in Nat \ {0} /\ k <= MaxRuns /\ Len(runs') = k  BY <1>2, <1>3, <1>9, <1>10 DEF k
<1>12. /\ DOMAIN runs' = DOMAIN runs \cup {k} /\ k \notin DOMAIN runs /\ runs'[k] = x
       /\ \A r \in DOMAIN runs : runs'[r] = rs[r]
  BY <1>9, <1>10 DEF k
<1>13. task' \in [Tasks -> Task] /\ task'[t] = y /\ \A u \in Tasks \ {t} : task'[u] = task[u]
  BY <1>1, <1>4, <1>7, OneTask
<1>14. y.run = k  BY <1>7
<1>15. Pointers'  BY <1>1, <1>8, <1>9, <1>12, <1>13, <1>14 DEF Pointers
<1>16. OpenRunIsCurrent'
  <2> SUFFICES ASSUME NEW r \in DOMAIN runs', runs'[r].end = "open"
               PROVE  task'[runs'[r].task].run = r
    BY DEF OpenRunIsCurrent
  <2>1. CASE r = k  BY <1>8, <1>12, <1>13, <1>14, <2>1
  <2>2. CASE r # k
    <3>1. r \in DOMAIN runs /\ rs[r].end = "open" /\ runs'[r] = rs[r]  BY <1>12, <2>2
    <3>2. runs[r].end = "open" /\ r # task[t].run /\ rs[r].task = runs[r].task  BY <1>9, <3>1
    <3>3. task[runs[r].task].run = r  BY <1>1, <3>1, <3>2 DEF OpenRunIsCurrent
    <3>4. runs[r].task \in Tasks \ {t}  BY <3>1, <3>2, <3>3, RunsOfTasks
    <3> QED  BY <1>13, <3>1, <3>2, <3>3, <3>4
  <2> QED  BY <2>1, <2>2
<1>17. RunningIsHeld'
  BY <1>1, <1>7, <1>11, <1>13, <1>14, KanbanAssumption DEF RunningIsHeld, Running
<1>18. AfterParents  BY <1>5, <1>13 DEF AfterParents
<1>19. ByItsWorker  BY <1>9, <1>12 DEF ByItsWorker
<1> QED  BY <1>3, <1>5, <1>7, <1>10, <1>11, <1>12, <1>13, <1>15, <1>16, <1>17, <1>18, <1>19 DEF RunIds

(* A run is closed and its task still points to it.                        *)
LEMMA RunsClosed ==
  ASSUME Inv, NEW t \in Tasks, NEW how \in Ends \ {"open", "reported"}, runs' = Ended(t, how),
         \A u \in Tasks : task'[u].run = task[u].run
  PROVE  /\ runs' \in Seq(Run) /\ Len(runs') <= MaxRuns /\ DOMAIN runs \subseteq DOMAIN runs'
         /\ Pointers' /\ OpenRunIsCurrent' /\ ByItsWorker
<1>1. TypeOK /\ Pointers /\ OpenRunIsCurrent  BY DEF Inv
<1>2. /\ runs' \in Seq(Run) /\ Len(runs') = Len(runs) /\ DOMAIN runs' = DOMAIN runs
      /\ \A r \in DOMAIN runs :
           /\ runs'[r].task = runs[r].task
           /\ runs'[r].end = IF r = task[t].run /\ runs[r].end = "open" THEN how ELSE runs[r].end
  BY <1>1, EndedIs
<1>3. Pointers'  BY <1>1, <1>2 DEF Pointers
<1>4. OpenRunIsCurrent'
  <2> SUFFICES ASSUME NEW r \in DOMAIN runs, runs'[r].end = "open"
               PROVE  task'[runs'[r].task].run = r
    BY <1>2 DEF OpenRunIsCurrent
  <2>1. runs[r].end = "open"  BY <1>2
  <2>2. task[runs[r].task].run = r /\ runs[r].task \in Tasks
    BY <1>1, <2>1, RunsOfTasks DEF OpenRunIsCurrent
  <2> QED  BY <1>2, <2>2
<1>5. ByItsWorker  BY <1>2 DEF ByItsWorker
<1> QED  BY <1>1, <1>2, <1>3, <1>4, <1>5 DEF TypeOK

LEMMA ClaimRefusedIs ==
  ASSUME Inv, NEW t \in Tasks, ClaimRefused(t)
  PROVE  /\ task' \in [Tasks -> Task]
         /\ \A u \in Tasks :
              /\ task'[u].lock = task[u].lock /\ task'[u].pid = task[u].pid
              /\ task'[u].run = task[u].run /\ task'[u].failures = task[u].failures
              /\ \/ task'[u].status = task[u].status
                 \/ task'[u].status = "todo" /\ task[u].status = "ready"
         /\ runs' \in Seq(Run) /\ Len(runs') <= MaxRuns /\ DOMAIN runs \subseteq DOMAIN runs'
         /\ Pointers' /\ OpenRunIsCurrent' /\ RunningIsHeld' /\ AfterParents /\ ByItsWorker
         /\ late' = late
<1> DEFINE x == [task[t] EXCEPT !.status = "todo"]
<1>1. /\ TypeOK /\ task \in [Tasks -> Task] /\ task[t] \in Task
      /\ runs \in Seq(Run) /\ Len(runs) <= MaxRuns
  BY DEF Inv, TypeOK
<1>2. /\ x \in Task /\ x.status = "todo" /\ x.lock = task[t].lock /\ x.pid = task[t].pid
      /\ x.run = task[t].run /\ x.failures = task[t].failures
  BY <1>1 DEF Task, Statuses
<1>3. /\ late' = late
      /\ \/ task' = task /\ runs' = runs
         \/ task' = task /\ runs' = Ended(t, "reclaimed")
         \/ task' = [task EXCEPT ![t] = x] /\ runs' = runs /\ task[t].status = "ready"
  BY DEF ClaimRefused
<1> HIDE DEF x
<1>4. CASE runs' = runs /\ (task' = task \/ (task' = [task EXCEPT ![t] = x] /\ task[t].status = "ready"))
  <2>1. /\ task' \in [Tasks -> Task]
        /\ \A u \in Tasks :
             /\ task'[u].lock = task[u].lock /\ task'[u].pid = task[u].pid
             /\ task'[u].run = task[u].run /\ task'[u].failures = task[u].failures
             /\ \/ task'[u].status = task[u].status
                \/ task'[u].status = "todo" /\ task[u].status = "ready"
    <3>1. CASE task' = task  BY <1>1, <3>1
    <3>2. CASE task' = [task EXCEPT ![t] = x] /\ task[t].status = "ready"
      <4>1. task' \in [Tasks -> Task] /\ task'[t] = x /\ \A u \in Tasks \ {t} : task'[u] = task[u]
        BY <1>1, <1>2, <3>2, OneTask
      <4> QED  BY <1>2, <3>2, <4>1
    <3> QED  BY <1>4, <3>1, <3>2
  <2>2. Pointers' /\ OpenRunIsCurrent' /\ ByItsWorker  BY <1>4, <2>1, RunsSame
  <2>3. RunningIsHeld' /\ AfterParents  BY <2>1, HeldSame
  <2> QED  BY <1>1, <1>3, <1>4, <2>1, <2>2, <2>3
<1>5. CASE task' = task /\ runs' = Ended(t, "reclaimed")
  <2>1. /\ runs' \in Seq(Run) /\ Len(runs') <= MaxRuns /\ DOMAIN runs \subseteq DOMAIN runs'
        /\ Pointers' /\ OpenRunIsCurrent' /\ ByItsWorker
    BY <1>5, RunsClosed DEF Ends
  <2>2. RunningIsHeld' /\ AfterParents  BY <1>5, HeldSame
  <2> QED  BY <1>1, <1>3, <1>5, <2>1, <2>2
<1> QED  BY <1>3, <1>4, <1>5

LEMMA ClaimReadyKeeps ==
  ASSUME Inv, NEW t \in Tasks, ClaimReady(t)
  PROVE  Kept
<1>1. /\ Pending("spawn", t)
      /\ links' = links /\ alive' = alive /\ reclaim' = reclaim /\ after' = after
      /\ moves' = moves /\ faults' = faults /\ spent' = spent
  BY Zenon DEF ClaimReady
<1>2. /\ TypeOK /\ faults \in 0..MaxFaults /\ faults \in Nat /\ spent \in [Tasks -> Nat]
      /\ tick \in Tick /\ DOMAIN tick.rows \subseteq Tasks /\ late \subseteq Tasks
  BY KanbanAssumption DEF Inv, TypeOK
<1>3. tick.at = "spawn" /\ t \in DOMAIN tick.rows  BY <1>1 DEF Pending
<1>4. CASE Claim(t, GatewayLock) /\ tick' = [tick EXCEPT !.on = t, !.step = "claimed", !.run = Len(runs')]
  <2>1. GatewayLock \in Claims  BY <1>2 DEF GatewayLock, Claims
  <2>2. /\ task' \in [Tasks -> Task] /\ \A u \in Tasks \ {t} : task'[u] = task[u]
        /\ task'[t].pid = task[t].pid /\ task'[t].failures = task[t].failures
        /\ task[t].status = "ready" /\ task'[t].status = "running"
        /\ runs' \in Seq(Run) /\ Len(runs') <= MaxRuns /\ DOMAIN runs \subseteq DOMAIN runs'
        /\ Len(runs') \in DOMAIN runs' \cap RunIds
        /\ Pointers' /\ OpenRunIsCurrent' /\ RunningIsHeld' /\ AfterParents /\ ByItsWorker
        /\ late' \subseteq late
    BY <1>4, <2>1, ClaimIs
  <2>3. /\ tick'.at = "spawn" /\ tick'.rows = tick.rows /\ tick'.on = t /\ tick'.step = "claimed"
        /\ tick'.run = Len(runs')
    BY <1>2, <1>3, <1>4 DEF Tick
  <2>4. tick' \in Tick'
    <3> DEFINE n == Len(runs')
    <3>1. n \in RunIds /\ tick' = [tick EXCEPT !.on = t, !.step = "claimed", !.run = n]
      BY <1>4, <2>2
    <3> HIDE DEF n
    <3> QED  BY <1>2, <1>3, <3>1 DEF Tick
  <2>5. Ticking'  BY <2>2, <2>3 DEF Ticking
  <2>6. \A u \in Tasks : ~Pends(u) /\ ~Pends(u)'  BY <1>3, <2>3 DEF Pends
  <2>7. \A u \in Tasks : /\ task'[u].failures = task[u].failures
                         /\ task[u].status \in Stopped => task'[u].status \in Stopped
    BY <2>2 DEF Stopped
  <2>8. Budget'  BY <1>1, <1>2, <2>2, <2>6, <2>7, BudgetSame
  <2>9. SparesLive  BY <1>3, <2>3 DEF SparesLive
  <2>10. /\ links' \subseteq Tasks \X Tasks /\ alive' \subseteq DOMAIN runs' /\ late' \subseteq Tasks
         /\ reclaim' = NULL \/ (reclaim'.on \in Tasks /\ reclaim'.lock \in Lock')
         /\ after' \subseteq {"clear", "clear_recompute", "recompute"} \X Tasks
         /\ moves' \in 0..MaxMoves /\ faults' \in 0..MaxFaults
         /\ DOMAIN tick'.rows \subseteq Tasks /\ tick'.on \in DOMAIN tick'.rows \cup {NULL}
    BY <1>1, <1>2, <1>3, <2>2, <2>3 DEF TypeOK, Lock
  <2>11. TypeOK'  BY <1>1, <1>2, <2>2, <2>4, <2>10 DEF TypeOK
  <2> QED  BY <2>2, <2>5, <2>8, <2>9, <2>11 DEF Kept, Inv
<1>5. CASE ClaimRefused(t) /\ tick' = Without(t)
  <2>1. /\ task' \in [Tasks -> Task]
        /\ \A u \in Tasks :
             /\ task'[u].pid = task[u].pid /\ task'[u].failures = task[u].failures
             /\ \/ task'[u].status = task[u].status
                \/ task'[u].status = "todo" /\ task[u].status = "ready"
        /\ runs' \in Seq(Run) /\ Len(runs') <= MaxRuns /\ DOMAIN runs \subseteq DOMAIN runs'
        /\ Pointers' /\ OpenRunIsCurrent' /\ RunningIsHeld' /\ AfterParents /\ ByItsWorker
        /\ late' = late
    BY <1>5, ClaimRefusedIs
  <2>2. RowStep(t)  BY <1>1, <1>2, <1>5, <2>1 DEF RowStep
  <2>3. tick'.at \in {"spawn", "idle"}  BY <1>3, <1>5, WithoutIs
  <2>4. \A u \in Tasks : ~Pends(u) /\ ~Pends(u)'  BY <1>3, <2>3 DEF Pends
  <2>5. \A u \in Tasks : task[u].status \in Stopped => task'[u].status \in Stopped
    BY <2>1 DEF Stopped
  <2>6. Budget'  BY <1>1, <1>2, <2>1, <2>4, <2>5, BudgetSame
  <2>7. SparesLive  BY <1>3, <2>3 DEF SparesLive
  <2> QED  BY <1>1, <1>2, <2>1, <2>2, <2>6, <2>7, RowKeeps
<1> QED  BY <1>4, <1>5 DEF ClaimReady

----------------------------------------------------------------------------
(* The sweeps release a task.                                              *)

LEMMA ReleaseStaleKeeps ==
  ASSUME Inv, NEW t \in Tasks, ReleaseStale(t)
  PROVE  Kept
<1>1. /\ Working("stale", t, "killed") /\ tick' = Without(t)
      /\ links' = links /\ alive' = alive /\ reclaim' = reclaim /\ after' = after
      /\ moves' = moves /\ faults' = faults /\ spent' = spent /\ late' = late \ {t}
  BY Zenon DEF ReleaseStale
<1>2. /\ TypeOK /\ faults \in 0..MaxFaults /\ faults \in Nat /\ spent \in [Tasks -> Nat]
      /\ task \in [Tasks -> Task] /\ runs \in Seq(Run) /\ Len(runs) <= MaxRuns
  BY KanbanAssumption DEF Inv, TypeOK
<1>3. tick.at = "stale" /\ tick.on = t /\ t \in DOMAIN tick.rows
  BY <1>1, <1>2, KanbanAssumption DEF Working, TypeOK
<1>4. RowStep(t)  BY <1>1, <1>2 DEF RowStep
<1>5. tick'.at \in {"stale", "idle"}  BY <1>1, <1>3, WithoutIs
<1>6. \A u \in Tasks : ~Pends(u) /\ ~Pends(u)'  BY <1>3, <1>5 DEF Pends
<1>7. CASE /\ tick.rows[t].pid \notin alive /\ task[t].status = "running"
           /\ task' = [task EXCEPT ![t] = Freed(t, "ready")] /\ runs' = Ended(t, "reclaimed")
  <2>1. PICK x \in Task :
          /\ x = Freed(t, "ready") /\ x.status = "ready" /\ x.pid = 0 /\ x.run = 0
          /\ x.failures = task[t].failures
    BY <1>2, FreedIs DEF Statuses
  <2>2. task' \in [Tasks -> Task] /\ task'[t] = x /\ \A u \in Tasks \ {t} : task'[u] = task[u]
    BY <1>2, <1>7, <2>1, OneTask
  <2>3. /\ runs' \in Seq(Run) /\ Len(runs') <= MaxRuns /\ DOMAIN runs \subseteq DOMAIN runs'
        /\ Pointers' /\ OpenRunIsCurrent'
        /\ \A r \in DOMAIN runs : runs[r].end = "open" /\ runs'[r].end # "open" =>
             r = task[t].run /\ runs[r].task = t /\ runs'[r].end = "reclaimed"
    BY <1>7, <2>1, <2>2, RunsEnded DEF Ends
  <2>4. task[t].pid \in {0, tick.rows[t].pid}  BY <1>3 DEF Inv, Ticking
  <2>5. SparesLive
    <3> SUFFICES ASSUME NEW r \in alive, runs[r].end = "open", runs'[r].end # "open"
                 PROVE  task[runs[r].task].pid # r
      BY <1>1 DEF SparesLive
    <3>1. r \in DOMAIN runs  BY <1>2 DEF TypeOK
    <3>2. runs[r].task = t /\ r # 0  BY <2>3, <3>1, RunsOfTasks
    <3> QED  BY <1>7, <2>4, <3>2
  <2>6. ByItsWorker  BY <2>3 DEF ByItsWorker
  <2>7. RunningIsHeld' /\ AfterParents  BY <2>1, <2>2, HeldSame
  <2>8. \A u \in Tasks : /\ task'[u].failures = task[u].failures
                         /\ task[u].status \in Stopped => task'[u].status \in Stopped
    BY <1>7, <2>1, <2>2 DEF Stopped
  <2>9. Budget'  BY <1>1, <1>2, <1>6, <2>2, <2>8, BudgetSame
  <2>10. \A u \in Tasks : task'[u].pid \in {0, task[u].pid}  BY <2>1, <2>2
  <2> QED  BY <1>1, <1>2, <1>4, <2>2, <2>3, <2>5, <2>6, <2>7, <2>9, <2>10, RowKeeps
<1>8. CASE task' = task /\ runs' = runs
  <2>1. Pointers' /\ OpenRunIsCurrent' /\ SparesLive /\ ByItsWorker  BY <1>8, RunsSame
  <2>2. RunningIsHeld' /\ AfterParents  BY <1>8, HeldSame
  <2>3. Budget'  BY <1>1, <1>2, <1>6, <1>8, BudgetSame
  <2> QED  BY <1>1, <1>2, <1>4, <1>8, <2>1, <2>2, <2>3, RowKeeps
<1> QED  BY <1>7, <1>8 DEF ReleaseStale

LEMMA ReleaseOverdueKeeps ==
  ASSUME Inv, NEW t \in Tasks, ReleaseOverdue(t)
  PROVE  Kept
<1>1. /\ Working("timeout", t, "killed")
      /\ links' = links /\ alive' = alive /\ reclaim' = reclaim /\ after' = after
      /\ moves' = moves /\ faults' = faults /\ late' = late
  BY Zenon DEF ReleaseOverdue
<1>2. /\ TypeOK /\ faults \in 0..MaxFaults /\ faults \in Nat /\ spent \in [Tasks -> Nat]
      /\ task \in [Tasks -> Task] /\ runs \in Seq(Run) /\ Len(runs) <= MaxRuns
      /\ tick \in Tick /\ DOMAIN tick.rows \subseteq Tasks
      /\ tick.on \in DOMAIN tick.rows \cup {NULL}
  BY KanbanAssumption DEF Inv, TypeOK
<1>3. tick.at = "timeout" /\ tick.on = t /\ tick.step = "killed"  BY <1>1 DEF Working
<1>4. \A u \in Tasks : ~Pends(u)  BY <1>3 DEF Pends
<1>5. CASE /\ task[t].status = "running"
           /\ task' = [task EXCEPT ![t] = Freed(t, "ready")] /\ runs' = Ended(t, "failed")
           /\ tick' = [tick EXCEPT !.step = "released"] /\ Counted(t)
  <2>1. PICK x \in Task :
          /\ x = Freed(t, "ready") /\ x.status = "ready" /\ x.pid = 0 /\ x.run = 0
          /\ x.failures = task[t].failures
    BY <1>2, FreedIs DEF Statuses
  <2>2. task' \in [Tasks -> Task] /\ task'[t] = x /\ \A u \in Tasks \ {t} : task'[u] = task[u]
    BY <1>2, <1>5, <2>1, OneTask
  <2>3. /\ runs' \in Seq(Run) /\ Len(runs') <= MaxRuns /\ DOMAIN runs \subseteq DOMAIN runs'
        /\ Pointers' /\ OpenRunIsCurrent'
        /\ \A r \in DOMAIN runs : runs[r].end = "open" /\ runs'[r].end # "open" =>
             r = task[t].run /\ runs[r].task = t /\ runs'[r].end = "failed"
    BY <1>5, <2>1, <2>2, RunsEnded DEF Ends
  <2>4. /\ tick'.at = "timeout" /\ tick'.rows = tick.rows /\ tick'.on = t
        /\ tick'.step = "released" /\ tick' \in Tick'
    BY <1>2, <1>3, <1>5 DEF Tick
  <2>5. SparesLive  BY <1>3, <2>4 DEF SparesLive
  <2>6. ByItsWorker  BY <2>3 DEF ByItsWorker
  <2>7. RunningIsHeld' /\ AfterParents  BY <2>1, <2>2, HeldSame
  <2>8. Ticking'  BY <2>4 DEF Ticking
  <2>9. Pends(t)' /\ \A u \in Tasks \ {t} : ~Pends(u)'  BY <2>4 DEF Pends
  <2>10. /\ spent'[t] = spent[t] + 1 /\ spent' \in [Tasks -> Nat]
         /\ \A u \in Tasks \ {t} : spent'[u] = spent[u]
    BY <1>2, <1>5 DEF Counted
  <2>11. Budget'
    <3> SUFFICES ASSUME NEW u \in Tasks, spent'[u] # 0
                 PROVE  /\ spent'[u] <= Counts(u)' + (IF Pends(u)' THEN 1 ELSE 0) + faults'
                        /\ Pends(u)' => task'[u].status = "ready" /\ task'[u].run = 0
      BY DEF Budget
    <3>1. /\ task[u].failures \in Nat /\ spent[u] \in Nat /\ Limit \in Nat /\ Limit' = Limit
          /\ task'[u].failures = task[u].failures
      BY <1>2, <2>1, <2>2, LimitFacts DEF Task, Limit
    <3>2. spent[u] <= Counts(u) + faults
      <4>1. CASE spent[u] = 0  BY <1>2, <3>1, <4>1 DEF Counts
      <4>2. CASE spent[u] # 0
        <5>1. spent[u] <= Counts(u) + (IF Pends(u) THEN 1 ELSE 0) + faults
          BY <4>2 DEF Inv, Budget
        <5>2. Counts(u) \in Nat  BY <3>1 DEF Counts
        <5> QED  BY <1>2, <1>4, <5>1, <5>2
      <4> QED  BY <4>1, <4>2
    <3>3. Counts(u)' = Counts(u) /\ Counts(u) \in Nat
      BY <1>5, <2>1, <2>2, <3>1 DEF Counts, Stopped
    <3>4. CASE u = t  BY <1>1, <1>2, <2>1, <2>2, <2>9, <2>10, <3>1, <3>2, <3>3, <3>4
    <3>5. CASE u # t  BY <1>1, <1>2, <2>9, <2>10, <3>1, <3>2, <3>3, <3>5
    <3> QED  BY <3>4, <3>5
  <2>12. /\ links' \subseteq Tasks \X Tasks /\ alive' \subseteq DOMAIN runs' /\ late' \subseteq Tasks
         /\ reclaim' = NULL \/ (reclaim'.on \in Tasks /\ reclaim'.lock \in Lock')
         /\ after' \subseteq {"clear", "clear_recompute", "recompute"} \X Tasks
         /\ moves' \in 0..MaxMoves /\ faults' \in 0..MaxFaults
    BY <1>1, <1>2, <2>3 DEF TypeOK, Lock
  <2>14. DOMAIN tick'.rows \subseteq Tasks /\ tick'.on \in DOMAIN tick'.rows \cup {NULL}
    BY <1>2, <1>3, <2>4, <1>1 DEF Working
  <2>13. TypeOK'  BY <2>2, <2>3, <2>4, <2>10, <2>12, <2>14 DEF TypeOK
  <2> QED  BY <2>3, <2>5, <2>6, <2>7, <2>8, <2>11, <2>13 DEF Kept, Inv
<1>6. CASE task' = task /\ runs' = runs /\ spent' = spent /\ tick' = Without(t)
  <2>1. RowStep(t)  BY <1>1, <1>2, <1>6 DEF RowStep
  <2>2. \A u \in Tasks : ~Pends(u)'  BY <1>4, <1>6, RowPends
  <2>3. Pointers' /\ OpenRunIsCurrent' /\ SparesLive /\ ByItsWorker  BY <1>6, RunsSame
  <2>4. RunningIsHeld' /\ AfterParents  BY <1>6, HeldSame
  <2>5. Budget'  BY <1>1, <1>2, <1>4, <1>6, <2>2, BudgetSame
  <2> QED  BY <1>1, <1>2, <1>6, <2>1, <2>3, <2>4, <2>5, RowKeeps
<1> QED  BY <1>5, <1>6 DEF ReleaseOverdue

LEMMA SpawnFailsKeeps ==
  ASSUME Inv, NEW t \in Tasks, SpawnFails(t)
  PROVE  Kept
<1> DEFINE n    == task[t].failures + 1
           trip == n >= DispatchLimit
           hit  == task[t].status \in (IF trip THEN {"running", "ready"} ELSE {"running"})
           y    == [Freed(t, IF trip THEN "blocked" ELSE "ready") EXCEPT !.failures = n]
           z    == [task[t] EXCEPT !.run = 0]
<1>1. /\ TypeOK /\ faults \in 0..MaxFaults /\ faults \in Nat /\ spent \in [Tasks -> Nat]
      /\ task \in [Tasks -> Task] /\ task[t] \in Task /\ runs \in Seq(Run) /\ Len(runs) <= MaxRuns
      /\ MaxFaults \in Nat
  BY KanbanAssumption DEF Inv, TypeOK
<1>2. /\ tick' = Without(t) /\ links' = links /\ alive' = alive /\ reclaim' = reclaim
      /\ after' = after /\ moves' = moves /\ late' = late /\ runs' = Ended(t, "failed")
      /\ tick.step \in {"claimed", "started"} /\ Working("spawn", t, tick.step)
  BY Zenon DEF SpawnFails
<1>3. (faults < MaxFaults /\ faults' = faults + 1) \/ faults' = faults
  BY DEF SpawnFails
<1>4. faults' \in 0..MaxFaults /\ faults' >= faults /\ faults' \in Nat  BY <1>1, <1>3
<1>5. /\ task' = [task EXCEPT ![t] = IF hit THEN y ELSE [@ EXCEPT !.run = 0]]
      /\ IF hit THEN Counted(t) ELSE UNCHANGED spent
  BY Zenon DEF SpawnFails
<1>6. \/ task' = [task EXCEPT ![t] = y] /\ Counted(t) /\ hit
      \/ task' = [task EXCEPT ![t] = z] /\ spent' = spent /\ task[t].status # "running"
  <2>1. CASE hit  BY <1>5, <2>1
  <2>2. CASE ~hit  BY <1>1, <1>5, <2>2
  <2> QED  BY <2>1, <2>2
<1>7. tick.at = "spawn"  BY <1>2 DEF Working
<1>8. RowStep(t)  BY <1>2, <1>4 DEF RowStep
<1>9. tick'.at \in {"spawn", "idle"}  BY <1>2, <1>7, WithoutIs
<1>10. SparesLive /\ \A u \in Tasks : ~Pends(u) /\ ~Pends(u)'
  BY <1>7, <1>9 DEF Pends, SparesLive
<1>11. n \in Nat  BY <1>1 DEF Task
<1>12. z \in Task /\ z.run = 0 /\ z.status = task[t].status /\ z.lock = task[t].lock
       /\ z.failures = task[t].failures
  BY <1>1 DEF Task
<1> HIDE DEF y, z
<1>13. ASSUME NEW x \in Task, x.run = 0, task' = [task EXCEPT ![t] = x]
       PROVE  /\ task' \in [Tasks -> Task] /\ task'[t] = x
              /\ \A u \in Tasks \ {t} : task'[u] = task[u]
              /\ runs' \in Seq(Run) /\ Len(runs') <= MaxRuns /\ DOMAIN runs \subseteq DOMAIN runs'
              /\ Pointers' /\ OpenRunIsCurrent' /\ ByItsWorker
  <2>1. /\ task' \in [Tasks -> Task] /\ task'[t] = x
        /\ \A u \in Tasks \ {t} : task'[u] = task[u]
    BY <1>1, <1>13, OneTask
  <2>2. /\ runs' \in Seq(Run) /\ Len(runs') <= MaxRuns /\ DOMAIN runs \subseteq DOMAIN runs'
        /\ Pointers' /\ OpenRunIsCurrent'
        /\ \A r \in DOMAIN runs : runs[r].end = "open" /\ runs'[r].end # "open" =>
             r = task[t].run /\ runs[r].task = t /\ runs'[r].end = "failed"
    BY <1>2, <1>13, <2>1, RunsEnded DEF Ends
  <2>3. ByItsWorker  BY <2>2 DEF ByItsWorker
  <2> QED  BY <2>1, <2>2, <2>3
<1>14. CASE task' = [task EXCEPT ![t] = y] /\ Counted(t) /\ hit
  <2>1. PICK status \in {"blocked", "ready"} :
          /\ status = (IF trip THEN "blocked" ELSE "ready")
          /\ status = "ready" => n < DispatchLimit
    BY <1>11, KanbanAssumption
  <2>2. PICK f \in Task : /\ f = Freed(t, status) /\ f.status = status /\ f.lock = NULL
                          /\ f.pid = 0 /\ f.run = 0
    BY <1>1, FreedIs DEF Statuses
  <2>3. y = [f EXCEPT !.failures = n]  BY <2>1, <2>2 DEF y
  <2>4. y \in Task /\ y.status = status /\ y.run = 0 /\ y.failures = n
    BY <1>11, <2>2, <2>3 DEF Task
  <2>5. /\ task' \in [Tasks -> Task] /\ task'[t] = y
        /\ \A u \in Tasks \ {t} : task'[u] = task[u]
        /\ runs' \in Seq(Run) /\ Len(runs') <= MaxRuns /\ DOMAIN runs \subseteq DOMAIN runs'
        /\ Pointers' /\ OpenRunIsCurrent' /\ ByItsWorker
    BY <1>13, <1>14, <2>4
  <2>6. RunningIsHeld' /\ AfterParents  BY <2>4, <2>5, HeldSame
  <2>7. /\ spent'[t] = spent[t] + 1 /\ spent' \in [Tasks -> Nat]
        /\ \A u \in Tasks \ {t} : spent'[u] = spent[u]
    BY <1>1, <1>14 DEF Counted
  <2>8. task[t].status \in {"running", "ready"}  BY <1>14
  <2>9. Budget'
    <3> SUFFICES ASSUME NEW u \in Tasks, spent'[u] # 0
                 PROVE  /\ spent'[u] <= Counts(u)' + (IF Pends(u)' THEN 1 ELSE 0) + faults'
                        /\ Pends(u)' => task'[u].status = "ready" /\ task'[u].run = 0
      BY DEF Budget
    <3>1. /\ task[u].failures \in Nat /\ spent[u] \in Nat /\ Limit \in Nat \ {0} /\ Limit' = Limit
          /\ DispatchLimit \in Nat /\ DispatchLimit <= Limit
      BY <1>1, LimitFacts, KanbanAssumption DEF Task, Limit
    <3>2. spent[u] <= Counts(u) + faults /\ Counts(u) \in Nat
      <4>1. Counts(u) \in Nat  BY <3>1 DEF Counts
      <4>2. CASE spent[u] = 0  BY <1>1, <3>1, <4>1, <4>2
      <4>3. CASE spent[u] # 0
        <5>1. spent[u] <= Counts(u) + (IF Pends(u) THEN 1 ELSE 0) + faults
          BY <4>3 DEF Inv, Budget
        <5> QED  BY <1>1, <1>10, <4>1, <5>1
      <4> QED  BY <4>1, <4>2, <4>3
    <3>3. CASE u = t
      <4>1. Counts(t) + 1 <= Counts(t)' /\ Counts(t)' \in Nat
        BY <1>11, <2>1, <2>4, <2>5, <2>8, <3>1, <3>3 DEF Counts, Stopped
      <4>2. ~Pends(t)' /\ faults <= faults' /\ faults \in Nat /\ faults' \in Nat
        BY <1>1, <1>4, <1>10
      <4>3. spent'[t] <= Counts(t)' + faults'  BY <2>7, <3>1, <3>2, <3>3, <4>1, <4>2
      <4> QED  BY <3>3, <4>1, <4>2, <4>3
    <3>4. CASE u # t
      <4>1. Counts(u)' = Counts(u)  BY <2>5, <3>1, <3>4 DEF Counts
      <4> QED  BY <1>1, <1>4, <1>10, <2>7, <3>1, <3>2, <3>4, <4>1
    <3> QED  BY <3>3, <3>4
  <2>10. \A u \in Tasks : tick.at = "stale" => task'[u].pid \in {0, task[u].pid}  BY <1>7
  <2> QED  BY <1>8, <1>10, <2>5, <2>6, <2>7, <2>9, <2>10, RowKeeps
<1>15. CASE task' = [task EXCEPT ![t] = z] /\ spent' = spent /\ task[t].status # "running"
  <2>1. /\ task' \in [Tasks -> Task] /\ task'[t] = z
        /\ \A u \in Tasks \ {t} : task'[u] = task[u]
        /\ runs' \in Seq(Run) /\ Len(runs') <= MaxRuns /\ DOMAIN runs \subseteq DOMAIN runs'
        /\ Pointers' /\ OpenRunIsCurrent' /\ ByItsWorker
    BY <1>12, <1>13, <1>15
  <2>2. RunningIsHeld' /\ AfterParents  BY <1>12, <1>15, <2>1, HeldSame
  <2>3. \A u \in Tasks : /\ task'[u].failures = task[u].failures
                         /\ task[u].status \in Stopped => task'[u].status \in Stopped
    BY <1>12, <2>1
  <2>4. Budget'  BY <1>1, <1>4, <1>10, <1>15, <2>1, <2>3, BudgetSame
  <2>5. \A u \in Tasks : tick.at = "stale" => task'[u].pid \in {0, task[u].pid}  BY <1>7
  <2> QED  BY <1>1, <1>8, <1>10, <1>15, <2>1, <2>2, <2>4, <2>5, RowKeeps
<1> QED  BY <1>6, <1>14, <1>15

(* One transaction for every worker that has died.                         *)
LEMMA DetectCrashedKeeps ==
  ASSUME Inv, DetectCrashed
  PROVE  Kept
<1>1. /\ TypeOK /\ Pointers /\ OpenRunIsCurrent /\ faults \in Nat /\ spent \in [Tasks -> Nat]
      /\ task \in [Tasks -> Task] /\ runs \in Seq(Run) /\ Len(runs) <= MaxRuns
  BY KanbanAssumption DEF Inv, TypeOK
<1>2. /\ Swept({"idle", "stale"})
      /\ links' = links /\ alive' = alive /\ late' = late /\ reclaim' = reclaim
      /\ after' = after /\ moves' = moves /\ faults' = faults
  BY Zenon DEF DetectCrashed
<1> DEFINE Buried(gone, how) ==
     LET crashed == {t \in gone : how[t] = "failed"}
         charged == {t \in gone : how[t] # "rate_limited"}
     IN  /\ task' = [t \in Tasks |-> IF t \in gone THEN Freed(t, "ready") ELSE task[t]]
         /\ runs' = [r \in DOMAIN runs |->
              IF runs[r].end = "open" /\ \E t \in gone : task[t].run = r
              THEN [runs[r] EXCEPT !.end = how[runs[r].task]] ELSE runs[r]]
         /\ tick' = Sweep("crash", [t \in charged |->
              IF t \in crashed /\ Cardinality(crashed) >= SystemicCount THEN "systemic" ELSE how[t]])
         /\ spent' = [t \in Tasks |-> IF t \in crashed THEN spent[t] + 1 ELSE spent[t]]
<1>3. PICK dead \in SUBSET {t \in Running : task[t].pid # 0 /\ task[t].pid \notin alive} \ {{}} :
         \E how \in [dead -> {"failed", "violation", "rate_limited"}] : Buried(dead, how)
  BY Zenon DEF DetectCrashed
<1>4. PICK how \in [dead -> {"failed", "violation", "rate_limited"}] : Buried(dead, how)
  BY <1>3
<1> DEFINE crashed == {t \in dead : how[t] = "failed"}
           charged == {t \in dead : how[t] # "rate_limited"}
           rows == [t \in charged |->
             IF t \in crashed /\ Cardinality(crashed) >= SystemicCount THEN "systemic" ELSE how[t]]
           ended(r) == [runs[r] EXCEPT !.end = how[runs[r].task]]
           hit(r) == runs[r].end = "open" /\ \E t \in dead : task[t].run = r
<1>5. /\ task' = [t \in Tasks |-> IF t \in dead THEN Freed(t, "ready") ELSE task[t]]
      /\ runs' = [r \in DOMAIN runs |-> IF hit(r) THEN ended(r) ELSE runs[r]]
      /\ tick' = Sweep("crash", rows)
      /\ spent' = [t \in Tasks |-> IF t \in crashed THEN spent[t] + 1 ELSE spent[t]]
  BY <1>4
<1>6. /\ dead \subseteq Tasks /\ crashed \subseteq charged /\ charged \subseteq dead
      /\ \A t \in dead : task[t].status = "running" /\ task[t].pid # 0 /\ task[t].pid \notin alive
  BY <1>3 DEF Running
<1>7. \A t \in dead : how[t] \in {"failed", "violation", "rate_limited"}  BY <1>4
<1>8. /\ DOMAIN rows = charged
      /\ \A t \in charged : rows[t] \in {"failed", "systemic"} <=> t \in crashed
  BY <1>6, <1>7
<1>9. \A t \in crashed : t \in dead  OBVIOUS
<1> HIDE DEF crashed, charged, rows
<1>10. /\ tick' \in Tick' /\ tick'.on = NULL /\ tick'.step = "read"
       /\ DOMAIN tick'.rows = charged /\ tick'.at = "crash" /\ tick'.rows = rows
       /\ DOMAIN tick'.rows \subseteq Tasks
  BY <1>5, <1>6, <1>8, SweepIs
<1>11. Ticking'  BY <1>10 DEF Ticking
<1>12. \A t \in Tasks : /\ ~Pends(t) /\ (Pends(t)' <=> t \in crashed)
  BY <1>2, <1>6, <1>8, <1>10, NonePends DEF Pends
<1>13. /\ task' \in [Tasks -> Task] /\ \A u \in Tasks \ dead : task'[u] = task[u]
       /\ \A u \in dead : /\ task'[u].status = "ready" /\ task'[u].pid = 0 /\ task'[u].run = 0
                          /\ task'[u].failures = task[u].failures
  <2>1. ASSUME NEW u \in dead
        PROVE  /\ Freed(u, "ready") \in Task /\ Freed(u, "ready").status = "ready"
               /\ Freed(u, "ready").pid = 0 /\ Freed(u, "ready").run = 0
               /\ Freed(u, "ready").failures = task[u].failures
    BY <1>1, <1>6, FreedIs DEF Statuses
  <2> QED  BY <1>1, <1>5, <1>6, <2>1
<1>14. \A r \in DOMAIN runs : hit(r) =>
         /\ ended(r) \in Run /\ ended(r).task = runs[r].task
         /\ ended(r).end \in {"failed", "violation", "rate_limited"}
         /\ runs[r].task \in dead /\ task[runs[r].task].run = r
  <2> SUFFICES ASSUME NEW r \in DOMAIN runs, NEW t \in dead, task[t].run = r
               PROVE  /\ ended(r) \in Run /\ ended(r).task = runs[r].task
                      /\ ended(r).end \in {"failed", "violation", "rate_limited"}
                      /\ runs[r].task \in dead /\ task[runs[r].task].run = r
    OBVIOUS
  <2>1. runs[r] \in Run /\ r # 0  BY RunsOfTasks
  <2>2. runs[r].task = t  BY <1>1, <1>6, <2>1 DEF Pointers
  <2>3. how[t] \in Ends  BY <1>7 DEF Ends
  <2>4. ended(r) = [runs[r] EXCEPT !.end = how[t]]  BY <2>2
  <2> DEFINE e == how[t]
  <2>5. e \in Ends /\ ended(r) = [runs[r] EXCEPT !.end = e] /\ e \in {"failed", "violation", "rate_limited"}
    BY <1>7, <2>3, <2>4
  <2> HIDE DEF e, ended
  <2> QED  BY <2>1, <2>2, <2>5 DEF Run
<1> HIDE DEF ended, hit
<1>15. /\ DOMAIN runs' = DOMAIN runs
       /\ \A r \in DOMAIN runs : runs'[r] = IF hit(r) THEN ended(r) ELSE runs[r]
  BY <1>5
<1>16. runs' \in Seq(Run) /\ Len(runs') <= MaxRuns
  <2>1. Len(runs) \in Nat /\ DOMAIN runs = 1..Len(runs)  BY <1>1
  <2>2. \A r \in DOMAIN runs : runs'[r] \in Run  BY <1>14, <1>15, RunsOfTasks
  <2>3. runs' = [r \in 1..Len(runs) |-> runs'[r]]  BY <1>5, <2>1
  <2>4. runs' \in Seq(Run) /\ Len(runs') = Len(runs)
    BY <1>5, <1>15, <2>1, <2>2, <2>3
  <2> QED  BY <1>1, <2>4
<1>17. Pointers'  BY <1>1, <1>13, <1>14, <1>15 DEF Pointers
<1>18. \A r \in DOMAIN runs :
         runs[r].end = "open" /\ task[runs[r].task].run = r /\ runs[r].task \in dead => hit(r)
  BY DEF hit
<1>19. OpenRunIsCurrent'
  <2> SUFFICES ASSUME NEW r \in DOMAIN runs, runs'[r].end = "open"
               PROVE  task'[runs'[r].task].run = r
    BY <1>15 DEF OpenRunIsCurrent
  <2>1. ~hit(r) /\ runs'[r] = runs[r]  BY <1>14, <1>15
  <2>2. task[runs[r].task].run = r /\ runs[r].task \in Tasks
    BY <1>1, <2>1, RunsOfTasks DEF OpenRunIsCurrent
  <2>3. runs[r].task \notin dead  BY <1>18, <2>1, <2>2
  <2> QED  BY <1>13, <2>1, <2>2, <2>3
<1>20. SparesLive
  <2> SUFFICES ASSUME NEW r \in alive, runs[r].end = "open", runs'[r].end # "open"
               PROVE  task[runs[r].task].pid # r
    BY <1>2 DEF SparesLive
  <2>1. r \in DOMAIN runs  BY <1>1 DEF TypeOK
  <2>2. hit(r)  BY <1>15, <2>1
  <2> QED  BY <1>6, <1>14, <2>1, <2>2
<1>21. ByItsWorker  BY <1>14, <1>15 DEF ByItsWorker
<1>22. RunningIsHeld' /\ AfterParents  BY <1>13, HeldSame
<1>23. /\ spent' \in [Tasks -> Nat]
       /\ \A u \in Tasks : spent'[u] = IF u \in crashed THEN spent[u] + 1 ELSE spent[u]
  BY <1>1, <1>5
<1>24. Budget'
  <2> SUFFICES ASSUME NEW u \in Tasks, spent'[u] # 0
               PROVE  /\ spent'[u] <= Counts(u)' + (IF Pends(u)' THEN 1 ELSE 0) + faults'
                      /\ Pends(u)' => task'[u].status = "ready" /\ task'[u].run = 0
    BY DEF Budget
  <2>1. /\ task[u].failures \in Nat /\ spent[u] \in Nat /\ Limit \in Nat /\ Limit' = Limit
        /\ task'[u].failures = task[u].failures
    BY <1>1, <1>13, LimitFacts DEF Task, Limit
  <2>2. Counts(u) \in Nat  BY <2>1 DEF Counts
  <2>3. spent[u] <= Counts(u) + faults
    <3>1. CASE spent[u] = 0  BY <1>1, <2>1, <2>2, <3>1
    <3>2. CASE spent[u] # 0
      <4>1. spent[u] <= Counts(u) + (IF Pends(u) THEN 1 ELSE 0) + faults
        BY <3>2 DEF Inv, Budget
      <4> QED  BY <1>1, <1>12, <2>2, <4>1
    <3> QED  BY <3>1, <3>2
  <2>4. Counts(u)' = Counts(u)  BY <1>6, <1>13, <2>1 DEF Counts, Stopped
  <2>5. CASE u \in crashed
    <3>1. Pends(u)' /\ spent'[u] = spent[u] + 1  BY <1>12, <1>23, <2>5
    <3>2. task'[u].status = "ready" /\ task'[u].run = 0  BY <1>9, <1>13, <2>5
    <3> QED  BY <1>1, <1>2, <2>1, <2>2, <2>3, <2>4, <3>1, <3>2
  <2>6. CASE u \notin crashed
    <3>1. ~Pends(u)' /\ spent'[u] = spent[u]  BY <1>12, <1>23, <2>6
    <3> QED  BY <1>1, <1>2, <2>1, <2>2, <2>3, <2>4, <3>1
  <2> QED  BY <2>5, <2>6
<1>25. /\ links' \subseteq Tasks \X Tasks /\ alive' \subseteq DOMAIN runs' /\ late' \subseteq Tasks
       /\ reclaim' = NULL \/ (reclaim'.on \in Tasks /\ reclaim'.lock \in Lock')
       /\ after' \subseteq {"clear", "clear_recompute", "recompute"} \X Tasks
       /\ moves' \in 0..MaxMoves /\ faults' \in 0..MaxFaults
  BY <1>1, <1>2, <1>15 DEF TypeOK, Lock
<1>26. tick'.on \in DOMAIN tick'.rows \cup {NULL}  BY <1>10
<1>27. TypeOK'  BY <1>10, <1>13, <1>16, <1>23, <1>25, <1>26 DEF TypeOK
<1> QED  BY <1>11, <1>17, <1>19, <1>20, <1>21, <1>22, <1>24, <1>27 DEF Kept, Inv

----------------------------------------------------------------------------
(* Steps beside the tick: workers' reports, operators, and what follows.   *)

Follows == {"clear", "clear_recompute", "recompute"}

LEMMA QuietKeeps ==
  ASSUME Inv, tick' = tick, faults' = faults, moves' \in 0..MaxMoves,
         task' \in [Tasks -> Task], \A u \in Tasks : task'[u].pid \in {0, task[u].pid},
         runs' \in Seq(Run), Len(runs') <= MaxRuns, DOMAIN runs \subseteq DOMAIN runs',
         links' \subseteq Tasks \X Tasks, alive' \subseteq alive, late' \subseteq late,
         reclaim' = NULL \/ (reclaim'.on \in Tasks /\ reclaim'.lock \in Lock),
         after' \subseteq Follows \X Tasks, spent' \in [Tasks -> Nat],
         Pointers', OpenRunIsCurrent', RunningIsHeld', Budget', ByItsWorker, AfterParents
  PROVE  Kept
<1>1. tick' \in Tick' /\ Ticking'  BY TickSame
<1>2. /\ alive \subseteq DOMAIN runs /\ late \subseteq Tasks /\ faults \in 0..MaxFaults
      /\ DOMAIN tick.rows \subseteq Tasks /\ tick.on \in DOMAIN tick.rows \cup {NULL}
  BY DEF Inv, TypeOK
<1>3. TypeOK'  BY <1>1, <1>2 DEF TypeOK, Follows, Lock
<1>4. SparesLive  BY DEF SparesLive
<1> QED  BY <1>1, <1>3, <1>4 DEF Kept, Inv

LEMMA MoveKeeps ==
  ASSUME Inv, Move,
         task' \in [Tasks -> Task], \A u \in Tasks : task'[u].pid \in {0, task[u].pid},
         runs' \in Seq(Run), Len(runs') <= MaxRuns, DOMAIN runs \subseteq DOMAIN runs',
         links' \subseteq Tasks \X Tasks, alive' \subseteq alive, late' \subseteq late,
         reclaim' = NULL \/ (reclaim'.on \in Tasks /\ reclaim'.lock \in Lock),
         after' \subseteq Follows \X Tasks,
         Pointers', OpenRunIsCurrent', RunningIsHeld', AfterParents
  PROVE  Kept
<1>1. /\ tick' = tick /\ faults' = faults /\ moves < MaxMoves /\ moves' = moves + 1
      /\ spent' = [t \in Tasks |-> 0]
  BY DEF Move
<1>2. moves \in 0..MaxMoves /\ MaxMoves \in Nat  BY KanbanAssumption DEF Inv, TypeOK
<1>3. moves' \in 0..MaxMoves /\ moves' # moves  BY <1>1, <1>2
<1>4. spent' \in [Tasks -> Nat] /\ Budget'  BY <1>1 DEF Budget
<1>5. ByItsWorker  BY <1>3 DEF ByItsWorker
<1> QED  BY <1>1, <1>3, <1>4, <1>5, QuietKeeps

LEMMA Standing ==
  ASSUME Inv
  PROVE  /\ TypeOK /\ task \in [Tasks -> Task] /\ links \subseteq Tasks \X Tasks
         /\ runs \in Seq(Run) /\ Len(runs) <= MaxRuns
         /\ reclaim = NULL \/ (reclaim.on \in Tasks /\ reclaim.lock \in Lock)
         /\ after \subseteq Follows \X Tasks /\ spent \in [Tasks -> Nat]
         /\ moves \in 0..MaxMoves /\ faults \in Nat
BY KanbanAssumption DEF Inv, TypeOK, Follows

(* complete_task and block_task: the task is released and its run closed.  *)
LEMMA ReportedIs ==
  ASSUME Inv, NEW t \in Tasks, Complete(t) \/ Block(t)
  PROVE  /\ task' \in [Tasks -> Task] /\ \A u \in Tasks \ {t} : task'[u] = task[u]
         /\ task'[t].run = 0 /\ task'[t].pid = 0 /\ task'[t].status # "running"
         /\ task'[t].failures = task[t].failures
         /\ task[t].status \in Stopped => task'[t].status \in Stopped
         /\ runs' \in EndedOrNoted(t, "reported")
         /\ after' \subseteq Follows \X Tasks
<1>1. /\ TypeOK /\ task \in [Tasks -> Task] /\ task[t] \in Task /\ BlockLimit \in Nat \ {0}
      /\ after \subseteq Follows \X Tasks
  BY Standing, KanbanAssumption
<1>2. ASSUME NEW x \in Task, task' = [task EXCEPT ![t] = x],
             x.run = 0, x.pid = 0, x.status # "running", x.failures = task[t].failures,
             task[t].status \in Stopped => x.status \in Stopped
      PROVE  /\ task' \in [Tasks -> Task] /\ \A u \in Tasks \ {t} : task'[u] = task[u]
             /\ task'[t].run = 0 /\ task'[t].pid = 0 /\ task'[t].status # "running"
             /\ task'[t].failures = task[t].failures
             /\ task[t].status \in Stopped => task'[t].status \in Stopped
  <2>1. /\ task' \in [Tasks -> Task] /\ task'[t] = x
        /\ \A u \in Tasks \ {t} : task'[u] = task[u]
    BY <1>1, <1>2, OneTask
  <2> QED  BY <1>2, <2>1
<1>3. ASSUME NEW status \in {"done", "todo", "blocked", "triage"}, NEW again \in 0..BlockLimit,
             NEW x, x = [Freed(t, status) EXCEPT !.again = again]
      PROVE  /\ x \in Task /\ x.run = 0 /\ x.pid = 0 /\ x.status = status
             /\ x.failures = task[t].failures
  <2>1. PICK f \in Task : /\ f = Freed(t, status) /\ f.status = status /\ f.pid = 0 /\ f.run = 0
                          /\ f.failures = task[t].failures
    BY <1>1, FreedIs DEF Statuses
  <2>2. x = [f EXCEPT !.again = again]  BY <1>3, <2>1
  <2> QED  BY <1>1, <2>1, <2>2 DEF Task
<1>4. CASE Complete(t)
  <2> DEFINE x == [Freed(t, "done") EXCEPT !.again = 0]
  <2>1. /\ task' = [task EXCEPT ![t] = x] /\ runs' \in EndedOrNoted(t, "reported")
        /\ after' = after \cup {<<"clear_recompute", t>>}
    BY <1>4 DEF Complete
  <2>2. 0 \in 0..BlockLimit /\ "done" \in {"done", "todo", "blocked", "triage"}  BY <1>1
  <2>3. /\ x \in Task /\ x.run = 0 /\ x.pid = 0 /\ x.status = "done"
        /\ x.failures = task[t].failures
    BY <1>3, <2>2
  <2> HIDE DEF x
  <2>4. x.status # "running" /\ (task[t].status \in Stopped => x.status \in Stopped)
    BY <2>3 DEF Stopped
  <2>5. /\ task' \in [Tasks -> Task] /\ \A u \in Tasks \ {t} : task'[u] = task[u]
        /\ task'[t].run = 0 /\ task'[t].pid = 0 /\ task'[t].status # "running"
        /\ task'[t].failures = task[t].failures
        /\ task[t].status \in Stopped => task'[t].status \in Stopped
    BY <1>2, <2>1, <2>3, <2>4
  <2>6. after' \subseteq Follows \X Tasks  BY <1>1, <2>1 DEF Follows
  <2> QED  BY <2>1, <2>5, <2>6
<1>5. CASE Block(t)
  <2>1. /\ task[t].status \in {"running", "ready"}
        /\ runs' \in EndedOrNoted(t, "reported") /\ after' = after
    BY Zenon, <1>5 DEF Block
  <2>2. task[t].again \in 0..BlockLimit  BY <1>1 DEF Task
  <2>3. task[t].status \notin Stopped  BY <2>1 DEF Stopped
  <2> DEFINE Blocked(status, again) ==
        \/ task' = [task EXCEPT ![t] = [Freed(t, status) EXCEPT !.again = again]]
        \/ task' = [task EXCEPT ![t] = [Freed(t, status) EXCEPT !.again = again, !.sticky = TRUE]]
  <2>4. PICK status \in {"todo", "blocked", "triage"}, again \in 0..BlockLimit : Blocked(status, again)
    <3>1. CASE task' = [task EXCEPT ![t] = [Freed(t, "todo") EXCEPT !.again = 0]]
      <4>1. 0 \in 0..BlockLimit  BY <1>1
      <4> QED  BY <3>1, <4>1
    <3>2. ASSUME NEW n \in {1, task[t].again + 1},
                 task' = [task EXCEPT ![t] =
                   IF n < BlockLimit THEN [Freed(t, "blocked") EXCEPT !.again = n, !.sticky = TRUE]
                   ELSE [Freed(t, "triage") EXCEPT !.again = BlockLimit]]
          PROVE  \E status \in {"todo", "blocked", "triage"}, again \in 0..BlockLimit :
                   Blocked(status, again)
      <4>1. CASE n < BlockLimit
        <5>1. n \in 0..BlockLimit  BY <1>1, <2>2, <4>1
        <5>2. task' = [task EXCEPT ![t] = [Freed(t, "blocked") EXCEPT !.again = n, !.sticky = TRUE]]
          BY <3>2, <4>1
        <5> QED  BY <5>1, <5>2
      <4>2. CASE ~(n < BlockLimit)
        <5>1. task' = [task EXCEPT ![t] = [Freed(t, "triage") EXCEPT !.again = BlockLimit]]
          BY <3>2, <4>2
        <5>2. BlockLimit \in 0..BlockLimit  BY <1>1
        <5> QED  BY <5>1, <5>2
      <4> QED  BY <4>1, <4>2
    <3>3. \/ task' = [task EXCEPT ![t] = [Freed(t, "todo") EXCEPT !.again = 0]]
          \/ \E n \in {1, task[t].again + 1} :
               task' = [task EXCEPT ![t] =
                 IF n < BlockLimit THEN [Freed(t, "blocked") EXCEPT !.again = n, !.sticky = TRUE]
                 ELSE [Freed(t, "triage") EXCEPT !.again = BlockLimit]]
      BY Zenon, <1>5 DEF Block
    <3> QED  BY <3>1, <3>2, <3>3
  <2>5. PICK x : /\ task' = [task EXCEPT ![t] = x]
                 /\ \/ x = [Freed(t, status) EXCEPT !.again = again]
                    \/ x = [Freed(t, status) EXCEPT !.again = again, !.sticky = TRUE]
    BY <2>4
  <2>6. /\ x \in Task /\ x.run = 0 /\ x.pid = 0 /\ x.status \notin {"running"}
        /\ x.failures = task[t].failures
    <3>1. status \in {"done", "todo", "blocked", "triage"} /\ status # "running"  BY <2>4
    <3>2. /\ x \in Task /\ x.run = 0 /\ x.pid = 0 /\ x.status = status
          /\ x.failures = task[t].failures
      <4>1. CASE x = [Freed(t, status) EXCEPT !.again = again]  BY <1>3, <3>1, <4>1
      <4>2. CASE x = [Freed(t, status) EXCEPT !.again = again, !.sticky = TRUE]
        <5>1. PICK f \in Task : /\ f = Freed(t, status) /\ f.status = status /\ f.pid = 0
                                /\ f.run = 0 /\ f.failures = task[t].failures
          BY <1>1, <3>1, FreedIs DEF Statuses
        <5>2. x = [f EXCEPT !.again = again, !.sticky = TRUE]  BY <4>2, <5>1
        <5> QED  BY <1>1, <5>1, <5>2 DEF Task
      <4> QED  BY <2>5, <4>1, <4>2
    <3> QED  BY <3>1, <3>2
  <2>7. /\ task' \in [Tasks -> Task] /\ \A u \in Tasks \ {t} : task'[u] = task[u]
        /\ task'[t].run = 0 /\ task'[t].pid = 0 /\ task'[t].status # "running"
        /\ task'[t].failures = task[t].failures
        /\ task[t].status \in Stopped => task'[t].status \in Stopped
    BY <1>2, <2>3, <2>5, <2>6
  <2> QED  BY <1>1, <2>1, <2>7
<1> QED  BY <1>4, <1>5

LEMMA ReportKeeps ==
  ASSUME Inv, NEW r \in RunIds, Report(r)
  PROVE  Kept
<1>1. /\ TypeOK /\ task \in [Tasks -> Task] /\ faults \in Nat /\ spent \in [Tasks -> Nat]
      /\ links \subseteq Tasks \X Tasks /\ moves \in 0..MaxMoves
      /\ reclaim = NULL \/ (reclaim.on \in Tasks /\ reclaim.lock \in Lock)
  BY Standing
<1>2. /\ r \in alive /\ ExpectedRun(r)
      /\ Complete(Mine(r)) \/ Block(Mine(r))
      /\ links' = links /\ alive' = alive /\ tick' = tick /\ late' = late /\ reclaim' = reclaim
      /\ moves' = moves /\ faults' = faults /\ spent' = spent
  BY Zenon DEF Report
<1>3. r \in DOMAIN runs /\ alive \subseteq DOMAIN runs  BY <1>1, <1>2 DEF TypeOK
<1>4. PICK t \in Tasks : t = Mine(r)  BY <1>3, RunsOfTasks DEF Mine
<1>5. r # 0 /\ task[t].run = r  BY <1>2, <1>3, <1>4, RunsOfTasks DEF ExpectedRun
<1>6. Complete(t) \/ Block(t)  BY <1>2, <1>4
<1>7. /\ task' \in [Tasks -> Task] /\ \A u \in Tasks \ {t} : task'[u] = task[u]
      /\ task'[t].run = 0 /\ task'[t].pid = 0 /\ task'[t].status # "running"
      /\ task'[t].failures = task[t].failures
      /\ task[t].status \in Stopped => task'[t].status \in Stopped
      /\ runs' \in EndedOrNoted(t, "reported")
      /\ after' \subseteq Follows \X Tasks
  BY <1>6, ReportedIs
<1>8. /\ runs' \in Seq(Run) /\ Len(runs') <= MaxRuns /\ DOMAIN runs \subseteq DOMAIN runs'
      /\ Pointers' /\ OpenRunIsCurrent'
      /\ \A q \in DOMAIN runs : runs[q].end = "open" /\ runs'[q].end # "open" =>
           q = task[t].run /\ runs[q].task = t /\ runs'[q].end = "reported"
  BY <1>7, RunsEnded DEF Ends
<1>9. ByItsWorker  BY <1>2, <1>5, <1>8 DEF ByItsWorker
<1>10. RunningIsHeld' /\ AfterParents  BY <1>7, HeldSame
<1>11. \A u \in Tasks : Pends(u)' <=> Pends(u)  BY <1>2 DEF Pends
<1>12. spent[t] # 0 => ~Pends(t)  BY <1>5 DEF Inv, Budget
<1>13. Budget'
  <2>1. \A u \in Tasks :
          \/ spent'[u] = 0
          \/ /\ spent'[u] = spent[u] /\ task'[u].failures = task[u].failures
             /\ Pends(u)' <=> Pends(u)
             /\ Pends(u) => task'[u].status = task[u].status /\ task'[u].run = task[u].run
             /\ \/ task[u].failures < Limit
                \/ task[u].status \in Stopped => task'[u].status \in Stopped
    BY <1>2, <1>7, <1>11, <1>12
  <2> QED  BY <1>1, <1>2, <1>7, <2>1, BudgetSame
<1>14. \A u \in Tasks : task'[u].pid \in {0, task[u].pid}  BY <1>7
<1> QED  BY <1>1, <1>2, <1>7, <1>8, <1>9, <1>10, <1>13, <1>14, QuietKeeps

LEMMA ClaimByHandKeeps ==
  ASSUME Inv, NEW t \in Tasks, ClaimByHand(t)
  PROVE  Kept
<1> DEFINE lock == [by |-> "terminal", n |-> Len(runs) + 1]
<1>1. /\ Move
      /\ Claim(t, lock) \/ ClaimRefused(t)
      /\ links' = links /\ alive' = alive /\ reclaim' = reclaim /\ after' = after
  BY Zenon DEF ClaimByHand
<1>2. /\ TypeOK /\ task \in [Tasks -> Task] /\ runs \in Seq(Run)
      /\ links \subseteq Tasks \X Tasks /\ after \subseteq Follows \X Tasks
      /\ reclaim = NULL \/ (reclaim.on \in Tasks /\ reclaim.lock \in Lock)
  BY Standing
<1>3. lock \in Claims  BY <1>2 DEF Claims
<1> HIDE DEF lock
<1>4. /\ task' \in [Tasks -> Task] /\ \A u \in Tasks : task'[u].pid = task[u].pid
      /\ runs' \in Seq(Run) /\ Len(runs') <= MaxRuns /\ DOMAIN runs \subseteq DOMAIN runs'
      /\ Pointers' /\ OpenRunIsCurrent' /\ RunningIsHeld' /\ AfterParents
      /\ late' \subseteq late
  <2>1. CASE Claim(t, lock)
    <3>1. /\ task' \in [Tasks -> Task] /\ \A u \in Tasks \ {t} : task'[u] = task[u]
          /\ task'[t].pid = task[t].pid
          /\ runs' \in Seq(Run) /\ Len(runs') <= MaxRuns /\ DOMAIN runs \subseteq DOMAIN runs'
          /\ Pointers' /\ OpenRunIsCurrent' /\ RunningIsHeld' /\ AfterParents
          /\ late' \subseteq late
      BY <1>3, <2>1, ClaimIs
    <3> QED  BY <3>1
  <2>2. CASE ClaimRefused(t)  BY <2>2, ClaimRefusedIs
  <2> QED  BY <1>1, <2>1, <2>2
<1> QED  BY <1>1, <1>2, <1>4, MoveKeeps

(* A card leaves its column: released, its run closed.                     *)
LEMMA MovedOut ==
  ASSUME Inv, Move, NEW t \in Tasks, NEW how \in Ends \ {"open"},
         runs' = Ended(t, how) \/ runs' \in EndedOrNoted(t, how),
         task' \in [Tasks -> Task],
         task'[t].run = 0, task'[t].status # "running",
         \A u \in Tasks : task'[u].pid \in {0, task[u].pid},
         \A u \in Tasks \ {t} :
           /\ task'[u].run = task[u].run /\ task'[u].lock = task[u].lock
           /\ task'[u].status = "running" => task[u].status = "running",
         links' = links, alive' = alive, late' = late, reclaim' = reclaim,
         after' \subseteq Follows \X Tasks
  PROVE  Kept
<1>1. /\ runs' \in Seq(Run) /\ Len(runs') <= MaxRuns /\ DOMAIN runs \subseteq DOMAIN runs'
      /\ Pointers' /\ OpenRunIsCurrent'
  BY RunsEnded
<1>2. RunningIsHeld' /\ AfterParents  BY HeldSame
<1>3. /\ links \subseteq Tasks \X Tasks
      /\ reclaim = NULL \/ (reclaim.on \in Tasks /\ reclaim.lock \in Lock)
  BY Standing
<1> QED  BY <1>1, <1>2, <1>3, MoveKeeps

LEMMA CompleteOrBlockKeeps ==
  ASSUME Inv, NEW t \in Tasks, CompleteByHand(t) \/ BlockByHand(t)
  PROVE  Kept
<1>1. /\ Move
      /\ Complete(t) \/ Block(t)
      /\ links' = links /\ alive' = alive /\ late' = late /\ reclaim' = reclaim
  BY Zenon DEF CompleteByHand, BlockByHand
<1>2. /\ task' \in [Tasks -> Task] /\ \A u \in Tasks \ {t} : task'[u] = task[u]
      /\ task'[t].run = 0 /\ task'[t].pid = 0 /\ task'[t].status # "running"
      /\ runs' \in EndedOrNoted(t, "reported") /\ after' \subseteq Follows \X Tasks
  BY <1>1, ReportedIs
<1>3. "reported" \in Ends \ {"open"}  BY DEF Ends
<1>4. \A u \in Tasks : task'[u].pid \in {0, task[u].pid}  BY <1>2
<1> QED  BY <1>1, <1>2, <1>3, <1>4, MovedOut

LEMMA ScheduleKeeps ==
  ASSUME Inv, NEW t \in Tasks, Schedule(t)
  PROVE  Kept
<1>1. /\ Move /\ task' = [task EXCEPT ![t] = Freed(t, "scheduled")]
      /\ runs' \in EndedOrNoted(t, "reported")
      /\ links' = links /\ alive' = alive /\ late' = late /\ reclaim' = reclaim /\ after' = after
  BY Zenon DEF Schedule
<1>2. TypeOK /\ after \subseteq Follows \X Tasks  BY Standing
<1>3. PICK x \in Task : /\ x = Freed(t, "scheduled") /\ x.status = "scheduled"
                        /\ x.pid = 0 /\ x.run = 0
  BY <1>2, FreedIs DEF Statuses
<1>4. task' \in [Tasks -> Task] /\ task'[t] = x /\ \A u \in Tasks \ {t} : task'[u] = task[u]
  BY <1>1, <1>2, <1>3, OneTask
<1>5. "reported" \in Ends \ {"open"}  BY DEF Ends
<1>6. \A u \in Tasks : task'[u].pid \in {0, task[u].pid}  BY <1>3, <1>4
<1> QED  BY <1>1, <1>2, <1>3, <1>4, <1>5, <1>6, MovedOut

LEMMA ArchiveKeeps ==
  ASSUME Inv, NEW t \in Tasks, Archive(t)
  PROVE  Kept
<1>1. /\ Move /\ task' = [task EXCEPT ![t] = Freed(t, "archived")]
      /\ runs' = Ended(t, "reclaimed") /\ after' = after \cup {<<"recompute", t>>}
      /\ links' = links /\ alive' = alive /\ late' = late /\ reclaim' = reclaim
  BY Zenon DEF Archive
<1>2. TypeOK /\ after \subseteq Follows \X Tasks  BY Standing
<1>3. PICK x \in Task : /\ x = Freed(t, "archived") /\ x.status = "archived"
                        /\ x.pid = 0 /\ x.run = 0
  BY <1>2, FreedIs DEF Statuses
<1>4. task' \in [Tasks -> Task] /\ task'[t] = x /\ \A u \in Tasks \ {t} : task'[u] = task[u]
  BY <1>1, <1>2, <1>3, OneTask
<1>5. "reclaimed" \in Ends \ {"open"}  BY DEF Ends
<1>6. \A u \in Tasks : task'[u].pid \in {0, task[u].pid}  BY <1>3, <1>4
<1>7. after' \subseteq Follows \X Tasks  BY <1>1, <1>2 DEF Follows
<1> QED  BY <1>1, <1>3, <1>4, <1>5, <1>6, <1>7, MovedOut

LEMMA UnblockKeeps ==
  ASSUME Inv, NEW t \in Tasks, Unblock(t)
  PROVE  Kept
<1>1. /\ Move /\ runs' = Ended(t, "reclaimed")
      /\ links' = links /\ alive' = alive /\ late' = late /\ reclaim' = reclaim /\ after' = after
      /\ task' = [task EXCEPT ![t].status = IF ParentsDone(t) THEN "ready" ELSE "todo",
                              ![t].run = 0, ![t].failures = 0, ![t].sticky = FALSE]
  BY Zenon DEF Unblock
<1>2. /\ TypeOK /\ after \subseteq Follows \X Tasks /\ task \in [Tasks -> Task]
      /\ task[t] \in Task
  BY Standing
<1>3. PICK status \in {"ready", "todo"} : status = IF ParentsDone(t) THEN "ready" ELSE "todo"
  OBVIOUS
<1> DEFINE x == [task[t] EXCEPT !.status = status, !.run = 0, !.failures = 0, !.sticky = FALSE]
<1>4. x \in Task /\ x.status = status /\ x.run = 0 /\ x.pid = task[t].pid
  BY <1>2, <1>3 DEF Task, Statuses
<1>5. task' = [task EXCEPT ![t].status = status,
                           ![t].run = 0, ![t].failures = 0, ![t].sticky = FALSE]
  BY <1>1, <1>3
<1>6. task' = [task EXCEPT ![t] = x]  BY <1>2, <1>5
<1> HIDE DEF x
<1>7. task' \in [Tasks -> Task] /\ task'[t] = x /\ \A u \in Tasks \ {t} : task'[u] = task[u]
  BY <1>2, <1>4, <1>6, OneTask
<1>8. "reclaimed" \in Ends \ {"open"}  BY DEF Ends
<1>9. \A u \in Tasks : task'[u].pid \in {0, task[u].pid}  BY <1>4, <1>7
<1>10. task'[t].run = 0 /\ task'[t].status # "running"  BY <1>3, <1>4, <1>7
<1> QED  BY <1>1, <1>2, <1>7, <1>8, <1>9, <1>10, MovedOut

(* A move that leaves every run with its task.                             *)
LEMMA RunsStay ==
  ASSUME Inv, Move, runs' = runs, task' \in [Tasks -> Task],
         \A u \in Tasks :
           /\ task'[u].run = task[u].run /\ task'[u].pid \in {0, task[u].pid}
           /\ task'[u].status = "running" =>
                task[u].status = "running" /\ task'[u].lock = task[u].lock,
         links' \subseteq Tasks \X Tasks, alive' \subseteq alive, late' = late,
         reclaim' = NULL \/ (reclaim'.on \in Tasks /\ reclaim'.lock \in Lock),
         after' \subseteq Follows \X Tasks
  PROVE  Kept
<1>1. Pointers' /\ OpenRunIsCurrent'  BY RunsSame
<1>2. RunningIsHeld' /\ AfterParents  BY HeldSame
<1>3. runs' \in Seq(Run) /\ Len(runs') <= MaxRuns  BY Standing
<1> QED  BY <1>1, <1>2, <1>3, MoveKeeps

LEMMA PromoteKeeps ==
  ASSUME Inv, NEW t \in Tasks, Promote(t)
  PROVE  Kept
<1> DEFINE x == [task[t] EXCEPT !.status = "ready"]
<1>1. /\ Move /\ runs' = runs /\ links' = links /\ alive' = alive /\ late' = late
      /\ reclaim' = reclaim /\ after' = after
  BY Zenon DEF Promote
<1>2. task' = [task EXCEPT ![t] = x]  BY DEF Promote
<1>3. /\ TypeOK /\ task[t] \in Task /\ after \subseteq Follows \X Tasks
      /\ links \subseteq Tasks \X Tasks
      /\ reclaim = NULL \/ (reclaim.on \in Tasks /\ reclaim.lock \in Lock)
  BY Standing
<1>4. x \in Task /\ x.status = "ready" /\ x.run = task[t].run /\ x.pid = task[t].pid
  BY <1>3 DEF Task, Statuses
<1> HIDE DEF x
<1>5. task' \in [Tasks -> Task] /\ task'[t] = x /\ \A u \in Tasks \ {t} : task'[u] = task[u]
  BY <1>2, <1>3, <1>4, OneTask
<1>6. \A u \in Tasks :
        /\ task'[u].run = task[u].run /\ task'[u].pid \in {0, task[u].pid}
        /\ task'[u].status = "running" =>
             task[u].status = "running" /\ task'[u].lock = task[u].lock
  BY <1>4, <1>5
<1> QED  BY <1>1, <1>3, <1>5, <1>6, RunsStay

LEMMA LinkKeeps ==
  ASSUME Inv, NEW p \in Tasks, NEW c \in Tasks, Link(p, c)
  PROVE  Kept
<1> DEFINE x == [task[c] EXCEPT !.status = "todo"]
<1>1. /\ Move /\ links' = links \cup {<<p, c>>} /\ runs' = runs /\ alive' = alive /\ late' = late
      /\ reclaim' = reclaim /\ after' = after
  BY Zenon DEF Link
<1>2. task' = [task EXCEPT ![c] = x] \/ task' = task  BY DEF Link
<1>3. /\ TypeOK /\ task \in [Tasks -> Task] /\ task[c] \in Task /\ after \subseteq Follows \X Tasks
      /\ links \subseteq Tasks \X Tasks
      /\ reclaim = NULL \/ (reclaim.on \in Tasks /\ reclaim.lock \in Lock)
  BY Standing
<1>4. x \in Task /\ x.status = "todo" /\ x.run = task[c].run /\ x.pid = task[c].pid
  BY <1>3 DEF Task, Statuses
<1> HIDE DEF x
<1>5. /\ task' \in [Tasks -> Task]
      /\ \A u \in Tasks :
           /\ task'[u].run = task[u].run /\ task'[u].pid \in {0, task[u].pid}
           /\ task'[u].status = "running" =>
                task[u].status = "running" /\ task'[u].lock = task[u].lock
  <2>1. CASE task' = [task EXCEPT ![c] = x]
    <3>1. task' \in [Tasks -> Task] /\ task'[c] = x /\ \A u \in Tasks \ {c} : task'[u] = task[u]
      BY <1>3, <1>4, <2>1, OneTask
    <3> QED  BY <1>4, <3>1
  <2>2. CASE task' = task  BY <1>3, <2>2
  <2> QED  BY <1>2, <2>1, <2>2
<1>6. links' \subseteq Tasks \X Tasks  BY <1>1, <1>3
<1> QED  BY <1>1, <1>3, <1>5, <1>6, RunsStay

LEMMA UnlinkKeeps ==
  ASSUME Inv, NEW p \in Tasks, NEW c \in Tasks, Unlink(p, c)
  PROVE  Kept
<1>1. /\ Move /\ links' = links \ {<<p, c>>} /\ after' = after \cup {<<"recompute", c>>}
      /\ task' = task /\ runs' = runs /\ alive' = alive /\ late' = late /\ reclaim' = reclaim
  BY Zenon DEF Unlink
<1>2. /\ task \in [Tasks -> Task] /\ after \subseteq Follows \X Tasks
      /\ links \subseteq Tasks \X Tasks
      /\ reclaim = NULL \/ (reclaim.on \in Tasks /\ reclaim.lock \in Lock)
  BY Standing
<1>3. links' \subseteq Tasks \X Tasks /\ after' \subseteq Follows \X Tasks
  BY <1>1, <1>2 DEF Follows
<1> QED  BY <1>1, <1>2, <1>3, RunsStay

LEMMA BeginReclaimKeeps ==
  ASSUME Inv, NEW t \in Tasks, BeginReclaim(t)
  PROVE  Kept
<1>1. /\ Move /\ UNCHANGED board /\ late' = late /\ after' = after
      /\ reclaim' = [on |-> t, lock |-> task[t].lock] /\ Kill(task[t].pid)
  BY Zenon DEF BeginReclaim
<1>2. task' = task /\ links' = links /\ runs' = runs  BY <1>1 DEF board
<1>3. alive' \subseteq alive  BY <1>1 DEF Kill
<1>4. /\ task \in [Tasks -> Task] /\ task[t] \in Task /\ after \subseteq Follows \X Tasks
      /\ links \subseteq Tasks \X Tasks
  BY Standing
<1>5. reclaim'.on \in Tasks /\ reclaim'.lock \in Lock  BY <1>1, <1>4 DEF Task
<1> QED  BY <1>1, <1>2, <1>3, <1>4, <1>5, RunsStay

LEMMA DragKeeps ==
  ASSUME Inv, NEW t \in Tasks, NEW status \in DragTargets, Drag(t, status)
  PROVE  Kept
<1> DEFINE running == task[t].status = "running"
           r    == IF running THEN 0 ELSE task[t].run
           x    == [Freed(t, status) EXCEPT !.run = r]
           y(u) == [task[u] EXCEPT !.status = "todo"]
           sent(u) == /\ task[t].status \in Finished /\ t \in Parents(u) /\ task[u].status = "ready"
<1>1. /\ Move /\ links' = links /\ alive' = alive /\ late' = late /\ reclaim' = reclaim
      /\ runs' = IF running THEN Ended(t, "reclaimed") ELSE runs
      /\ after' = IF status = "ready" THEN after \cup {<<"recompute", t>>} ELSE after
  BY Zenon DEF Drag
<1>2. task' = [u \in Tasks |-> IF u = t THEN x ELSE IF sent(u) THEN y(u) ELSE task[u]]
  BY DEF Drag
<1>3. /\ TypeOK /\ task \in [Tasks -> Task] /\ \A u \in Tasks : task[u] \in Task
      /\ after \subseteq Follows \X Tasks /\ links \subseteq Tasks \X Tasks
      /\ reclaim = NULL \/ (reclaim.on \in Tasks /\ reclaim.lock \in Lock)
  BY Standing
<1>4. PICK f \in Task : /\ f = Freed(t, status) /\ f.status = status /\ f.pid = 0 /\ f.lock = NULL
  BY <1>3, FreedIs DEF DragTargets, Statuses
<1>5. r \in {0} \cup RunIds  BY <1>3 DEF Task
<1>6. x = [f EXCEPT !.run = r]  BY <1>4
<1>7. r = 0 \/ (r = task[t].run /\ ~running)  OBVIOUS
<1>8. running => r = 0  OBVIOUS
<1>9. ~running => r = task[t].run  OBVIOUS
<1> HIDE DEF r, x, sent
<1>10. x \in Task /\ x.status = status /\ x.pid = 0 /\ x.run = r
  BY <1>4, <1>5, <1>6 DEF Task
<1>11. \A u \in Tasks : /\ y(u) \in Task /\ y(u).status = "todo" /\ y(u).pid = task[u].pid
                        /\ y(u).run = task[u].run /\ y(u).lock = task[u].lock
  BY <1>3 DEF Task, Statuses
<1> HIDE DEF y
<1>12. task' \in [Tasks -> Task]  BY <1>2, <1>3, <1>10, <1>11
<1>13. task'[t] = x  BY <1>2
<1>14. \A u \in Tasks \ {t} : task'[u] \in {y(u), task[u]}  BY <1>2
<1>15. \A u \in Tasks \ {t} :
         /\ task'[u].run = task[u].run /\ task'[u].lock = task[u].lock
         /\ task'[u].pid = task[u].pid
         /\ task'[u].status = "running" => task[u].status = "running"
  BY <1>11, <1>14
<1>16. \A u \in Tasks : task'[u].pid \in {0, task[u].pid}  BY <1>10, <1>13, <1>15
<1>17. task'[t].status # "running"  BY <1>10, <1>13 DEF DragTargets
<1>18. after' \subseteq Follows \X Tasks  BY <1>1, <1>3 DEF Follows
<1>19. CASE running
  <2>1. runs' = Ended(t, "reclaimed") /\ task'[t].run = 0  BY <1>1, <1>8, <1>10, <1>13, <1>19
  <2>2. "reclaimed" \in Ends \ {"open"}  BY DEF Ends
  <2> QED  BY <1>1, <1>12, <1>15, <1>16, <1>17, <1>18, <2>1, <2>2, MovedOut
<1>20. CASE ~running
  <2>1. runs' = runs /\ task'[t].run = task[t].run  BY <1>1, <1>9, <1>10, <1>13, <1>20
  <2>2. \A u \in Tasks :
          /\ task'[u].run = task[u].run /\ task'[u].pid \in {0, task[u].pid}
          /\ task'[u].status = "running" =>
               task[u].status = "running" /\ task'[u].lock = task[u].lock
    BY <1>15, <1>16, <1>17, <2>1
  <2> QED  BY <1>1, <1>3, <1>12, <1>18, <2>1, <2>2, RunsStay
<1> QED  BY <1>19, <1>20

(* The claim is released if it looks the same as the one that was read.    *)
LEMMA SettleReclaimKeeps ==
  ASSUME Inv, SettleReclaim
  PROVE  Kept
<1> DEFINE t == reclaim.on
<1>1. /\ reclaim # NULL /\ reclaim' = NULL
      /\ links' = links /\ alive' = alive /\ tick' = tick /\ late' = late /\ moves' = moves
      /\ faults' = faults
  BY Zenon DEF SettleReclaim
<1>2. \/ /\ task' = [task EXCEPT ![t] = Freed(t, "ready")] /\ runs' = Ended(t, "reclaimed")
         /\ after' = after \cup {<<"clear", t>>} /\ spent' = [spent EXCEPT ![t] = 0]
      \/ task' = task /\ runs' = runs /\ after' = after /\ spent' = spent
  BY Zenon DEF SettleReclaim
<1>3. /\ TypeOK /\ task \in [Tasks -> Task] /\ runs \in Seq(Run) /\ Len(runs) <= MaxRuns
      /\ after \subseteq Follows \X Tasks /\ links \subseteq Tasks \X Tasks
      /\ spent \in [Tasks -> Nat] /\ moves \in 0..MaxMoves /\ faults \in Nat
      /\ t \in Tasks
  BY <1>1, Standing
<1> HIDE DEF t
<1>4. \A u \in Tasks : Pends(u)' <=> Pends(u)  BY <1>1 DEF Pends
<1>5. CASE /\ task' = [task EXCEPT ![t] = Freed(t, "ready")] /\ runs' = Ended(t, "reclaimed")
           /\ after' = after \cup {<<"clear", t>>} /\ spent' = [spent EXCEPT ![t] = 0]
  <2>1. PICK x \in Task : /\ x = Freed(t, "ready") /\ x.status = "ready" /\ x.pid = 0 /\ x.run = 0
    BY <1>3, FreedIs DEF Statuses
  <2>2. task' \in [Tasks -> Task] /\ task'[t] = x /\ \A u \in Tasks \ {t} : task'[u] = task[u]
    BY <1>3, <1>5, <2>1, OneTask
  <2>3. /\ runs' \in Seq(Run) /\ Len(runs') <= MaxRuns /\ DOMAIN runs \subseteq DOMAIN runs'
        /\ Pointers' /\ OpenRunIsCurrent'
        /\ \A r \in DOMAIN runs : runs[r].end = "open" /\ runs'[r].end # "open" =>
             r = task[t].run /\ runs[r].task = t /\ runs'[r].end = "reclaimed"
    BY <1>3, <1>5, <2>1, <2>2, RunsEnded DEF Ends
  <2>4. ByItsWorker  BY <2>3 DEF ByItsWorker
  <2>5. RunningIsHeld' /\ AfterParents  BY <2>1, <2>2, HeldSame
  <2>6. /\ spent' \in [Tasks -> Nat] /\ spent'[t] = 0
        /\ \A u \in Tasks \ {t} : spent'[u] = spent[u]
    BY <1>3, <1>5
  <2>7. Budget'  BY <1>1, <1>3, <1>4, <2>2, <2>6, BudgetSame
  <2>8. after' \subseteq Follows \X Tasks  BY <1>3, <1>5 DEF Follows
  <2>9. \A u \in Tasks : task'[u].pid \in {0, task[u].pid}  BY <2>1, <2>2
  <2> QED  BY <1>1, <1>3, <2>2, <2>3, <2>4, <2>5, <2>6, <2>7, <2>8, <2>9, QuietKeeps
<1>6. CASE task' = task /\ runs' = runs /\ after' = after /\ spent' = spent
  <2>1. Pointers' /\ OpenRunIsCurrent' /\ ByItsWorker  BY <1>6, RunsSame
  <2>2. RunningIsHeld' /\ AfterParents  BY <1>6, HeldSame
  <2>3. Budget'  BY <1>1, <1>3, <1>4, <1>6, BudgetSame
  <2> QED  BY <1>1, <1>3, <1>6, <2>1, <2>2, <2>3, QuietKeeps
<1> QED  BY <1>2, <1>5, <1>6

LEMMA ClearFailuresKeeps ==
  ASSUME Inv, NEW t \in Tasks, ClearFailures(t)
  PROVE  Kept
<1> DEFINE x == [task[t] EXCEPT !.failures = 0]
<1>1. /\ spent' = [spent EXCEPT ![t] = 0]
      /\ links' = links /\ runs' = runs /\ alive' = alive /\ tick' = tick /\ late' = late
      /\ reclaim' = reclaim /\ moves' = moves /\ faults' = faults
  BY Zenon DEF ClearFailures
<1>2. task' = [task EXCEPT ![t] = x]  BY DEF ClearFailures
<1>3. /\ TypeOK /\ task[t] \in Task /\ runs \in Seq(Run) /\ Len(runs) <= MaxRuns
      /\ after \subseteq Follows \X Tasks /\ links \subseteq Tasks \X Tasks
      /\ spent \in [Tasks -> Nat] /\ moves \in 0..MaxMoves /\ faults \in Nat
      /\ reclaim = NULL \/ (reclaim.on \in Tasks /\ reclaim.lock \in Lock)
  BY Standing
<1>4. after' \subseteq after \cup {<<"recompute", t>>}
  <2>1. PICK what \in {"clear", "clear_recompute"} :
          after' = (after \ {<<what, t>>}) \cup
                     (IF what = "clear" THEN {} ELSE {<<"recompute", t>>})
    BY Zenon DEF ClearFailures
  <2> QED  BY <2>1
<1>5. after' \subseteq Follows \X Tasks  BY <1>3, <1>4 DEF Follows
<1>6. /\ x \in Task /\ x.status = task[t].status /\ x.lock = task[t].lock
      /\ x.run = task[t].run /\ x.pid = task[t].pid
  BY <1>3 DEF Task
<1> HIDE DEF x
<1>7. task' \in [Tasks -> Task] /\ task'[t] = x /\ \A u \in Tasks \ {t} : task'[u] = task[u]
  BY <1>2, <1>3, <1>6, OneTask
<1>8. /\ spent' \in [Tasks -> Nat] /\ spent'[t] = 0
      /\ \A u \in Tasks \ {t} : spent'[u] = spent[u]
  BY <1>1, <1>3
<1>9. \A u \in Tasks : Pends(u)' <=> Pends(u)  BY <1>1 DEF Pends
<1>10. Budget'  BY <1>1, <1>3, <1>7, <1>8, <1>9, BudgetSame
<1>11. \A u \in Tasks : task'[u].run = task[u].run /\ task'[u].pid = task[u].pid  BY <1>6, <1>7
<1>12. Pointers' /\ OpenRunIsCurrent' /\ ByItsWorker  BY <1>1, <1>11, RunsSame
<1>13. RunningIsHeld' /\ AfterParents  BY <1>6, <1>7, HeldSame
<1> QED  BY <1>1, <1>3, <1>5, <1>7, <1>8, <1>10, <1>11, <1>12, <1>13, QuietKeeps

LEMMA RecomputeKeeps ==
  ASSUME Inv, NEW t \in Tasks, Recompute(t)
  PROVE  Kept
<1>1. /\ after' = after \ {<<"recompute", t>>} /\ task' = Promoted(FailureLimit)
      /\ links' = links /\ runs' = runs /\ alive' = alive /\ tick' = tick /\ late' = late
      /\ reclaim' = reclaim /\ moves' = moves /\ faults' = faults /\ spent' = spent
  BY Zenon DEF Recompute
<1>2. /\ TypeOK /\ runs \in Seq(Run) /\ Len(runs) <= MaxRuns
      /\ after \subseteq Follows \X Tasks /\ links \subseteq Tasks \X Tasks
      /\ spent \in [Tasks -> Nat] /\ moves \in 0..MaxMoves
      /\ reclaim = NULL \/ (reclaim.on \in Tasks /\ reclaim.lock \in Lock)
  BY Standing
<1>3. FailureLimit \in Nat /\ FailureLimit <= Limit  BY KanbanAssumption, LimitFacts
<1>4. /\ task' \in [Tasks -> Task]
      /\ \A u \in Tasks : /\ task'[u].lock = task[u].lock /\ task'[u].run = task[u].run
                          /\ task'[u].pid = task[u].pid
                          /\ task'[u].status = "running" => task[u].status = "running"
  BY <1>1, <1>2, <1>3, PromotedIs
<1>5. \A u \in Tasks : Pends(u)' <=> Pends(u)  BY <1>1 DEF Pends
<1>6. Budget'  BY <1>1, <1>3, <1>5, PromotedBudget
<1>7. Pointers' /\ OpenRunIsCurrent' /\ ByItsWorker  BY <1>1, <1>4, RunsSame
<1>8. RunningIsHeld' /\ AfterParents  BY <1>4, HeldSame
<1>9. after' \subseteq Follows \X Tasks  BY <1>1, <1>2
<1> QED  BY <1>1, <1>2, <1>4, <1>6, <1>7, <1>8, <1>9, QuietKeeps

----------------------------------------------------------------------------
(* All together.                                                           *)

LEMMA InitInv == Init => Inv
<1> SUFFICES ASSUME Init  PROVE Inv
  OBVIOUS
<1>1. /\ links \in {{}} \cup {{<<p, c>>} : p \in Tasks, c \in Tasks}
      /\ runs = <<>> /\ alive = {} /\ late = {} /\ reclaim = NULL /\ after = {}
      /\ moves = 0 /\ faults = 0
  BY DEF Init
<1>2. tick = Idle /\ spent = [t \in Tasks |-> 0]  BY DEF Init
<1>3. task = [t \in Tasks |-> Fresh(IF \E p \in Tasks : <<p, t>> \in links THEN "todo" ELSE "ready")]
  BY DEF Init
<1>4. links \subseteq Tasks \X Tasks  BY <1>1
<1>5. \A status \in {"todo", "ready"} :
        /\ Fresh(status) \in Task /\ Fresh(status).status = status /\ Fresh(status).run = 0
  BY KanbanAssumption DEF Fresh, Task, Statuses, Lock
<1>6. task \in [Tasks -> Task] /\ \A t \in Tasks : task[t].status # "running" /\ task[t].run = 0
  <2> DEFINE status(t) == IF \E p \in Tasks : <<p, t>> \in links THEN "todo" ELSE "ready"
  <2>1. \A t \in Tasks : status(t) \in {"todo", "ready"}  OBVIOUS
  <2>2. task = [t \in Tasks |-> Fresh(status(t))]  BY <1>3
  <2> HIDE DEF status
  <2> QED  BY <1>5, <2>1, <2>2
<1>7. runs \in Seq(Run) /\ Len(runs) = 0 /\ DOMAIN runs = {}  BY <1>1
<1>8. DOMAIN NoRows = {}  BY DEF NoRows
<1>9. /\ tick \in Tick /\ tick.rows = NoRows /\ tick.on = NULL /\ tick.step = "read"
      /\ tick.at = "idle"
  BY <1>2 DEF Idle, Tick
<1>10. TypeOK  BY <1>1, <1>2, <1>4, <1>6, <1>7, <1>8, <1>9, KanbanAssumption DEF TypeOK
<1>11. Pointers /\ OpenRunIsCurrent /\ RunningIsHeld
  BY <1>6, <1>7 DEF Pointers, OpenRunIsCurrent, RunningIsHeld, Running
<1>12. Ticking /\ Budget  BY <1>9, <1>2 DEF Ticking, Budget
<1> QED  BY <1>10, <1>11, <1>12 DEF Inv

LEMMA DispatchKeeps ==
  ASSUME Inv, Dispatch
  PROVE  Kept
<1>1. CASE BeginTick \/ DetectCrashed \/ FindOverdue \/ PromoteReady
  BY <1>1, BeginTickKeeps, DetectCrashedKeeps, FindOverdueKeeps, PromoteReadyKeeps
<1>2. ASSUME NEW t \in Tasks,
             \/ ExtendClaim(t) \/ KillStale(t) \/ ReleaseStale(t)
             \/ RecordCrash(t) \/ KillOverdue(t) \/ ReleaseOverdue(t) \/ RecordTimeout(t)
             \/ ClaimReady(t) \/ StartWorker(t) \/ RecordPid(t) \/ SpawnFails(t)
      PROVE  Kept
  <2>1. CASE KillStale(t)
    <3>1. /\ Pending("stale", t) /\ Kill(tick.rows[t].pid)
          /\ tick' = [tick EXCEPT !.on = t, !.step = "killed"]
          /\ UNCHANGED <<board, late, reclaim, after, moves, faults, spent>>
      BY Zenon, <2>1 DEF KillStale
    <3> QED  BY <3>1, KillKeeps
  <2>2. CASE KillOverdue(t)
    <3>1. /\ Pending("timeout", t) /\ Kill(tick.rows[t].pid)
          /\ tick' = [tick EXCEPT !.on = t, !.step = "killed"]
          /\ UNCHANGED <<board, late, reclaim, after, moves, faults, spent>>
      BY Zenon, <2>2 DEF KillOverdue
    <3> QED  BY <3>1, KillKeeps
  <2> QED
    BY <1>2, <2>1, <2>2, ExtendClaimKeeps, ReleaseStaleKeeps, RecordCrashKeeps,
       ReleaseOverdueKeeps, RecordTimeoutKeeps, ClaimReadyKeeps, StartWorkerKeeps,
       RecordPidKeeps, SpawnFailsKeeps
<1> QED  BY Zenon, <1>1, <1>2 DEF Dispatch

LEMMA OperateKeeps ==
  ASSUME Inv, Operate
  PROVE  Kept
<1>1. PICK t \in Tasks :
        \/ ClaimByHand(t) \/ CompleteByHand(t) \/ BlockByHand(t) \/ Schedule(t)
        \/ Unblock(t) \/ Promote(t) \/ Archive(t) \/ BeginReclaim(t)
        \/ \E status \in DragTargets : Drag(t, status)
        \/ \E p \in Tasks : Link(p, t) \/ Unlink(p, t)
  BY Zenon DEF Operate
<1> QED
  BY <1>1, ClaimByHandKeeps, CompleteOrBlockKeeps, ScheduleKeeps, UnblockKeeps, PromoteKeeps,
     ArchiveKeeps, BeginReclaimKeeps, DragKeeps, LinkKeeps, UnlinkKeeps

LEMMA NextKeeps ==
  ASSUME Inv, Next
  PROVE  Kept
<1>1. CASE Work
  <2>1. PICK r \in RunIds : Report(r) \/ Heartbeat(r) \/ Exit(r)  BY <1>1 DEF Work
  <2> QED  BY <2>1, ReportKeeps, WorkersAside
<1>2. CASE FollowUp
  <2>1. PICK t \in Tasks : ClearFailures(t) \/ Recompute(t)  BY <1>2 DEF FollowUp
  <2> QED  BY <2>1, ClearFailuresKeeps, RecomputeKeeps
<1> QED
  BY <1>1, <1>2, DispatchKeeps, GatewayDiesKeeps, OperateKeeps, SettleReclaimKeeps,
     LoseFollowUpKeeps DEF Next

LEMMA StutterKeeps ==
  ASSUME Inv, UNCHANGED vars
  PROVE  Kept
<1>1. /\ UNCHANGED board /\ moves' = moves /\ spent' = spent /\ reclaim' = reclaim /\ tick' = tick
      /\ alive' = alive /\ late' = late /\ after' = after /\ faults' = faults
  BY DEF vars
<1>2. faults \in 0..MaxFaults /\ faults \in Nat  BY KanbanAssumption DEF Inv, TypeOK
<1>3. faults' >= faults  BY <1>1, <1>2
<1> QED  BY <1>1, <1>2, <1>3, AsideKeeps

(* The inductive invariant holds throughout.                               *)
THEOREM Invariance == Spec => []Inv
<1>1. Inv /\ [Next]_vars => Inv'  BY NextKeeps, StutterKeeps DEF Kept
<1> QED  BY InitInv, <1>1, PTL DEF Spec

(* Every task, run and tick stays of its type.                             *)
THEOREM TypeCorrect == Spec => []TypeOK
<1>1. Inv => TypeOK  BY DEF Inv
<1> QED  BY <1>1, Invariance, PTL

(* Attempt history has no orphans: whichever sweep, report or move ends a  *)
(* task's turn closes the run it pointed to.                               *)
THEOREM OpenRunsAreCurrent == Spec => []OpenRunIsCurrent
<1>1. Inv => OpenRunIsCurrent  BY DEF Inv
<1> QED  BY <1>1, Invariance, PTL

(* A running task is claimed and has a run, however it came to run.        *)
THEOREM RunningTasksAreHeld == Spec => []RunningIsHeld
<1>1. Inv => RunningIsHeld  BY DEF Inv
<1> QED  BY <1>1, Invariance, PTL

(* The breaker stops a task that keeps failing: its failures are bounded   *)
(* by the larger limit and the counts lost to deaths of the gateway and    *)
(* failed writes.                                                          *)
THEOREM RetriesAreBounded == Spec => []RetryBudget
<1>1. Inv => RetryBudget
  <2> SUFFICES ASSUME Inv, NEW t \in Tasks  PROVE spent[t] <= Limit + faults
    BY DEF RetryBudget, Limit
  <2>1. spent[t] \in Nat /\ task[t].failures \in Nat /\ faults \in Nat /\ Limit \in Nat \ {0}
    BY LimitFacts, KanbanAssumption DEF Inv, TypeOK, Task
  <2>2. CASE spent[t] = 0  BY <2>1, <2>2
  <2>3. CASE spent[t] # 0
    <3>1. /\ spent[t] <= Counts(t) + (IF Pends(t) THEN 1 ELSE 0) + faults
          /\ Pends(t) => task[t].status = "ready" /\ task[t].run = 0
      BY <2>3 DEF Inv, Budget
    <3>2. CASE Pends(t)
      <4>1. Counts(t) + 1 <= Limit /\ Counts(t) \in Nat  BY <2>1, <3>1, <3>2 DEF Counts, Stopped
      <4> QED  BY <2>1, <3>1, <3>2, <4>1
    <3>3. CASE ~Pends(t)
      <4>1. Counts(t) <= Limit /\ Counts(t) \in Nat  BY <2>1 DEF Counts
      <4> QED  BY <2>1, <3>1, <3>3, <4>1
    <3> QED  BY <3>2, <3>3
  <2> QED  BY <2>2, <2>3
<1> QED  BY <1>1, Invariance, PTL

(* The sweeps for expired claims and for crashes spare the living: no run  *)
(* they end is one whose recorded worker is alive.                         *)
THEOREM ReleasesSpareLive == Spec => ReleaseMeansDead
<1>1. Inv /\ [Next]_vars
        => [\A r \in alive' :
              /\ tick.at = "stale" \/ tick'.at = "crash"
              /\ tick' # tick
              /\ runs[r].end = "open" /\ runs'[r].end # "open"
              => task[runs[r].task].pid # r]_vars
  BY NextKeeps, StutterKeeps DEF Kept, SparesLive
<1> QED  BY <1>1, Invariance, PTL DEF Spec, ReleaseMeansDead

(* Unless an operator moves, a run is reported only by its own worker.     *)
THEOREM RunsEndedByTheirWorkers == Spec => RunEndedByItsWorker
<1>1. Inv /\ [Next]_vars
        => [\A r \in DOMAIN runs :
              /\ runs[r].end = "open" /\ runs'[r].end = "reported"
              /\ moves' = moves
              => r \in alive]_vars
  BY NextKeeps, StutterKeeps DEF Kept, ByItsWorker
<1> QED  BY <1>1, Invariance, PTL DEF Spec, RunEndedByItsWorker

(* No child starts before its parents are finished, by whatever hand.      *)
THEOREM ChildrenAfterParents == Spec => ChildAfterParents
<1>1. Inv /\ [Next]_vars
        => [\A t \in Tasks :
              task[t].status # "running" /\ task'[t].status = "running" => ParentsFinished(t)]_vars
  BY NextKeeps, StutterKeeps DEF Kept, AfterParents
<1> QED  BY <1>1, Invariance, PTL DEF Spec, ChildAfterParents

----------------------------------------------------------------------------
(* The run history: each step of the board is one of RunHistory's or       *)
(* leaves the history alone.  What a transaction does to the runs is told  *)
(* first (ClosedIs, AppendedIs), then what it does to the history.         *)

HistoryOf(rs) == [r \in DOMAIN rs |-> [task |-> rs[r].task, end |-> rs[r].end]]
history == HistoryOf(runs)

(* A task that works has a run that is open.                               *)
WorkingOpen ==
  \A t \in Running : \E r \in DOMAIN runs : runs[r].task = t /\ runs[r].end = "open"

(* A step of the history, or none.                                         *)
Recorded == History!Next \/ (history' = history /\ Running' = Running)

\* Of the tasks other than t the same ones work.
OthersGoOn(t) == \A u \in Tasks \ {t} : task'[u].status = "running" <=> task[u].status = "running"

LEMMA WorkingIs ==
  ASSUME NEW t \in Tasks, OthersGoOn(t)
  PROVE  /\ task'[t].status # "running" => Running' = Running \ {t}
         /\ task'[t].status = "running" => Running' = Running \cup {t}
         /\ (task'[t].status = "running" <=> task[t].status = "running") => Running' = Running
BY DEF OthersGoOn, Running

(* No run is touched, and at most a task stops.                            *)
LEMMA RunsStand ==
  ASSUME NEW t \in Tasks, OthersGoOn(t), runs' = runs,
         task'[t].status = "running" => task[t].status = "running"
  PROVE  Recorded
<1>1. history' = history  BY DEF history, HistoryOf
<1>2. CASE task'[t].status = "running" <=> task[t].status = "running"
  BY <1>1, <1>2, WorkingIs DEF Recorded
<1>3. CASE task'[t].status # "running" /\ task[t].status = "running"
  <2>1. Running' = Running \ {t} /\ t \in Running  BY <1>3, WorkingIs DEF Running
  <2>2. History!Stop(t)  BY <1>1, <2>1 DEF History!Stop, history, HistoryOf
  <2> QED  BY <2>2 DEF Recorded, History!Next
<1> QED  BY <1>2, <1>3

(* The runs of T that are open end, each as "how" says of its task.        *)
LEMMA ClosedIs ==
  ASSUME NEW T, NEW how, NEW rs, DOMAIN rs = DOMAIN runs,
         \A r \in DOMAIN runs :
           /\ rs[r].task = runs[r].task
           /\ rs[r].end = IF runs[r].task \in T /\ runs[r].end = "open"
                         THEN how[runs[r].task] ELSE runs[r].end
  PROVE  HistoryOf(rs) = History!Closed(T, how)
<1> DEFINE h(r) == [task |-> runs[r].task, end |-> runs[r].end]
           c(r) == IF h(r).task \in T /\ h(r).end = "open"
                   THEN [h(r) EXCEPT !.end = how[h(r).task]] ELSE h(r)
<1>1. History!Closed(T, how) = [r \in DOMAIN history |->
         IF history[r].task \in T /\ history[r].end = "open"
         THEN [history[r] EXCEPT !.end = how[history[r].task]] ELSE history[r]]
  BY Zenon DEF History!Closed, History!IsOpen, history, HistoryOf
<1>2. DOMAIN history = DOMAIN runs /\ \A r \in DOMAIN runs : history[r] = h(r)
  BY DEF history, HistoryOf
<1>3. History!Closed(T, how) = [r \in DOMAIN runs |-> c(r)]  BY <1>1, <1>2
<1>4. ASSUME NEW r \in DOMAIN runs  PROVE [task |-> rs[r].task, end |-> rs[r].end] = c(r)
  OBVIOUS
<1>5. HistoryOf(rs) = [r \in DOMAIN runs |-> [task |-> rs[r].task, end |-> rs[r].end]]
  BY DEF HistoryOf
<1> HIDE DEF c
<1> QED  BY <1>3, <1>4, <1>5

LEMMA AppendedIs ==
  ASSUME NEW s \in Seq(Run), NEW x \in Run
  PROVE  HistoryOf(Append(s, x)) = Append(HistoryOf(s), [task |-> x.task, end |-> x.end])
<1> DEFINE h == HistoryOf(s)
           e == [task |-> x.task, end |-> x.end]
           a == Append(s, x)
           S == [task : Tasks, end : Ends]
<1>1. \A i \in 1..Len(s) : s[i] \in Run  OBVIOUS
<1>2. DOMAIN s = 1..Len(s) /\ Len(s) \in Nat  OBVIOUS
<1>3. h = [i \in 1..Len(s) |-> [task |-> s[i].task, end |-> s[i].end]]  BY <1>2 DEF HistoryOf
<1>4. \A i \in 1..Len(s) : [task |-> s[i].task, end |-> s[i].end] \in S  BY <1>1 DEF Run
<1>5. h \in Seq(S) /\ Len(h) = Len(s)  BY <1>2, <1>3, <1>4
<1>6. e \in S  BY DEF Run
<1>7. /\ a \in Seq(Run) /\ Len(a) = Len(s) + 1 /\ a[Len(s) + 1] = x
      /\ \A i \in 1..Len(s) : a[i] = s[i]
  BY AppendProperties
<1>8. \A i \in 1..Len(s) : h[i] = [task |-> s[i].task, end |-> s[i].end]  BY <1>3
<1> HIDE DEF h, e, S, a
<1> DEFINE b == Append(h, e)
<1>9. /\ b \in Seq(S) /\ Len(b) = Len(s) + 1
      /\ b[Len(s) + 1] = e /\ \A i \in 1..Len(s) : b[i] = h[i]
  BY <1>5, <1>6, AppendProperties
<1> HIDE DEF b
<1>10. HistoryOf(a) = [i \in 1..(Len(s) + 1) |-> [task |-> a[i].task, end |-> a[i].end]]
  BY <1>7 DEF HistoryOf
<1>11. ASSUME NEW i \in 1..(Len(s) + 1)
       PROVE  [task |-> a[i].task, end |-> a[i].end] = b[i]
  <2>1. CASE i \in 1..Len(s)  BY <1>7, <1>8, <1>9, <2>1
  <2>2. CASE i = Len(s) + 1  BY <1>7, <1>9, <2>2 DEF e
  <2> QED  BY <1>2, <2>1, <2>2
<1>12. b = [i \in 1..(Len(s) + 1) |-> b[i]]  BY <1>2, <1>9
<1>13. HistoryOf(a) = b  BY <1>10, <1>11, <1>12
<1> QED  BY <1>13 DEF a, b, h, e

(* The task no longer works, and its run, if it was open, has ended.       *)
LEMMA RunsEnd ==
  ASSUME Inv, NEW t \in Tasks, NEW how \in Ends \ {"open"}, OthersGoOn(t),
         runs' = Ended(t, how), task'[t].status # "running"
  PROVE  Recorded
<1>1. TypeOK /\ Pointers /\ OpenRunIsCurrent  BY DEF Inv
<1>2. /\ DOMAIN runs' = DOMAIN runs
      /\ \A r \in DOMAIN runs :
           /\ runs'[r].task = runs[r].task
           /\ runs'[r].end = IF r = task[t].run /\ runs[r].end = "open" THEN how ELSE runs[r].end
  BY <1>1, EndedIs
<1>3. Running' = Running \ {t}  BY WorkingIs
<1> DEFINE ways == [u \in {t} |-> how]
<1>4. \A r \in DOMAIN runs :
        runs[r].task = t /\ runs[r].end = "open" <=> r = task[t].run /\ runs[r].end = "open"
  BY <1>1, RunsOfTasks DEF Pointers, OpenRunIsCurrent
<1>5. \A r \in DOMAIN runs :
        runs'[r].end = IF runs[r].task \in {t} /\ runs[r].end = "open" THEN ways[runs[r].task]
                       ELSE runs[r].end
  BY <1>2, <1>4
<1>6. history' = History!Closed({t}, ways)  BY <1>2, <1>5, ClosedIs DEF history
<1>7. ways \in [{t} -> Ends \ {"open"}]  OBVIOUS
<1> HIDE DEF ways
<1>8. History!Finish({t})  BY <1>3, <1>6, <1>7 DEF History!Finish, history, HistoryOf
<1>9. {t} \in SUBSET Tasks  OBVIOUS
<1> QED  BY <1>8, <1>9 DEF Recorded, History!Next

(* A task that had no run gets one that is over, or none.                  *)
LEMMA RunsEndOrNoted ==
  ASSUME Inv, NEW t \in Tasks, NEW how \in Ends \ {"open"}, OthersGoOn(t),
         runs' \in EndedOrNoted(t, how), task'[t].status # "running"
  PROVE  Recorded
<1>1. CASE runs' = Ended(t, how)  BY <1>1, RunsEnd
<1>2. CASE runs' = runs  BY <1>2, RunsStand
<1>3. CASE task[t].run = 0 /\ runs' = Append(runs, [task |-> t, lock |-> NULL, end |-> how])
  <2> DEFINE x == [task |-> t, lock |-> NULL, end |-> how]
  <2>1. x \in Run /\ x.task = t /\ x.end = how  BY DEF Run, Lock
  <2>2. runs \in Seq(Run)  BY Standing
  <2>3. runs' = Append(runs, x)  BY <1>3
  <2> HIDE DEF x
  <2>4. Running' = Running /\ t \notin Running
    <3>1. t \notin Running  BY <1>3 DEF Inv, RunningIsHeld
    <3> QED  BY <3>1, WorkingIs DEF Running
  <2>5. history' = Append(history, [task |-> t, end |-> how])  BY <2>1, <2>2, <2>3, AppendedIs DEF history
  <2>6. \A i \in DOMAIN history : history[i].task = t => history[i].end # "open"
    <3>1. \A r \in DOMAIN runs : runs[r].task = t => runs[r].end # "open"
      BY <1>3, RunsOfTasks DEF Inv, OpenRunIsCurrent
    <3> QED  BY <3>1 DEF history, HistoryOf
  <2>7. History!Note(t)  BY <2>4, <2>5, <2>6 DEF History!Note, History!IsOpen, history, HistoryOf
  <2> QED  BY <2>7 DEF Recorded, History!Next
<1> QED  BY <1>1, <1>2, <1>3 DEF EndedOrNoted

(* A claim: the run that was left open, if any, is closed and a new one    *)
(* begins.                                                                 *)
LEMMA ClaimRecorded ==
  ASSUME Inv, NEW t \in Tasks, NEW lock \in Claims, Claim(t, lock)
  PROVE  Recorded
<1> DEFINE rs == Ended(t, "reclaimed")
           x == [task |-> t, lock |-> lock, end |-> "open"]
           ways == [u \in {t} |-> "reclaimed"]
<1>1. TypeOK /\ Pointers /\ OpenRunIsCurrent  BY DEF Inv
<1>2. runs' = Append(rs, x)  BY Zenon DEF Claim
<1>3. /\ \A u \in Tasks \ {t} : task'[u] = task[u]
      /\ task[t].status = "ready" /\ task'[t].status = "running"
  BY ClaimIs
<1>4. Running' = Running \cup {t} /\ t \notin Running  BY <1>3 DEF Running
<1>5. x \in Run /\ x.task = t /\ x.end = "open"  BY DEF Run, Lock, Ends
<1>6. /\ rs \in Seq(Run) /\ DOMAIN rs = DOMAIN runs
      /\ \A r \in DOMAIN runs :
           /\ rs[r].task = runs[r].task
           /\ rs[r].end = IF r = task[t].run /\ runs[r].end = "open" THEN "reclaimed" ELSE runs[r].end
  BY <1>1, EndedIs DEF Ends
<1> HIDE DEF rs, x
<1>7. \A r \in DOMAIN runs :
        rs[r].end = IF runs[r].task \in {t} /\ runs[r].end = "open" THEN ways[runs[r].task]
                    ELSE runs[r].end
  BY <1>1, <1>6, RunsOfTasks DEF Pointers, OpenRunIsCurrent
<1> HIDE DEF ways
<1>8. HistoryOf(rs) = History!Closed({t}, ways)  BY <1>6, <1>7, ClosedIs
<1>9. history' = Append(HistoryOf(rs), [task |-> t, end |-> "open"])
  BY <1>2, <1>5, <1>6, AppendedIs DEF history
<1>10. History!Begin(t)  BY <1>4, <1>8, <1>9 DEF History!Begin, history, HistoryOf, ways
<1> QED  BY <1>10 DEF Recorded, History!Next

(* A release: the row is freed and its run closed.                         *)
LEMMA FreedOne ==
  ASSUME TypeOK, NEW t \in Tasks, NEW status \in Statuses \ {"running"},
         task' = [task EXCEPT ![t] = Freed(t, status)]
  PROVE  task'[t].status # "running" /\ OthersGoOn(t)
<1>1. PICK x \in Task : x = Freed(t, status) /\ x.status = status  BY FreedIs
<1>2. task'[t] = x /\ \A u \in Tasks \ {t} : task'[u] = task[u]  BY <1>1, OneTask
<1> QED  BY <1>1, <1>2 DEF OthersGoOn

LEMMA ClaimRefusedRecorded ==
  ASSUME Inv, NEW t \in Tasks, ClaimRefused(t)
  PROVE  Recorded
<1>1. \/ runs' = runs
      \/ task' = task /\ runs' = Ended(t, "reclaimed") /\ task[t].status = "ready"
  BY DEF ClaimRefused
<1>2. \A u \in Tasks : task'[u].status = "running" <=> task[u].status = "running"
  BY ClaimRefusedIs
<1>3. OthersGoOn(t)  BY <1>2 DEF OthersGoOn
<1>4. "reclaimed" \in Ends \ {"open"}  BY DEF Ends
<1> QED  BY <1>1, <1>2, <1>3, <1>4, RunsStand, RunsEnd

(* Every worker found dead: the runs these tasks point to end together.    *)
LEMMA DetectCrashedRecorded ==
  ASSUME Inv, DetectCrashed
  PROVE  Recorded
<1> DEFINE Buried(gone, how) ==
         /\ task' = [t \in Tasks |-> IF t \in gone THEN Freed(t, "ready") ELSE task[t]]
         /\ runs' = [r \in DOMAIN runs |->
              IF runs[r].end = "open" /\ \E t \in gone : task[t].run = r
              THEN [runs[r] EXCEPT !.end = how[runs[r].task]] ELSE runs[r]]
<1>1. PICK dead \in SUBSET {t \in Running : task[t].pid # 0 /\ task[t].pid \notin alive} \ {{}} :
         \E how \in [dead -> {"failed", "violation", "rate_limited"}] : Buried(dead, how)
  BY Zenon DEF DetectCrashed
<1>2. PICK how \in [dead -> {"failed", "violation", "rate_limited"}] : Buried(dead, how)
  BY <1>1
<1> DEFINE ended(r) == [runs[r] EXCEPT !.end = how[runs[r].task]]
           hit(r) == runs[r].end = "open" /\ \E t \in dead : task[t].run = r
<1>3. /\ task' = [t \in Tasks |-> IF t \in dead THEN Freed(t, "ready") ELSE task[t]]
      /\ runs' = [r \in DOMAIN runs |-> IF hit(r) THEN ended(r) ELSE runs[r]]
  BY <1>2
<1>4. TypeOK /\ Pointers /\ OpenRunIsCurrent  BY DEF Inv
<1>5. dead \subseteq Running /\ dead \subseteq Tasks  BY <1>1 DEF Running
<1>6. \A r \in DOMAIN runs : hit(r) <=> runs[r].task \in dead /\ runs[r].end = "open"
  <2> TAKE r \in DOMAIN runs
  <2>1. ASSUME hit(r)  PROVE runs[r].task \in dead /\ runs[r].end = "open"
    <3>1. PICK t \in dead : task[t].run = r  BY <2>1
    <3>2. r # 0  BY RunsOfTasks
    <3> QED  BY <1>4, <1>5, <2>1, <3>1, <3>2 DEF Pointers
  <2>2. ASSUME runs[r].task \in dead, runs[r].end = "open"  PROVE hit(r)
    BY <1>4, <2>2 DEF OpenRunIsCurrent
  <2> QED  BY <2>1, <2>2
<1> HIDE DEF hit
<1>7. /\ DOMAIN runs' = DOMAIN runs
      /\ \A r \in DOMAIN runs :
           /\ runs'[r].task = runs[r].task
           /\ runs'[r].end = IF runs[r].task \in dead /\ runs[r].end = "open"
                            THEN how[runs[r].task] ELSE runs[r].end
  <2>1. \A r \in DOMAIN runs : ended(r).task = runs[r].task /\ ended(r).end = how[runs[r].task]
    BY RunsOfTasks DEF Run
  <2> HIDE DEF ended
  <2> QED  BY <1>3, <1>6, <2>1
<1>8. history' = History!Closed(dead, how)  BY <1>7, ClosedIs DEF history
<1>9. Running' = Running \ dead
  <2>1. \A u \in dead : task'[u].status = "ready"
    <3> TAKE u \in dead
    <3>1. Freed(u, "ready").status = "ready"  BY <1>4, <1>5, FreedIs DEF Statuses
    <3> QED  BY <1>3, <1>5, <3>1
  <2>2. \A u \in Tasks \ dead : task'[u] = task[u]  BY <1>3
  <2> QED  BY <1>5, <2>1, <2>2 DEF Running
<1>10. how \in [dead -> Ends \ {"open"}]  BY <1>2 DEF Ends
<1>11. History!Finish(dead)  BY <1>8, <1>9, <1>10 DEF History!Finish, history, HistoryOf
<1>12. dead \in SUBSET Tasks  BY <1>5
<1> QED  BY <1>11, <1>12 DEF Recorded, History!Next

(* The steps of the tick that look at one row.                             *)
LEMMA RowRecorded ==
  ASSUME Inv, NEW t \in Tasks,
         \/ ReleaseStale(t) \/ RecordCrash(t) \/ ReleaseOverdue(t) \/ RecordTimeout(t)
         \/ ClaimReady(t) \/ RecordPid(t) \/ SpawnFails(t)
  PROVE  Recorded
<1>1. TypeOK /\ task \in [Tasks -> Task] /\ task[t] \in Task /\ tick \in Tick
  BY DEF Inv, TypeOK
<1>2. /\ {"failed", "reclaimed"} \subseteq Ends \ {"open"}
      /\ {"ready", "blocked"} \subseteq Statuses \ {"running"}
  BY DEF Ends, Statuses
<1>3. ASSUME task' = task, runs' = runs  PROVE Recorded  BY <1>3, RunsStand DEF OthersGoOn
<1>4. ASSUME NEW how \in {"failed", "reclaimed"},
             task' = [task EXCEPT ![t] = Freed(t, "ready")], runs' = Ended(t, how)
      PROVE  Recorded
  BY <1>1, <1>2, <1>4, FreedOne, RunsEnd
<1>5. ASSUME NEW limit \in Nat, task' = Failed(t, limit), runs' = runs  PROVE Recorded
  <2>1. /\ \A u \in Tasks \ {t} : task'[u] = task[u]
        /\ task'[t].status = "running" => task[t].status = "running"
    BY <1>1, <1>5, FailedIs
  <2> QED  BY <1>5, <2>1, RunsStand DEF OthersGoOn
<1>6. CASE ReleaseStale(t)
  <2>1. \/ task' = [task EXCEPT ![t] = Freed(t, "ready")] /\ runs' = Ended(t, "reclaimed")
        \/ task' = task /\ runs' = runs
    BY Zenon, <1>6 DEF ReleaseStale
  <2> QED  BY <1>3, <1>4, <2>1
<1>7. CASE ReleaseOverdue(t)
  <2>1. \/ task' = [task EXCEPT ![t] = Freed(t, "ready")] /\ runs' = Ended(t, "failed")
        \/ task' = task /\ runs' = runs
    BY Zenon, <1>7 DEF ReleaseOverdue
  <2> QED  BY <1>3, <1>4, <2>1
<1>8. CASE RecordTimeout(t)
  <2>1. task' = Failed(t, FailureLimit) /\ runs' = runs  BY Zenon, <1>8 DEF RecordTimeout
  <2> QED  BY <1>5, <2>1, KanbanAssumption
<1>9. CASE RecordCrash(t)
  <2>1. runs' = runs  BY Zenon, <1>9 DEF RecordCrash
  <2>2. \/ task' = Failed(t, FailureLimit) \/ task' = Failed(t, 1) \/ task' = Failed(t, 0)
        \/ task' = task
    BY <1>9 DEF RecordCrash
  <2>3. FailureLimit \in Nat  BY KanbanAssumption
  <2> QED  BY <1>3, <1>5, <2>1, <2>2, <2>3
<1>10. CASE ClaimReady(t)
  <2>1. Claim(t, GatewayLock) \/ ClaimRefused(t)  BY Zenon, <1>10 DEF ClaimReady
  <2>2. GatewayLock \in Claims  BY KanbanAssumption DEF Inv, TypeOK, GatewayLock, Claims
  <2> QED  BY <2>1, <2>2, ClaimRecorded, ClaimRefusedRecorded
<1>11. CASE RecordPid(t)
  <2> DEFINE x == [task[t] EXCEPT !.pid = tick.run]
  <2>1. runs' = runs /\ task' = [task EXCEPT ![t] = x]  BY <1>11 DEF RecordPid
  <2>2. x \in Task /\ x.status = task[t].status  BY <1>1 DEF Task, Tick
  <2> HIDE DEF x
  <2>3. task'[t] = x /\ \A u \in Tasks \ {t} : task'[u] = task[u]  BY <1>1, <2>1, <2>2, OneTask
  <2> QED  BY <2>1, <2>2, <2>3, RunsStand DEF OthersGoOn
<1>12. CASE SpawnFails(t)
  <2> DEFINE n    == task[t].failures + 1
             trip == n >= DispatchLimit
             hit  == task[t].status \in (IF trip THEN {"running", "ready"} ELSE {"running"})
             y    == [Freed(t, IF trip THEN "blocked" ELSE "ready") EXCEPT !.failures = n]
             z    == [task[t] EXCEPT !.run = 0]
  <2>1. /\ runs' = Ended(t, "failed")
        /\ task' = [task EXCEPT ![t] = IF hit THEN y ELSE [@ EXCEPT !.run = 0]]
    BY Zenon, <1>12 DEF SpawnFails
  <2>2. \/ task' = [task EXCEPT ![t] = y]
        \/ task' = [task EXCEPT ![t] = z] /\ task[t].status # "running"
    <3>1. CASE hit  BY <2>1, <3>1
    <3>2. CASE ~hit  BY <1>1, <2>1, <3>2
    <3> QED  BY <3>1, <3>2
  <2>3. PICK status \in {"blocked", "ready"} : status = IF trip THEN "blocked" ELSE "ready"
    OBVIOUS
  <2>4. PICK f \in Task : f = Freed(t, status) /\ f.status = status  BY <1>1, <1>2, <2>3, FreedIs
  <2>5. y = [f EXCEPT !.failures = n]  BY <2>3, <2>4
  <2>6. n \in Nat  BY <1>1 DEF Task
  <2>7. y \in Task /\ y.status = status  BY <2>4, <2>5, <2>6 DEF Task
  <2>8. z \in Task /\ z.status = task[t].status  BY <1>1 DEF Task
  <2> HIDE DEF y, z
  <2>9. PICK x \in Task : task' = [task EXCEPT ![t] = x] /\ x.status # "running"
    BY <2>2, <2>3, <2>7, <2>8
  <2>10. task'[t] = x /\ \A u \in Tasks \ {t} : task'[u] = task[u]  BY <1>1, <2>9, OneTask
  <2> QED  BY <1>2, <2>1, <2>9, <2>10, RunsEnd DEF OthersGoOn
<1> QED  BY <1>6, <1>7, <1>8, <1>9, <1>10, <1>11, <1>12

(* The board is left alone, or tasks that wait become ready.               *)
LEMMA BoardRecorded ==
  ASSUME UNCHANGED board
  PROVE  Recorded
<1>1. task' = task /\ runs' = runs  BY DEF board
<1> QED  BY <1>1 DEF Recorded, history, HistoryOf, Running

LEMMA PromotedRecorded ==
  ASSUME Inv, NEW limit \in Nat, limit <= Limit, task' = Promoted(limit), runs' = runs
  PROVE  Recorded
<1>1. TypeOK  BY DEF Inv
<1>2. \A t \in Tasks : task'[t].status = "running" <=> task[t].status = "running"
  BY <1>1, PromotedIs
<1>3. Running' = Running  BY <1>2 DEF Running
<1> QED  BY <1>3 DEF Recorded, history, HistoryOf

LEMMA DispatchRecorded ==
  ASSUME Inv, Dispatch
  PROVE  Recorded
<1>1. CASE BeginTick \/ FindOverdue
  <2>1. UNCHANGED board  BY Zenon, <1>1 DEF BeginTick, FindOverdue
  <2> QED  BY <2>1, BoardRecorded
<1>2. CASE PromoteReady
  <2>1. task' = Promoted(DispatchLimit) /\ runs' = runs  BY Zenon, <1>2 DEF PromoteReady
  <2> QED  BY <2>1, PromotedRecorded, LimitFacts, KanbanAssumption
<1>3. ASSUME NEW t \in Tasks, ExtendClaim(t) \/ KillStale(t) \/ KillOverdue(t) \/ StartWorker(t)
      PROVE  Recorded
  <2>1. UNCHANGED board  BY Zenon, <1>3 DEF ExtendClaim, KillStale, KillOverdue, StartWorker
  <2> QED  BY <2>1, BoardRecorded
<1>4. \/ BeginTick \/ DetectCrashed \/ FindOverdue \/ PromoteReady
      \/ \E t \in Tasks :
           \/ ExtendClaim(t) \/ KillStale(t) \/ ReleaseStale(t)
           \/ RecordCrash(t) \/ KillOverdue(t) \/ ReleaseOverdue(t) \/ RecordTimeout(t)
           \/ ClaimReady(t) \/ StartWorker(t) \/ RecordPid(t) \/ SpawnFails(t)
  BY Zenon DEF Dispatch
<1> QED  BY <1>1, <1>2, <1>3, <1>4, DetectCrashedRecorded, RowRecorded

(* Reports of workers, and operators who finish or block a task.           *)
LEMMA ReportRecorded ==
  ASSUME Inv, NEW t \in Tasks, Complete(t) \/ Block(t)
  PROVE  Recorded
<1>1. /\ \A u \in Tasks \ {t} : task'[u] = task[u]
      /\ task'[t].status # "running" /\ runs' \in EndedOrNoted(t, "reported")
  BY ReportedIs
<1>2. "reported" \in Ends \ {"open"}  BY DEF Ends
<1> QED  BY <1>1, <1>2, RunsEndOrNoted DEF OthersGoOn

LEMMA WorkRecorded ==
  ASSUME Inv, NEW r \in RunIds, Report(r) \/ Heartbeat(r) \/ Exit(r)
  PROVE  Recorded
<1>1. CASE Report(r)
  <2>1. r \in alive /\ (Complete(Mine(r)) \/ Block(Mine(r)))  BY Zenon, <1>1 DEF Report
  <2>2. r \in DOMAIN runs  BY <2>1 DEF Inv, TypeOK
  <2>3. PICK t \in Tasks : t = Mine(r)  BY <2>2, RunsOfTasks DEF Mine
  <2> QED  BY <2>1, <2>3, ReportRecorded
<1>2. CASE Heartbeat(r) \/ Exit(r)
  <2>1. UNCHANGED board  BY Zenon, <1>2 DEF Heartbeat, Exit
  <2> QED  BY <2>1, BoardRecorded
<1> QED  BY <1>1, <1>2

LEMMA DragRecorded ==
  ASSUME Inv, NEW t \in Tasks, NEW status \in DragTargets, Drag(t, status)
  PROVE  Recorded
<1> DEFINE running == task[t].status = "running"
           x    == [Freed(t, status) EXCEPT !.run = IF running THEN 0 ELSE task[t].run]
           y(u) == [task[u] EXCEPT !.status = "todo"]
           sent(u) == task[t].status \in Finished /\ t \in Parents(u) /\ task[u].status = "ready"
<1>1. runs' = IF running THEN Ended(t, "reclaimed") ELSE runs  BY Zenon DEF Drag
<1>2. task' = [u \in Tasks |-> IF u = t THEN x ELSE IF sent(u) THEN y(u) ELSE task[u]]
  BY DEF Drag
<1>3. TypeOK /\ \A u \in Tasks : task[u] \in Task  BY Standing
<1>4. PICK f \in Task : f = Freed(t, status) /\ f.status = status
  BY <1>3, FreedIs DEF DragTargets, Statuses
<1>5. x.status = status  BY <1>4 DEF Task
<1>6. \A u \in Tasks : sent(u) => y(u).status = "todo" /\ task[u].status = "ready"
  BY <1>3 DEF Task
<1> HIDE DEF x, y, sent
<1>7. task'[t].status # "running"  BY <1>2, <1>5 DEF DragTargets
<1>8. OthersGoOn(t)
  <2> SUFFICES ASSUME NEW u \in Tasks \ {t}
               PROVE  task'[u].status = "running" <=> task[u].status = "running"
    BY DEF OthersGoOn
  <2>1. CASE sent(u)  BY <1>2, <1>6, <2>1
  <2>2. CASE ~sent(u)  BY <1>2, <2>2
  <2> QED  BY <2>1, <2>2
<1>9. "reclaimed" \in Ends \ {"open"}  BY DEF Ends
<1>10. CASE running  BY <1>1, <1>7, <1>8, <1>9, <1>10, RunsEnd
<1>11. CASE ~running  BY <1>1, <1>7, <1>8, <1>11, RunsStand
<1> QED  BY <1>10, <1>11

LEMMA OperateRecorded ==
  ASSUME Inv, Operate
  PROVE  Recorded
<1>1. PICK t \in Tasks :
        \/ ClaimByHand(t) \/ CompleteByHand(t) \/ BlockByHand(t) \/ Schedule(t)
        \/ Unblock(t) \/ Promote(t) \/ Archive(t) \/ BeginReclaim(t)
        \/ \E status \in DragTargets : Drag(t, status)
        \/ \E p \in Tasks : Link(p, t) \/ Unlink(p, t)
  BY Zenon DEF Operate
<1>2. TypeOK /\ task \in [Tasks -> Task] /\ task[t] \in Task  BY Standing
<1>3. /\ {"reported", "reclaimed"} \subseteq Ends \ {"open"}
      /\ {"scheduled", "archived"} \subseteq Statuses \ {"running"}
  BY DEF Ends, Statuses
<1>4. ASSUME NEW x \in Task, task' = [task EXCEPT ![t] = x], x.status # "running",
             task[t].status # "running", runs' = runs
      PROVE  Recorded
  <2>1. task'[t] = x /\ \A u \in Tasks \ {t} : task'[u] = task[u]  BY <1>2, <1>4, OneTask
  <2> QED  BY <1>4, <2>1, RunsStand DEF OthersGoOn
<1>5. CASE ClaimByHand(t)
  <2> DEFINE lock == [by |-> "terminal", n |-> Len(runs) + 1]
  <2>1. Claim(t, lock) \/ ClaimRefused(t)  BY Zenon, <1>5 DEF ClaimByHand
  <2>2. Len(runs) \in Nat  BY Standing
  <2>3. lock \in Claims  BY <2>2 DEF Claims
  <2> HIDE DEF lock
  <2> QED  BY <2>1, <2>3, ClaimRecorded, ClaimRefusedRecorded
<1>6. CASE CompleteByHand(t) \/ BlockByHand(t)
  <2>1. Complete(t) \/ Block(t)  BY Zenon, <1>6 DEF CompleteByHand, BlockByHand
  <2> QED  BY <2>1, ReportRecorded
<1>7. CASE Schedule(t)
  <2>1. task' = [task EXCEPT ![t] = Freed(t, "scheduled")] /\ runs' \in EndedOrNoted(t, "reported")
    BY Zenon, <1>7 DEF Schedule
  <2> QED  BY <1>2, <1>3, <2>1, FreedOne, RunsEndOrNoted
<1>8. CASE Archive(t)
  <2>1. task' = [task EXCEPT ![t] = Freed(t, "archived")] /\ runs' = Ended(t, "reclaimed")
    BY Zenon, <1>8 DEF Archive
  <2> QED  BY <1>2, <1>3, <2>1, FreedOne, RunsEnd
<1>9. CASE Unblock(t)
  <2>1. PICK status \in {"ready", "todo"} :
          /\ runs' = Ended(t, "reclaimed")
          /\ task' = [task EXCEPT ![t].status = status, ![t].run = 0, ![t].failures = 0,
                                  ![t].sticky = FALSE]
    BY <1>9 DEF Unblock
  <2> DEFINE x == [task[t] EXCEPT !.status = status, !.run = 0, !.failures = 0, !.sticky = FALSE]
  <2>2. task' = [task EXCEPT ![t] = x]  BY <1>2, <2>1
  <2>3. x \in Task /\ x.status # "running"  BY <1>2, <2>1 DEF Task, Statuses
  <2> HIDE DEF x
  <2>4. task'[t] = x /\ \A u \in Tasks \ {t} : task'[u] = task[u]  BY <1>2, <2>2, <2>3, OneTask
  <2> QED  BY <1>3, <2>1, <2>3, <2>4, RunsEnd DEF OthersGoOn
<1>10. CASE Promote(t)
  <2> DEFINE x == [task[t] EXCEPT !.status = "ready"]
  <2>1. task' = [task EXCEPT ![t] = x] /\ runs' = runs /\ task[t].status \in {"todo", "blocked"}
    BY <1>10 DEF Promote
  <2>2. x \in Task /\ x.status # "running"  BY <1>2 DEF Task, Statuses
  <2> HIDE DEF x
  <2> QED  BY <1>4, <2>1, <2>2
<1>11. CASE BeginReclaim(t)
  <2>1. UNCHANGED board  BY Zenon, <1>11 DEF BeginReclaim
  <2> QED  BY <2>1, BoardRecorded
<1>12. ASSUME NEW p \in Tasks, Link(p, t) \/ Unlink(p, t)  PROVE Recorded
  <2> DEFINE x == [task[t] EXCEPT !.status = "todo"]
  <2>1. runs' = runs  BY <1>12 DEF Link, Unlink
  <2>2. \/ task' = [task EXCEPT ![t] = x] /\ task[t].status = "ready"
        \/ task' = task
    BY <1>12 DEF Link, Unlink
  <2>3. x \in Task /\ x.status = "todo"  BY <1>2 DEF Task, Statuses
  <2> HIDE DEF x
  <2>4. CASE task' = [task EXCEPT ![t] = x] /\ task[t].status = "ready"
    BY <1>4, <2>1, <2>3, <2>4
  <2>5. CASE task' = task  BY <2>1, <2>5, RunsStand DEF OthersGoOn
  <2> QED  BY <2>2, <2>4, <2>5
<1> QED
  BY <1>1, <1>5, <1>6, <1>7, <1>8, <1>9, <1>10, <1>11, <1>12, DragRecorded

LEMMA SettleReclaimRecorded ==
  ASSUME Inv, SettleReclaim
  PROVE  Recorded
<1>1. PICK t : t = reclaim.on  OBVIOUS
<1>2. reclaim # NULL  BY Zenon DEF SettleReclaim
<1>3. \/ task' = [task EXCEPT ![t] = Freed(t, "ready")] /\ runs' = Ended(t, "reclaimed")
      \/ task' = task /\ runs' = runs
  BY Zenon, <1>1 DEF SettleReclaim
<1>4. TypeOK /\ t \in Tasks  BY <1>1, <1>2, Standing
<1>5. "reclaimed" \in Ends \ {"open"} /\ "ready" \in Statuses \ {"running"}
  BY DEF Ends, Statuses
<1>6. CASE task' = [task EXCEPT ![t] = Freed(t, "ready")] /\ runs' = Ended(t, "reclaimed")
  BY <1>4, <1>5, <1>6, FreedOne, RunsEnd
<1>7. CASE task' = task /\ runs' = runs  BY <1>4, <1>7, RunsStand DEF OthersGoOn
<1> QED  BY <1>3, <1>6, <1>7

LEMMA FollowUpRecorded ==
  ASSUME Inv, NEW t \in Tasks, ClearFailures(t) \/ Recompute(t)
  PROVE  Recorded
<1>1. CASE ClearFailures(t)
  <2> DEFINE x == [task[t] EXCEPT !.failures = 0]
  <2>1. TypeOK /\ task[t] \in Task  BY Standing
  <2>2. runs' = runs /\ task' = [task EXCEPT ![t] = x]  BY <1>1 DEF ClearFailures
  <2>3. x \in Task /\ x.status = task[t].status  BY <2>1 DEF Task
  <2> HIDE DEF x
  <2>4. task'[t] = x /\ \A u \in Tasks \ {t} : task'[u] = task[u]  BY <2>1, <2>2, <2>3, OneTask
  <2> QED  BY <2>2, <2>3, <2>4, RunsStand DEF OthersGoOn
<1>2. CASE Recompute(t)
  <2>1. task' = Promoted(FailureLimit) /\ runs' = runs  BY Zenon, <1>2 DEF Recompute
  <2> QED  BY <2>1, PromotedRecorded, LimitFacts, KanbanAssumption
<1> QED  BY <1>1, <1>2

LEMMA NextRecorded ==
  ASSUME Inv, Next
  PROVE  Recorded
<1>1. CASE GatewayDies \/ LoseFollowUp
  <2>1. UNCHANGED board  BY Zenon, <1>1 DEF GatewayDies, LoseFollowUp
  <2> QED  BY <2>1, BoardRecorded
<1>2. CASE Work
  <2>1. PICK r \in RunIds : Report(r) \/ Heartbeat(r) \/ Exit(r)  BY <1>2 DEF Work
  <2> QED  BY <2>1, WorkRecorded
<1>3. CASE FollowUp
  <2>1. PICK t \in Tasks : ClearFailures(t) \/ Recompute(t)  BY <1>3 DEF FollowUp
  <2> QED  BY <2>1, FollowUpRecorded
<1> QED
  BY <1>1, <1>2, <1>3, DispatchRecorded, OperateRecorded, SettleReclaimRecorded DEF Next

(* The history keeps an open run for every task that works, whatever board *)
(* it is the history of.                                                   *)
LEMMA WorkingStaysOpen ==
  ASSUME Inv, WorkingOpen, Recorded
  PROVE  WorkingOpen'
<1> DEFINE S == [task : Tasks, end : Ends]
           Opened(t, h) == \E i \in DOMAIN h : h[i].task = t /\ h[i].end = "open"
<1>1. \A t \in Running : Opened(t, history)  BY DEF WorkingOpen, history, HistoryOf
<1>2. /\ history \in Seq(S) /\ DOMAIN history = 1..Len(history) /\ Len(history) \in Nat
      /\ \A i \in DOMAIN history : history[i] \in S
  <2>1. runs \in Seq(Run) /\ DOMAIN runs = 1..Len(runs) /\ Len(runs) \in Nat  BY Standing
  <2>2. history = [r \in 1..Len(runs) |-> [task |-> runs[r].task, end |-> runs[r].end]]
    BY <2>1 DEF history, HistoryOf
  <2>3. \A r \in 1..Len(runs) : [task |-> runs[r].task, end |-> runs[r].end] \in S
    <3>1. \A r \in 1..Len(runs) : runs[r] \in Run  BY <2>1
    <3> QED  BY <3>1 DEF Run
  <2> HIDE DEF S
  <2>4. history \in Seq(S) /\ Len(history) = Len(runs)  BY <2>1, <2>2, <2>3
  <2> QED  BY <2>1, <2>2, <2>3, <2>4
<1>3. ASSUME NEW h \in Seq(S), NEW e \in S, NEW a, a = Append(h, e)
      PROVE  /\ \A t : Opened(t, h) => Opened(t, a)
             /\ e.end = "open" => Opened(e.task, a)
  <2>1. /\ DOMAIN a = DOMAIN h \cup {Len(h) + 1} /\ a[Len(h) + 1] = e
        /\ \A i \in DOMAIN h : a[i] = h[i]
    BY <1>3, AppendProperties
  <2> QED  BY <2>1
<1>4. ASSUME NEW T, NEW how, NEW c, c = History!Closed(T, how)
      PROVE  /\ DOMAIN c = DOMAIN history
             /\ \A i \in DOMAIN history :
                  c[i] = IF history[i].task \in T /\ history[i].end = "open"
                         THEN [history[i] EXCEPT !.end = how[history[i].task]] ELSE history[i]
  BY <1>4 DEF History!Closed, History!IsOpen, history, HistoryOf
<1>5. \A t \in Running' : Opened(t, history')
  <2>1. CASE history' = history /\ Running' = Running  BY <1>1, <2>1
  <2>2. ASSUME NEW T \in SUBSET Tasks, History!Finish(T)
        PROVE  \A t \in Running' : Opened(t, history')
    <3>1. PICK how, c : c = history' /\ c = History!Closed(T, how)
      BY <2>2 DEF History!Finish, history, HistoryOf
    <3>2. Running' = Running \ T  BY <2>2 DEF History!Finish
    <3> SUFFICES ASSUME NEW t \in Running \ T  PROVE Opened(t, history')
      BY <3>2
    <3>3. PICK i \in DOMAIN history : history[i].task = t /\ history[i].end = "open"  BY <1>1
    <3>4. history[i].task \notin T  BY <3>3
    <3>5. /\ DOMAIN c = DOMAIN history
          /\ \A j \in DOMAIN history :
               c[j] = IF history[j].task \in T /\ history[j].end = "open"
                      THEN [history[j] EXCEPT !.end = how[history[j].task]] ELSE history[j]
      BY <1>4, <3>1
    <3>6. i \in DOMAIN c /\ c[i] = history[i]  BY <3>3, <3>4, <3>5
    <3> QED  BY <3>1, <3>3, <3>6
  <2>3. ASSUME NEW t \in Tasks, History!Begin(t)  PROVE \A u \in Running' : Opened(u, history')
    <3> DEFINE how == [u \in {t} |-> "reclaimed"]
               c == History!Closed({t}, how)
               e == [task |-> t, end |-> "open"]
    <3>1. history' = Append(c, e) /\ Running' = Running \cup {t}
      BY <2>3 DEF History!Begin, history, HistoryOf
    <3>2. /\ DOMAIN c = DOMAIN history
          /\ \A i \in DOMAIN history :
               c[i] = IF history[i].task \in {t} /\ history[i].end = "open"
                      THEN [history[i] EXCEPT !.end = how[history[i].task]] ELSE history[i]
      BY <1>4
    <3>3. e \in S /\ e.end = "open" /\ e.task = t  BY DEF Ends
    <3>4. c \in Seq(S)
      <4>1. \A i \in DOMAIN history : c[i] \in S  BY <1>2, <3>2 DEF Ends
      <4>2. c = [i \in DOMAIN history |-> c[i]]
        BY <3>2 DEF History!Closed, history, HistoryOf
      <4> HIDE DEF c, S
      <4>3. PICK n \in Nat : n = Len(history) /\ DOMAIN history = 1..n  BY <1>2
      <4>4. c = [i \in 1..n |-> c[i]] /\ \A i \in 1..n : c[i] \in S  BY <4>1, <4>2, <4>3
      <4> QED  BY <4>4
    <3> HIDE DEF c, e, S, how
    <3> SUFFICES ASSUME NEW u \in Running \cup {t}  PROVE Opened(u, history')
      BY <3>1
    <3>5. CASE u = t  BY <1>3, <3>1, <3>3, <3>4, <3>5
    <3>6. CASE u \in Running \ {t}
      <4>1. PICK i \in DOMAIN history : history[i].task = u /\ history[i].end = "open"
        BY <1>1, <3>6
      <4>2. i \in DOMAIN c /\ c[i] = history[i]  BY <3>2, <3>6, <4>1
      <4>3. Opened(u, c)  BY <4>1, <4>2
      <4> QED  BY <1>3, <3>1, <3>3, <3>4, <4>3
    <3> QED  BY <3>5, <3>6
  <2>4. ASSUME NEW t \in Tasks, History!Note(t)  PROVE \A u \in Running' : Opened(u, history')
    <3>1. PICK end \in Ends : history' = Append(history, [task |-> t, end |-> end])
      BY <2>4 DEF History!Note, history, HistoryOf
    <3>2. Running' = Running  BY <2>4 DEF History!Note
    <3> DEFINE e == [task |-> t, end |-> end]
    <3>3. history' = Append(history, e) /\ e \in S  BY <3>1
    <3> HIDE DEF e, S, Opened
    <3> QED  BY <1>1, <1>2, <1>3, <3>2, <3>3
  <2>5. ASSUME NEW t \in Tasks, History!Stop(t)  PROVE \A u \in Running' : Opened(u, history')
    <3>1. history' = history  BY <2>5 DEF History!Stop, history, HistoryOf
    <3>2. Running' = Running \ {t}  BY <2>5 DEF History!Stop
    <3> QED  BY <1>1, <3>1, <3>2
  <2> QED  BY <2>1, <2>2, <2>3, <2>4, <2>5 DEF Recorded, History!Next
<1> QED  BY <1>5 DEF WorkingOpen, history, HistoryOf

LEMMA StutterRecorded ==
  ASSUME UNCHANGED vars
  PROVE  Recorded
<1>1. UNCHANGED board  BY DEF vars
<1> QED  BY <1>1, BoardRecorded

(* A task that runs has a run that is open, however it came to run: no     *)
(* sweep, report or move takes the run and leaves the task running.        *)
THEOREM RunningTasksAreOpen == Spec => []WorkingOpen
<1>1. Init => WorkingOpen
  <2> SUFFICES ASSUME Init  PROVE Running = {}
    BY DEF WorkingOpen
  <2>1. \A t \in Tasks : task[t].status \in {"todo", "ready"}  BY DEF Init, Fresh
  <2> QED  BY <2>1 DEF Running
<1>2. Inv /\ WorkingOpen /\ [Next]_vars => WorkingOpen'
  BY NextRecorded, StutterRecorded, WorkingStaysOpen
<1> QED  BY <1>1, <1>2, Invariance, PTL DEF Spec

(* Claims, sweeps, reports and moves keep the run history of RunHistory:   *)
(* no end is written over, no task has two open runs, and one that runs    *)
(* has one.                                                                *)
THEOREM HistoryKept == Spec => KeepsHistory
<1>1. Init => History!Init
  <2> SUFFICES ASSUME Init  PROVE History!Init
    OBVIOUS
  <2>1. \A t \in Tasks : task[t].status \in {"todo", "ready"}  BY DEF Init, Fresh
  <2>2. runs = <<>>  BY DEF Init
  <2>3. Running = {}  BY <2>1 DEF Running
  <2>4. history = <<>>  BY <2>2 DEF history, HistoryOf
  <2> QED  BY <2>3, <2>4 DEF History!Init, history, HistoryOf
<1>2. Inv /\ [Next]_vars
        => \/ History!Next
           \/ UNCHANGED <<[r \in DOMAIN runs |-> [task |-> runs[r].task, end |-> runs[r].end]],
                          Running>>
  BY NextRecorded, StutterRecorded DEF Recorded, history, HistoryOf
<1> QED  BY <1>1, <1>2, Invariance, PTL DEF Spec, KeepsHistory, History!Spec
=============================================================================
