-------------------------------- MODULE Kanban --------------------------------
(***************************************************************************)
(* The Kanban board (honeyos/runtime/kanban_db.py): tasks, their runs, the *)
(* dispatcher that claims ready tasks and spawns a worker process for      *)
(* each, the workers that report back, and the operators who move cards    *)
(* from the dashboard and the command line.                                *)
(*                                                                         *)
(* Every write is one IMMEDIATE transaction of the board's SQLite file.    *)
(* The dispatcher's sweeps read rows first, may wait seconds for a process *)
(* to die, and write later; a failure is counted in a transaction of its   *)
(* own.  A file lock lets one tick run at a time; it holds back neither    *)
(* workers nor operators.                                                  *)
(*                                                                         *)
(* A worker process is known by the run it was started for.  Left out: the *)
(* review column (no code writes that status), the heartbeat sweep that is *)
(* off by default, per-task retry limits, other hosts, and what decides    *)
(* which of the ready tasks a tick leaves for later.                       *)
(***************************************************************************)
EXTENDS Naturals, Sequences, FiniteSets

CONSTANTS
  Tasks, NULL,
  FailureLimit,     \* DEFAULT_FAILURE_LIMIT
  DispatchLimit,    \* kanban.failure_limit, given to the tick
  ViolationLimit,   \* _PROTOCOL_VIOLATION_FAILURE_LIMIT
  SystemicCount,    \* equal crashes in one sweep that count as systemic
  BlockLimit,       \* BLOCK_RECURRENCE_LIMIT
  MaxRuns, MaxMoves, MaxFaults      \* bounds

\* claim_lock is host:pid of the process that claimed.
Claims == [by: {"gateway", "terminal"}, n: Nat]

ASSUME KanbanAssumption ==
  /\ NULL \notin Tasks /\ NULL \notin Claims
  /\ FailureLimit \in Nat \ {0} /\ DispatchLimit \in Nat \ {0}
  /\ ViolationLimit \in Nat \ {0} /\ SystemicCount \in Nat \ {0} /\ BlockLimit \in Nat \ {0}
  /\ MaxRuns \in Nat /\ MaxMoves \in Nat /\ MaxFaults \in Nat

VARIABLES
  task,     \* tasks
  links,    \* task_links: parent, child
  runs,     \* task_runs, in the order of their ids
  alive,    \* runs whose worker process lives
  tick,     \* the dispatcher's tick
  late,     \* claims that had expired when the tick began and still have
  reclaim,  \* an operator's reclaim under way
  after,    \* transactions that follow one already committed
  moves,    \* operators' moves so far
  faults,   \* deaths of the gateway and failed writes so far
  spent     \* history: failed runs of a task since someone saw to it

board == <<task, links, runs>>
vars  == <<board, alive, tick, late, reclaim, after, moves, faults, spent>>

Statuses == {"triage", "todo", "scheduled", "ready", "running", "blocked", "done", "archived"}
\* How a run ended: failed (crashed, timed_out, spawn_failed, gave_up), reported
\* (completed, blocked, scheduled) or taken away (reclaimed); two more count apart.
Ends     == {"open", "failed", "violation", "rate_limited", "reported", "reclaimed"}

RunIds == 1..MaxRuns
Lock   == Claims \cup {NULL}
Row    == [lock: Lock, pid: {0} \cup RunIds]
Task   == [status: Statuses, lock: Lock, pid: {0} \cup RunIds, run: {0} \cup RunIds,
           failures: Nat, sticky: BOOLEAN, again: 0..BlockLimit]
Run    == [task: Tasks, lock: Lock, end: Ends]

\* "rows" is what the sweep read of each row: the row, or how its worker ended.
Tick   == [at: {"idle", "stale", "crash", "timeout", "spawn"}, rows: {tick.rows},
           on: Tasks \cup {NULL}, step: {"read", "killed", "released", "claimed", "started"},
           run: {0} \cup RunIds]

TypeOK ==
  /\ task \in [Tasks -> Task]
  /\ links \subseteq Tasks \X Tasks
  /\ runs \in Seq(Run) /\ Len(runs) <= MaxRuns
  /\ alive \subseteq DOMAIN runs
  /\ tick \in Tick /\ DOMAIN tick.rows \subseteq Tasks
  /\ tick.on \in DOMAIN tick.rows \cup {NULL}
  /\ late \subseteq Tasks
  /\ reclaim = NULL \/ (reclaim.on \in Tasks /\ reclaim.lock \in Lock)
  /\ after \subseteq {"clear", "clear_recompute", "recompute"} \X Tasks
  /\ moves \in 0..MaxMoves /\ faults \in 0..MaxFaults
  /\ spent \in [Tasks -> Nat]

NoRows == [t \in {} |-> NULL]
Idle == [at |-> "idle", rows |-> NoRows, on |-> NULL, step |-> "read", run |-> 0]

Fresh(status) == [status |-> status, lock |-> NULL, pid |-> 0, run |-> 0,
                  failures |-> 0, sticky |-> FALSE, again |-> 0]

(* create_task: ready, or todo below a parent.                             *)
Init ==
  /\ links \in {{}} \cup {{<<p, c>>} : p \in Tasks, c \in Tasks}
  /\ \A t \in Tasks : <<t, t>> \notin links
  /\ task = [t \in Tasks |-> Fresh(IF \E p \in Tasks : <<p, t>> \in links THEN "todo" ELSE "ready")]
  /\ runs = <<>> /\ alive = {}
  /\ tick = Idle /\ late = {} /\ reclaim = NULL /\ after = {}
  /\ moves = 0 /\ faults = 0
  /\ spent = [t \in Tasks |-> 0]

----------------------------------------------------------------------------
(* What the transactions are made of.                                      *)

Finished == {"done", "archived"}
Parents(t) == {p \in Tasks : <<p, t>> \in links}
ParentsFinished(t) == \A p \in Parents(t) : task[p].status \in Finished
ParentsDone(t) == \A p \in Parents(t) : task[p].status = "done"

(* _end_run closes the current run, if there is one ...                    *)
Ended(t, how) ==
  IF task[t].run = 0 \/ runs[task[t].run].end # "open" THEN runs
  ELSE [runs EXCEPT ![task[t].run].end = how]

(* ... and a task that had none gets one that is closed at once, when      *)
(* there is something to say about it.                                     *)
EndedOrNoted(t, how) ==
  IF task[t].run = 0
  THEN {runs} \cup (IF Len(runs) < MaxRuns
                    THEN {Append(runs, [task |-> t, lock |-> NULL, end |-> how])} ELSE {})
  ELSE {Ended(t, how)}

(* The claim is released and the pointer to the run cleared.               *)
Freed(t, status) == [task[t] EXCEPT !.status = status, !.lock = NULL, !.pid = 0, !.run = 0]

(* recompute_ready.                                                        *)
Promotable(t, limit) ==
  /\ ParentsFinished(t)
  /\ \/ task[t].status = "todo"
     \/ task[t].status = "blocked" /\ ~task[t].sticky /\ task[t].failures < limit

Promoted(limit) ==
  [t \in Tasks |-> IF Promotable(t, limit) THEN [task[t] EXCEPT !.status = "ready"] ELSE task[t]]

\* Mutant: the parents are not looked at again.
ClaimableOnSight(t) == task[t].status = "ready" /\ task[t].lock = NULL

(* claim_task: ready, unclaimed, and every parent finished.                *)
Claimable(t) ==
  /\ ParentsFinished(t)
  /\ task[t].status = "ready" /\ task[t].lock = NULL

Claim(t, lock) ==
  /\ Claimable(t) /\ Len(runs) < MaxRuns
  /\ runs' = Append(Ended(t, "reclaimed"), [task |-> t, lock |-> lock, end |-> "open"])
  /\ task' = [task EXCEPT ![t].status = "running", ![t].lock = lock, ![t].run = Len(runs) + 1]
  /\ late' = late \ {t}

(* A claim that is refused commits what it wrote before: a ready task      *)
(* whose parents are not finished goes back to todo, and the run of a      *)
(* ready task that somebody holds is closed.                               *)
ClaimRefused(t) ==
  /\ ~Claimable(t)
  /\ IF task[t].status # "ready" THEN UNCHANGED <<task, runs>>
     ELSE IF ParentsFinished(t) THEN runs' = Ended(t, "reclaimed") /\ UNCHANGED task
     ELSE task' = [task EXCEPT ![t].status = "todo"] /\ UNCHANGED runs
  /\ UNCHANGED late

(* _record_task_failure after a crash or a timeout: the task was released  *)
(* in an earlier transaction.                                              *)
Failed(t, limit) ==
  LET n == task[t].failures + 1
  IN  IF n < limit THEN [task EXCEPT ![t].failures = n]
      ELSE IF task[t].status \in {"ready", "running"}
           THEN [task EXCEPT ![t].failures = n, ![t].status = "blocked"]
           ELSE task

Counted(t) == spent' = [spent EXCEPT ![t] = @ + 1]

----------------------------------------------------------------------------
(* The dispatcher's tick: its sweeps in order, the rows of each read       *)
(* first.  "on" is the row at work; a sweep that finds no row is passed    *)
(* over, and the tick ends with its last row.                              *)

GatewayLock == [by |-> "gateway", n |-> faults]

Sweep(at, rows) ==
  IF at = "spawn" /\ DOMAIN rows = {} THEN Idle ELSE [Idle EXCEPT !.at = at, !.rows = rows]
Swept(earlier) == tick.at \in earlier /\ DOMAIN tick.rows = {}
Pending(at, t) == tick.at = at /\ tick.on = NULL /\ t \in DOMAIN tick.rows
Working(at, t, step) == tick.at = at /\ tick.on = t /\ t \in Tasks /\ tick.step = step
Without(t) == Sweep(tick.at, [u \in DOMAIN tick.rows \ {t} |-> tick.rows[u]])
RowOf(t) == [lock |-> task[t].lock, pid |-> task[t].pid]

Running == {t \in Tasks : task[t].status = "running"}

(* SIGTERM, a wait, SIGKILL: the process may survive them.                 *)
Kill(pid) == alive' \in {alive, alive \ {pid}}

(* release_stale_claims reads the claims that have expired.                *)
BeginTick ==
  /\ Swept({"idle"})
  /\ \E expired \in SUBSET Running \ {{}} :
       /\ tick' = Sweep("stale", [t \in expired |-> RowOf(t)])
       /\ late' = expired
  /\ UNCHANGED <<board, alive, reclaim, after, moves, faults, spent>>

(* The worker lives and has shown progress: its claim is extended.         *)
ExtendClaim(t) ==
  /\ Pending("stale", t)
  /\ tick.rows[t].pid \in alive
  /\ tick' = Without(t) /\ late' = late \ {t}
  /\ UNCHANGED <<board, alive, reclaim, after, moves, faults, spent>>

(* It does not live, or has not beaten for an hour.                        *)
KillStale(t) ==
  /\ Pending("stale", t)
  /\ Kill(tick.rows[t].pid)
  /\ tick' = [tick EXCEPT !.on = t, !.step = "killed"]
  /\ UNCHANGED <<board, late, reclaim, after, moves, faults, spent>>

\* Mutant: the claim is released although the worker survived.
ReleaseStaleSurvivor(t) ==
  /\ Working("stale", t, "killed")
  /\ IF task[t].status = "running" /\ task[t].lock = tick.rows[t].lock /\ t \in late
     THEN task' = [task EXCEPT ![t] = Freed(t, "ready")] /\ runs' = Ended(t, "reclaimed")
     ELSE UNCHANGED <<task, runs>>
  /\ tick' = Without(t) /\ late' = late \ {t}
  /\ UNCHANGED <<links, alive, reclaim, after, moves, faults, spent>>

(* A worker that survived keeps its claim for a while; otherwise the claim *)
(* is released, if it is still the one read and still expired.             *)
ReleaseStale(t) ==
  /\ Working("stale", t, "killed")
  /\ IF /\ tick.rows[t].pid \notin alive
        /\ task[t].status = "running" /\ task[t].lock = tick.rows[t].lock /\ t \in late
     THEN task' = [task EXCEPT ![t] = Freed(t, "ready")] /\ runs' = Ended(t, "reclaimed")
     ELSE UNCHANGED <<task, runs>>
  /\ tick' = Without(t) /\ late' = late \ {t}
  /\ UNCHANGED <<links, alive, reclaim, after, moves, faults, spent>>

(* detect_crashed_workers: one transaction for every dead worker.  How it  *)
(* went tells the exit status.                                             *)
DetectCrashed ==
  /\ Swept({"idle", "stale"})
  /\ \E dead \in SUBSET {t \in Running : task[t].pid # 0 /\ task[t].pid \notin alive} \ {{}} :
     \E how \in [dead -> {"failed", "violation", "rate_limited"}] :
       LET crashed == {t \in dead : how[t] = "failed"}
           charged == {t \in dead : how[t] # "rate_limited"}
       IN  /\ task' = [t \in Tasks |-> IF t \in dead THEN Freed(t, "ready") ELSE task[t]]
           /\ runs' = [r \in DOMAIN runs |->
                IF runs[r].end = "open" /\ \E t \in dead : task[t].run = r
                THEN [runs[r] EXCEPT !.end = how[runs[r].task]] ELSE runs[r]]
           /\ tick' = Sweep("crash", [t \in charged |->
                IF t \in crashed /\ Cardinality(crashed) >= SystemicCount THEN "systemic" ELSE how[t]])
           /\ spent' = [t \in Tasks |-> IF t \in crashed THEN spent[t] + 1 ELSE spent[t]]
  /\ UNCHANGED <<links, alive, late, reclaim, after, moves, faults>>

(* _protocol_violation_streak: the violations that end the task's history, *)
(* quota walls aside.                                                      *)
Streak(t) ==
  LET mine == {r \in DOMAIN runs : runs[r].task = t /\ runs[r].end \notin {"open", "rate_limited"}}
  IN  Cardinality({r \in mine : \A q \in mine : q >= r => runs[q].end = "violation"})

(* Each crash is accounted for in a transaction of its own.                *)
RecordCrash(t) ==
  /\ Pending("crash", t)
  /\ task' = CASE tick.rows[t] = "failed"  -> Failed(t, FailureLimit)
               [] tick.rows[t] = "systemic" -> Failed(t, 1)
               [] OTHER -> IF Streak(t) < ViolationLimit THEN task ELSE Failed(t, 0)
  /\ tick' = Without(t)
  /\ UNCHANGED <<links, runs, alive, late, reclaim, after, moves, faults, spent>>

(* enforce_max_runtime reads the running tasks whose worker is known.      *)
FindOverdue ==
  /\ Swept({"idle", "stale", "crash"})
  /\ \E overdue \in SUBSET {t \in Running : task[t].pid # 0} \ {{}} :
       tick' = Sweep("timeout", [t \in overdue |-> RowOf(t)])
  /\ UNCHANGED <<board, alive, late, reclaim, after, moves, faults, spent>>

KillOverdue(t) ==
  /\ Pending("timeout", t)
  /\ Kill(tick.rows[t].pid)
  /\ tick' = [tick EXCEPT !.on = t, !.step = "killed"]
  /\ UNCHANGED <<board, late, reclaim, after, moves, faults, spent>>

(* Released whether the worker died or not.                                *)
ReleaseOverdue(t) ==
  /\ Working("timeout", t, "killed")
  /\ IF task[t].status = "running" /\ RowOf(t) = tick.rows[t]
     THEN /\ task' = [task EXCEPT ![t] = Freed(t, "ready")]
          /\ runs' = Ended(t, "failed")
          /\ tick' = [tick EXCEPT !.step = "released"]
          /\ Counted(t)
     ELSE tick' = Without(t) /\ UNCHANGED <<task, runs, spent>>
  /\ UNCHANGED <<links, alive, late, reclaim, after, moves, faults>>

RecordTimeout(t) ==
  /\ Working("timeout", t, "released")
  /\ task' = Failed(t, FailureLimit)
  /\ tick' = Without(t)
  /\ UNCHANGED <<links, runs, alive, late, reclaim, after, moves, faults, spent>>

(* recompute_ready; then the ready rows are read, of which caps, profiles  *)
(* and the respawn guard may put any off.                                  *)
PromoteReady ==
  /\ Swept({"idle", "stale", "crash", "timeout"})
  /\ task' = Promoted(DispatchLimit)
  /\ \E due \in SUBSET {t \in Tasks : task'[t].status = "ready" /\ task'[t].lock = NULL} :
       tick' = Sweep("spawn", [t \in due |-> NULL])
  /\ UNCHANGED <<links, runs, alive, late, reclaim, after, moves, faults, spent>>

ClaimReady(t) ==
  /\ Pending("spawn", t)
  /\ \/ Claim(t, GatewayLock) /\ tick' = [tick EXCEPT !.on = t, !.step = "claimed", !.run = Len(runs')]
     \/ ClaimRefused(t) /\ tick' = Without(t)
  /\ UNCHANGED <<links, alive, reclaim, after, moves, faults, spent>>

(* _default_spawn: the worker is told its run and its claim.               *)
StartWorker(t) ==
  /\ Working("spawn", t, "claimed")
  /\ alive' = alive \cup {tick.run}
  /\ tick' = [tick EXCEPT !.step = "started"]
  /\ UNCHANGED <<board, late, reclaim, after, moves, faults, spent>>

\* Mutant: a worker that starts wipes the failures.
RecordPidForgiving(t) ==
  /\ Working("spawn", t, "started")
  /\ task' = [task EXCEPT ![t].pid = tick.run, ![t].failures = 0]
  /\ tick' = Without(t)
  /\ UNCHANGED <<links, runs, alive, late, reclaim, after, moves, faults, spent>>

(* _set_worker_pid, whatever became of the task meanwhile.                 *)
RecordPid(t) ==
  /\ Working("spawn", t, "started")
  /\ task' = [task EXCEPT ![t].pid = tick.run]
  /\ tick' = Without(t)
  /\ UNCHANGED <<links, runs, alive, late, reclaim, after, moves, faults, spent>>

(* _record_spawn_failure: the workspace is missing, the process does not   *)
(* start, or its pid cannot be written.                                    *)
SpawnFails(t) ==
  /\ tick.step \in {"claimed", "started"} /\ Working("spawn", t, tick.step)
  /\ IF tick.step = "started" THEN faults < MaxFaults /\ faults' = faults + 1
     ELSE UNCHANGED faults
  /\ LET n    == task[t].failures + 1
         trip == n >= DispatchLimit
         hit  == task[t].status \in (IF trip THEN {"running", "ready"} ELSE {"running"})
     IN  /\ task' = [task EXCEPT ![t] =
              IF hit THEN [Freed(t, IF trip THEN "blocked" ELSE "ready") EXCEPT !.failures = n]
              ELSE [@ EXCEPT !.run = 0]]
         /\ runs' = Ended(t, "failed")
         /\ IF hit THEN Counted(t) ELSE UNCHANGED spent
  /\ tick' = Without(t)
  /\ UNCHANGED <<links, alive, late, reclaim, after, moves>>

(* The gateway dies and starts again; its workers live on.                 *)
GatewayDies ==
  /\ faults < MaxFaults /\ tick.at # "idle"
  /\ faults' = faults + 1
  /\ tick' = Idle /\ late' = {}
  /\ UNCHANGED <<board, alive, reclaim, after, moves, spent>>

----------------------------------------------------------------------------
(* Worker processes.                                                       *)

Mine(r) == runs[r].task

(* complete_task of a task that may be finished.                           *)
Complete(t) ==
  /\ task[t].status \in {"running", "ready", "blocked"}
  /\ task' = [task EXCEPT ![t] = [Freed(t, "done") EXCEPT !.again = 0]]
  /\ runs' \in EndedOrNoted(t, "reported")
  /\ after' = after \cup {<<"clear_recompute", t>>}

(* block_task: a dependency waits in todo; a task blocked again for the    *)
(* same cause goes to triage, a new cause counts from one.                 *)
Block(t) ==
  /\ task[t].status \in {"running", "ready"}
  /\ \/ task' = [task EXCEPT ![t] = [Freed(t, "todo") EXCEPT !.again = 0]]
     \/ \E n \in {1, task[t].again + 1} :
          task' = [task EXCEPT ![t] =
            IF n < BlockLimit THEN [Freed(t, "blocked") EXCEPT !.again = n, !.sticky = TRUE]
            ELSE [Freed(t, "triage") EXCEPT !.again = BlockLimit]]
  /\ runs' \in EndedOrNoted(t, "reported")
  /\ UNCHANGED after

\* Mutant: the run the worker was started for is not compared.
ExpectedAnyRun(r) == TRUE

(* expected_run_id: the report is about the run the worker was started     *)
(* for, which must still be the current one.                               *)
ExpectedRun(r) == task[Mine(r)].run = r

Report(r) ==
  /\ r \in alive /\ ExpectedRun(r)
  /\ Complete(Mine(r)) \/ Block(Mine(r))
  /\ UNCHANGED <<links, alive, tick, late, reclaim, moves, faults, spent>>

(* heartbeat_claim compares the claim, not the run.                        *)
Heartbeat(r) ==
  /\ r \in alive /\ Mine(r) \in late
  /\ task[Mine(r)].status = "running" /\ task[Mine(r)].lock = runs[r].lock
  /\ late' = late \ {Mine(r)}
  /\ UNCHANGED <<board, alive, tick, reclaim, after, moves, faults, spent>>

Exit(r) ==
  /\ r \in alive
  /\ alive' = alive \ {r}
  /\ UNCHANGED <<board, tick, late, reclaim, after, moves, faults, spent>>

----------------------------------------------------------------------------
(* Operators: dashboard and command line.                                  *)

Move ==
  /\ moves < MaxMoves /\ moves' = moves + 1
  /\ spent' = [t \in Tasks |-> 0]
  /\ UNCHANGED <<tick, faults>>

(* honeyos kanban claim, from a terminal: no worker process.               *)
ClaimByHand(t) ==
  /\ Move
  /\ Claim(t, [by |-> "terminal", n |-> Len(runs) + 1]) \/ ClaimRefused(t)
  /\ UNCHANGED <<links, alive, reclaim, after>>

CompleteByHand(t) == Move /\ Complete(t) /\ UNCHANGED <<links, alive, late, reclaim>>

BlockByHand(t) == Move /\ Block(t) /\ UNCHANGED <<links, alive, late, reclaim>>

(* schedule_task.                                                          *)
Schedule(t) ==
  /\ Move
  /\ task[t].status \in {"todo", "ready", "running", "blocked"}
  /\ task' = [task EXCEPT ![t] = Freed(t, "scheduled")]
  /\ runs' \in EndedOrNoted(t, "reported")
  /\ UNCHANGED <<links, alive, late, reclaim, after>>

(* unblock_task: a run left open is closed, the claim is not looked at.    *)
Unblock(t) ==
  /\ Move
  /\ task[t].status \in {"blocked", "scheduled"}
  /\ task' = [task EXCEPT ![t].status = IF ParentsDone(t) THEN "ready" ELSE "todo",
                          ![t].run = 0, ![t].failures = 0, ![t].sticky = FALSE]
  /\ runs' = Ended(t, "reclaimed")
  /\ UNCHANGED <<links, alive, late, reclaim, after>>

(* promote_task, forced or not.                                            *)
Promote(t) ==
  /\ Move
  /\ task[t].status \in {"todo", "blocked"}
  /\ task' = [task EXCEPT ![t].status = "ready"]
  /\ UNCHANGED <<links, runs, alive, late, reclaim, after>>

\* Mutant: a card may also be dragged into the running column.
DragTargetsAll == {"triage", "todo", "ready", "running"}

(* update_task: the columns a card is dragged to; running is refused, the  *)
(* other columns have operations of their own.                             *)
DragTargets == {"triage", "todo", "ready"}

\* Mutant: a run that was under way stays open.
DragRunKept(t, status) ==
  /\ Move
  /\ status = "ready" => ParentsDone(t) /\ task[t].status \notin {"blocked", "scheduled"}
  /\ LET reopened == task[t].status \in Finished
     IN  task' = [u \in Tasks |->
           IF u = t THEN [Freed(t, status) EXCEPT !.run = 0]
           ELSE IF reopened /\ t \in Parents(u) /\ task[u].status = "ready"
                THEN [task[u] EXCEPT !.status = "todo"] ELSE task[u]]
  /\ UNCHANGED runs
  /\ after' = IF status = "ready" THEN after \cup {<<"recompute", t>>} ELSE after
  /\ UNCHANGED <<links, alive, late, reclaim>>

(* _set_status_direct, for a card dragged to another column: the worker is *)
(* not stopped.  Children that are ready below a reopened parent go back.  *)
Drag(t, status) ==
  /\ Move
  /\ status = "ready" => ParentsDone(t) /\ task[t].status \notin {"blocked", "scheduled"}
  /\ LET reopened == task[t].status \in Finished
         running  == task[t].status = "running"
     IN  /\ task' = [u \in Tasks |->
              IF u = t THEN [Freed(t, status) EXCEPT !.run = IF running THEN 0 ELSE task[t].run]
              ELSE IF reopened /\ t \in Parents(u) /\ task[u].status = "ready"
                   THEN [task[u] EXCEPT !.status = "todo"] ELSE task[u]]
         /\ runs' = IF running THEN Ended(t, "reclaimed") ELSE runs
  /\ after' = IF status = "ready" THEN after \cup {<<"recompute", t>>} ELSE after
  /\ UNCHANGED <<links, alive, late, reclaim>>

Archive(t) ==
  /\ Move
  /\ task[t].status # "archived"
  /\ task' = [task EXCEPT ![t] = Freed(t, "archived")]
  /\ runs' = Ended(t, "reclaimed")
  /\ after' = after \cup {<<"recompute", t>>}
  /\ UNCHANGED <<links, alive, late, reclaim>>

(* link_tasks and unlink_tasks.                                            *)
Acyclic(l) == ~\E C \in SUBSET Tasks : C # {} /\ \A x \in C : \E y \in C : <<y, x>> \in l

Link(p, c) ==
  /\ Move
  /\ <<p, c>> \notin links /\ Acyclic(links \cup {<<p, c>>})
  /\ links' = links \cup {<<p, c>>}
  /\ task' = IF task[p].status # "done" /\ task[c].status = "ready"
             THEN [task EXCEPT ![c].status = "todo"] ELSE task
  /\ UNCHANGED <<runs, alive, late, reclaim, after>>

Unlink(p, c) ==
  /\ Move
  /\ <<p, c>> \in links
  /\ links' = links \ {<<p, c>>}
  /\ after' = after \cup {<<"recompute", c>>}
  /\ UNCHANGED <<task, runs, alive, late, reclaim>>

(* reclaim_task: the claim is read, the worker killed, and the claim       *)
(* released if it looks the same, whether the worker died or not.          *)
BeginReclaim(t) ==
  /\ Move /\ reclaim = NULL
  /\ task[t].status = "running" \/ task[t].lock # NULL
  /\ Kill(task[t].pid)
  /\ reclaim' = [on |-> t, lock |-> task[t].lock]
  /\ UNCHANGED <<board, late, after>>

SettleReclaim ==
  /\ reclaim # NULL
  /\ LET t == reclaim.on
     IN  IF task[t].status \in {"running", "ready", "blocked"} /\ task[t].lock = reclaim.lock
         THEN /\ task' = [task EXCEPT ![t] = Freed(t, "ready")]
              /\ runs' = Ended(t, "reclaimed")
              /\ after' = after \cup {<<"clear", t>>}
              /\ spent' = [spent EXCEPT ![t] = 0]
         ELSE UNCHANGED <<task, runs, after, spent>>
  /\ reclaim' = NULL
  /\ UNCHANGED <<links, alive, tick, late, moves, faults>>

----------------------------------------------------------------------------
(* Transactions that follow another's commit.                              *)

ClearFailures(t) ==
  /\ \E what \in {"clear", "clear_recompute"} :
       /\ <<what, t>> \in after
       /\ after' = (after \ {<<what, t>>}) \cup
                     (IF what = "clear" THEN {} ELSE {<<"recompute", t>>})
  /\ task' = [task EXCEPT ![t].failures = 0]
  /\ spent' = [spent EXCEPT ![t] = 0]
  /\ UNCHANGED <<links, runs, alive, tick, late, reclaim, moves, faults>>

Recompute(t) ==
  /\ <<"recompute", t>> \in after
  /\ after' = after \ {<<"recompute", t>>}
  /\ task' = Promoted(FailureLimit)
  /\ UNCHANGED <<links, runs, alive, tick, late, reclaim, moves, faults, spent>>

(* The process dies before it.                                             *)
LoseFollowUp ==
  /\ faults < MaxFaults /\ faults' = faults + 1
  /\ \E f \in after : after' = after \ {f}
  /\ UNCHANGED <<board, alive, tick, late, reclaim, moves, spent>>

----------------------------------------------------------------------------
Dispatch ==
  \/ BeginTick \/ DetectCrashed \/ FindOverdue \/ PromoteReady
  \/ \E t \in Tasks :
       \/ ExtendClaim(t) \/ KillStale(t) \/ ReleaseStale(t)
       \/ RecordCrash(t) \/ KillOverdue(t) \/ ReleaseOverdue(t) \/ RecordTimeout(t)
       \/ ClaimReady(t) \/ StartWorker(t) \/ RecordPid(t) \/ SpawnFails(t)

Work == \E r \in RunIds : Report(r) \/ Heartbeat(r) \/ Exit(r)

Operate ==
  \E t \in Tasks :
    \/ ClaimByHand(t) \/ CompleteByHand(t) \/ BlockByHand(t) \/ Schedule(t)
    \/ Unblock(t) \/ Promote(t) \/ Archive(t) \/ BeginReclaim(t)
    \/ \E status \in DragTargets : Drag(t, status)
    \/ \E p \in Tasks : Link(p, t) \/ Unlink(p, t)

FollowUp == \E t \in Tasks : ClearFailures(t) \/ Recompute(t)

Next ==
  \/ Dispatch \/ GatewayDies \/ Work \/ Operate \/ SettleReclaim \/ FollowUp \/ LoseFollowUp

Spec == Init /\ [][Next]_vars

----------------------------------------------------------------------------
(* Safety.                                                                 *)

(* Attempt history has no orphans: an open run is the one its task points  *)
(* to, through every sweep, report and move, so each run gets an end.      *)
OpenRunIsCurrent ==
  \A r \in DOMAIN runs : runs[r].end = "open" => task[runs[r].task].run = r

(* A running task is claimed and has a run.                                *)
RunningIsHeld ==
  \A t \in Running : task[t].lock # NULL /\ task[t].run # 0

(* Claims, sweeps, reports and moves keep the run history of RunHistory:   *)
(* no end is written over, no task has two open runs, and one that runs    *)
(* has one.                                                                *)
History == INSTANCE RunHistory WITH
  history <- [r \in DOMAIN runs |-> [task |-> runs[r].task, end |-> runs[r].end]],
  working <- Running

KeepsHistory == History!Spec

(* The sweeps for expired claims and for crashes never end a run whose     *)
(* recorded worker lives, which would put a second one beside it.          *)
ReleaseMeansDead ==
  [][\A r \in alive' :
       /\ tick.at = "stale" \/ tick'.at = "crash"
       /\ tick' # tick
       /\ runs[r].end = "open" /\ runs'[r].end # "open"
       => task[runs[r].task].pid # r]_vars

(* A worker that was given up on, and reports late, does not end the run   *)
(* of its successor: without an operator a run is completed or blocked     *)
(* only by its own worker.                                                 *)
RunEndedByItsWorker ==
  [][\A r \in DOMAIN runs :
       /\ runs[r].end = "open" /\ runs'[r].end = "reported"
       /\ moves' = moves
       => r \in alive]_vars

(* A task starts to run only when all its parents are finished, whoever    *)
(* made it ready, linked it or reopened a parent meanwhile.                *)
ChildAfterParents ==
  [][\A t \in Tasks :
       task[t].status # "running" /\ task'[t].status = "running" => ParentsFinished(t)]_vars

(* A task is not tried for ever: since somebody last saw to it, it failed  *)
(* at most as often as the larger limit allows, and once more for every    *)
(* failure whose count was lost.                                           *)
RetryBudget ==
  \A t \in Tasks :
    spent[t] <= (IF FailureLimit < DispatchLimit THEN DispatchLimit ELSE FailureLimit) + faults

----------------------------------------------------------------------------
(* What the documentation says and the code does not keep.                 *)

(* "so the two never disagree about when a task is permanently blocked":   *)
(* what the breaker has blocked is not made ready by recompute_ready.      *)
NeverDisagree ==
  [][\A t \in Tasks :
       task[t].status = "blocked" /\ task'[t].status = "ready" => moves' # moves \/ reclaim' # reclaim]_vars
=============================================================================
