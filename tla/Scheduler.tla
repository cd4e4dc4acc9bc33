----------------------------- MODULE Scheduler -----------------------------
(***************************************************************************)
(* Scheduled jobs (honeyos/scheduler): the job store (jobs.py), the ticker *)
(* and the runs it dispatches (scheduler.py), the ledger of attempts       *)
(* (executions.py), and the manual and external fires that share the run.  *)
(*                                                                         *)
(* Several processes tick one store: the gateway and the desktop backend   *)
(* both do.  Each operation of the store is one step, under .jobs.lock;    *)
(* a tick is several, and holds .tick.lock from the first to the last.     *)
(*                                                                         *)
(* Time is what the code makes of it: a due time is ahead or reached, a    *)
(* claim is younger than its time-to-live or not.  Left out: what a job    *)
(* does, its delivery, repairs of malformed records, changes of time zone, *)
(* the degraded mode of a lock that cannot be had, and a ledger that       *)
(* cannot be written.                                                      *)
(***************************************************************************)
EXTENDS Naturals

CONSTANTS
  Jobs, Processes, NULL,
  OnceTimes, RecurringTimes,    \* what repeat.times may be; 0 is no limit
  MaxTimes, MaxSlots, MaxAttempts, MaxMoves, MaxFaults   \* bounds

ASSUME SchedulerAssumption ==
  /\ NULL \notin Jobs \cup Processes
  /\ MaxTimes \in Nat /\ MaxSlots \in Nat /\ MaxAttempts \in Nat
  /\ MaxMoves \in Nat /\ MaxFaults \in Nat
  /\ OnceTimes \subseteq 0..MaxTimes /\ RecurringTimes \subseteq 0..MaxTimes

VARIABLES
  job,        \* jobs.json: job -> its record
  fate,       \* job -> is the record kept, and if not, what removed it
  slot,       \* history: job -> how many due times it has had
  proc,       \* process -> its ticker and _running_job_ids
  attempt,    \* executions.db and the threads: attempt -> its row and its run
  granted,    \* history: job -> dispatches claim_dispatch let through
  overslept,  \* history: jobs whose claim lapsed while its run had not begun
  moves,      \* changes by users and direct fires so far
  faults      \* crashes and shutdowns so far

vars == <<job, fate, slot, proc, attempt, granted, overslept, moves, faults>>

Attempts == 1..MaxAttempts

Job == [kind: {"once", "recurring"}, times: 0..MaxTimes, completed: 0..MaxTimes,
        enabled: BOOLEAN, state: {"scheduled", "paused", "completed"},
        next: {"none", "later", "due"},           \* next_run_at
        clock: {"ahead", "reached", "past"},      \* run_at, and the grace after it
        ran: BOOLEAN,                             \* last_run_at is set
        runClaim: Processes \cup {NULL}, runFresh: BOOLEAN,
        fireClaim: {"none", "fresh", "stale"}]

Process == [up: BOOLEAN, stopping: BOOLEAN,
            pc: {"idle", "scanned", "advanced"}, due: [Jobs -> 0..MaxSlots],
            running: SUBSET Jobs, interrupted: SUBSET Jobs, unmarked: SUBSET Jobs]

Stages  == {"none", "fired", "queued", "begun", "live", "delivering", "marking", "settled",
            "ended", "dead"}
Attempt == [job: Jobs \cup {NULL}, by: Processes \cup {NULL}, via: {"tick", "direct"},
            slot: 0..MaxSlots, owner: Processes \cup {NULL}, stage: Stages,
            ok: BOOLEAN, killed: BOOLEAN,
            row: {"none", "claimed", "running", "completed", "failed", "unknown"}]

TypeOK ==
  /\ job \in [Jobs -> Job]
  /\ fate \in [Jobs -> {"kept", "user", "scan", "claim", "sweep"}]
  /\ slot \in [Jobs -> 0..MaxSlots]
  /\ proc \in [Processes -> Process]
  /\ attempt \in [Attempts -> Attempt]
  /\ granted \in [Jobs -> Nat]
  /\ overslept \subseteq Jobs
  /\ moves \in 0..MaxMoves /\ faults \in 0..MaxFaults

Down    == [up |-> FALSE, stopping |-> FALSE, pc |-> "idle", due |-> [j \in Jobs |-> 0],
            running |-> {}, interrupted |-> {}, unmarked |-> {}]
Started == [Down EXCEPT !.up = TRUE]
Unused  == [job |-> NULL, by |-> NULL, via |-> "tick", slot |-> 0, owner |-> NULL,
            stage |-> "none", ok |-> FALSE, killed |-> FALSE, row |-> "none"]

(* create_job: a one-shot has a limit unless it was lifted.                *)
Created(kind, times) ==
  [kind |-> kind, times |-> times, completed |-> 0, enabled |-> TRUE, state |-> "scheduled",
   next |-> "later", clock |-> "ahead", ran |-> FALSE, runClaim |-> NULL, runFresh |-> FALSE,
   fireClaim |-> "none"]

NewJobs == {Created("once", n) : n \in OnceTimes} \cup {Created("recurring", n) : n \in RecurringTimes}

Init ==
  /\ job \in [Jobs -> NewJobs]
  /\ fate = [j \in Jobs |-> "kept"]
  /\ slot = [j \in Jobs |-> 0]
  /\ proc = [p \in Processes |-> Started]
  /\ attempt = [i \in Attempts |-> Unused]
  /\ granted = [j \in Jobs |-> 0]
  /\ overslept = {} /\ moves = 0 /\ faults = 0

Kept(j)  == fate[j] = "kept"
Once(j)  == job[j].kind = "once"
Spent(j) == Once(j) /\ job[j].times > 0 /\ job[j].completed >= job[j].times

----------------------------------------------------------------------------
(* The clock.                                                              *)

(* A due time comes.                                                       *)
Arrive(j) ==
  /\ Kept(j)
  /\ IF Once(j) THEN job[j].clock = "ahead" ELSE job[j].next = "later"
  /\ job[j].next = "later" => slot[j] < MaxSlots
  /\ job' = [job EXCEPT ![j].clock = "reached",
                        ![j].next = IF @ = "later" THEN "due" ELSE @]
  /\ slot' = [slot EXCEPT ![j] = IF job[j].next = "later" THEN @ + 1 ELSE @]
  /\ UNCHANGED <<fate, proc, attempt, granted, overslept, moves, faults>>

(* The grace of a one-shot is over.                                        *)
Pass(j) ==
  /\ Kept(j) /\ Once(j) /\ job[j].clock = "reached"
  /\ job' = [job EXCEPT ![j].clock = "past"]
  /\ UNCHANGED <<fate, slot, proc, attempt, granted, overslept, moves, faults>>

Working == {"live", "delivering", "marking"}

\* Mutant: nobody refreshes a claim.
RefreshedNever(j) == FALSE

(* The run of j that was dispatched with the claim there is.               *)
Refreshed(j) ==
  \E i \in Attempts : /\ attempt[i].job = j /\ attempt[i].stage \in Working
                      /\ attempt[i].owner = job[j].runClaim

(* heartbeat_run_claim: such a run refreshes the claim until it has its    *)
(* answer, and that lasts for the delivery.                                *)
Heartbeat(j) ==
  /\ Once(j) /\ Kept(j) /\ job[j].runClaim # NULL /\ ~job[j].runFresh /\ Refreshed(j)
  /\ job' = [job EXCEPT ![j].runFresh = TRUE]
  /\ UNCHANGED <<fate, slot, proc, attempt, granted, overslept, moves, faults>>

Waiting(j) ==
  \/ \E i \in Attempts : attempt[i].job = j /\ attempt[i].stage \in {"queued", "begun"}
  \/ \E p \in Processes : proc[p].due[j] > 0

(* The run claim, or the fire claim, reaches its time-to-live.             *)
LapseRunClaim(j) ==
  /\ Kept(j) /\ job[j].runClaim # NULL /\ job[j].runFresh /\ ~Refreshed(j)
  /\ job' = [job EXCEPT ![j].runFresh = FALSE]
  /\ overslept' = IF Waiting(j) THEN overslept \cup {j} ELSE overslept
  /\ UNCHANGED <<fate, slot, proc, attempt, granted, moves, faults>>

LapseFireClaim(j) ==
  /\ Kept(j) /\ job[j].fireClaim = "fresh"
  /\ job' = [job EXCEPT ![j].fireClaim = "stale"]
  /\ UNCHANGED <<fate, slot, proc, attempt, granted, overslept, moves, faults>>

----------------------------------------------------------------------------
(* The users of the store: the page, the API, the command line, the tool.  *)

(* compute_next_run, with nothing known of an earlier run.                 *)
Upcoming(r) ==
  IF r.kind = "recurring" \/ r.clock = "ahead" THEN "later"
  ELSE IF r.clock = "reached" THEN "due" ELSE "none"

Change(j, r) ==
  /\ Kept(j) /\ moves < MaxMoves
  /\ moves' = moves + 1
  /\ job' = [job EXCEPT ![j] = r]
  /\ UNCHANGED <<fate, proc, attempt, granted, overslept, faults>>

Pause(j) ==
  /\ Change(j, [job[j] EXCEPT !.enabled = FALSE, !.state = "paused"])
  /\ UNCHANGED slot

Resume(j) ==
  /\ Upcoming(job[j]) # "none"
  /\ Upcoming(job[j]) = "due" => slot[j] < MaxSlots
  /\ Change(j, [job[j] EXCEPT !.enabled = TRUE, !.state = "scheduled", !.next = Upcoming(job[j])])
  /\ slot' = [slot EXCEPT ![j] = IF Upcoming(job[j]) = "due" THEN @ + 1 ELSE @]

Trigger(j) ==
  /\ slot[j] < MaxSlots
  /\ Change(j, [job[j] EXCEPT !.enabled = TRUE, !.state = "scheduled", !.next = "due"])
  /\ slot' = [slot EXCEPT ![j] = @ + 1]

(* A new time, in an update by the tool: a paused job stays paused.        *)
Reschedule(j) ==
  /\ Change(j, IF job[j].state = "paused" THEN [job[j] EXCEPT !.clock = "ahead"]
               ELSE [job[j] EXCEPT !.clock = "ahead", !.enabled = TRUE, !.state = "scheduled",
                                   !.next = "later"])
  /\ UNCHANGED slot

Remove(j) ==
  /\ Kept(j) /\ moves < MaxMoves
  /\ moves' = moves + 1
  /\ fate' = [fate EXCEPT ![j] = "user"]
  /\ UNCHANGED <<job, slot, proc, attempt, granted, overslept, faults>>

----------------------------------------------------------------------------
(* tick.                                                                   *)

Ticking == \E p \in Processes : proc[p].pc # "idle"

\* Mutant: a claim holds however old it is.
HeldForEver(j) == Once(j) /\ job[j].runClaim # NULL

(* The claim of a run that goes on, here or in another process.            *)
Held(j) == Once(j) /\ job[j].runClaim # NULL /\ job[j].runFresh

Ready(j) == Kept(j) /\ job[j].enabled /\ job[j].next = "due" /\ ~Held(j)

Due(j) == Ready(j) /\ ~Spent(j)

(* A one-shot that was dispatched and is due again: its run died, unless   *)
(* this process has it.                                                    *)
Wedged(p, j) == Ready(j) /\ Spent(j) /\ j \notin proc[p].running

Finished(j) == Kept(j) /\ Once(j) /\ job[j].state = "completed" /\ job[j].ran

(* What get_due_jobs makes of a record: a one-shot is claimed for this     *)
(* process, a recurring job that is late is moved on at once.              *)
Scanned(p, j, late) ==
  IF ~Due(j) THEN job[j]
  ELSE IF Once(j) THEN [job[j] EXCEPT !.runClaim = p, !.runFresh = TRUE]
  ELSE [job[j] EXCEPT !.next = IF late THEN "later" ELSE @]

(* get_due_jobs.  Of the records that are finished, the old ones go.       *)
Scan(p) ==
  /\ proc[p].up /\ ~proc[p].stopping /\ ~Ticking
  /\ \E old \in SUBSET {j \in Jobs : Finished(j)}, late \in SUBSET {j \in Jobs : Due(j)} :
       /\ job' = [j \in Jobs |-> Scanned(p, j, j \in late)]
       /\ fate' = [j \in Jobs |-> IF j \in old THEN "sweep"
                                  ELSE IF Wedged(p, j) THEN "scan" ELSE fate[j]]
  /\ proc' = IF \E j \in Jobs : Due(j)
             THEN [proc EXCEPT ![p].pc = "scanned",
                               ![p].due = [j \in Jobs |-> IF Due(j) THEN slot[j] ELSE 0]]
             ELSE proc
  /\ UNCHANGED <<slot, attempt, granted, overslept, moves, faults>>

\* Mutant: due recurring jobs keep their due time until they have run.
AdvanceNothing(p) ==
  /\ proc[p].pc = "scanned"
  /\ proc' = [proc EXCEPT ![p].pc = "advanced"]
  /\ UNCHANGED <<job, fate, slot, attempt, granted, overslept, moves, faults>>

(* advance_next_runs.                                                      *)
Advance(p) ==
  /\ proc[p].pc = "scanned"
  /\ job' = [j \in Jobs |-> IF proc[p].due[j] > 0 /\ Kept(j) /\ ~Once(j)
                            THEN [job[j] EXCEPT !.next = "later"] ELSE job[j]]
  /\ proc' = [proc EXCEPT ![p].pc = "advanced"]
  /\ UNCHANGED <<fate, slot, attempt, granted, overslept, moves, faults>>

(* The tick is done with a job; the tick ends with the last one.           *)
Handled(p, j, running) ==
  LET due == [proc[p].due EXCEPT ![j] = 0]
  IN  proc' = [proc EXCEPT ![p].due = due, ![p].running = running,
                           ![p].pc = IF \A k \in Jobs : due[k] = 0 THEN "idle" ELSE @]

Pending(p, j) == proc[p].pc = "advanced" /\ proc[p].due[j] > 0

NextFree(i) == attempt[i].stage = "none" /\ \A k \in Attempts : k < i => attempt[k].stage # "none"

(* _submit_with_guard: an attempt is recorded and given to a pool.         *)
Dispatch(p, j) ==
  /\ Pending(p, j) /\ j \notin proc[p].running
  /\ Handled(p, j, proc[p].running \cup {j})
  /\ \E i \in Attempts : /\ NextFree(i)
                         /\ attempt' = [attempt EXCEPT ![i] =
                              [Unused EXCEPT !.job = j, !.by = p, !.slot = proc[p].due[j],
                                             !.owner = IF Once(j) THEN p ELSE NULL,
                                             !.stage = "queued", !.row = "claimed"]]
  /\ UNCHANGED <<job, fate, slot, granted, overslept, moves, faults>>

(* A run of an earlier tick is still going, or the pool takes no more.     *)
Skip(p, j) ==
  /\ Pending(p, j)
  /\ j \in proc[p].running \/ proc[p].stopping
  /\ Handled(p, j, proc[p].running)
  /\ UNCHANGED <<job, fate, slot, attempt, granted, overslept, moves, faults>>

----------------------------------------------------------------------------
(* claim_job_for_fire: the cronjob tool's "run" and the external trigger   *)
(* (fire_due) run a job at once, outside the tick.                         *)
Fire(p, j) ==
  /\ proc[p].up /\ moves < MaxMoves
  /\ moves' = moves + 1
  /\ Kept(j) /\ job[j].enabled /\ job[j].fireClaim # "fresh"
  /\ job' = [job EXCEPT ![j].fireClaim = "fresh",
                        ![j].next = IF Once(j) THEN @ ELSE "later"]
  /\ \E i \in Attempts : /\ NextFree(i)
                         /\ attempt' = [attempt EXCEPT ![i] =
                              [Unused EXCEPT !.job = j, !.by = p, !.via = "direct",
                                             !.slot = IF job[j].next = "due" THEN slot[j] ELSE 0,
                                             !.owner = IF Once(j) THEN job[j].runClaim ELSE NULL,
                                             !.stage = "fired"]]
  /\ UNCHANGED <<fate, slot, proc, granted, overslept, faults>>

At(i, stage) == attempt[i].stage = stage

(* The attempt is recorded, if fire_due finds the job again.               *)
RecordFire(i) ==
  /\ At(i, "fired")
  /\ \/ attempt' = [attempt EXCEPT ![i].stage = "queued", ![i].row = "claimed"]
     \/ /\ ~Kept(attempt[i].job)
        /\ attempt' = [attempt EXCEPT ![i].stage = "ended"]
  /\ UNCHANGED <<job, fate, slot, proc, granted, overslept, moves, faults>>

----------------------------------------------------------------------------
(* run_one_job.                                                            *)

(* finish_execution writes the row once; the tick's run leaves the running *)
(* set with its thread.                                                    *)
Ended(i, status) ==
  /\ attempt' = [attempt EXCEPT ![i].stage = "ended", ![i].row = status, ![i].owner = NULL]
  /\ proc' = IF attempt[i].via = "direct" THEN proc
             ELSE [proc EXCEPT ![attempt[i].by].running = @ \ {attempt[i].job}]

\* Mutant: the limit is checked, and the run counted when it is over.
BeginUncounted(i) ==
  LET j == attempt[i].job
      counts == Kept(j) /\ Once(j) /\ job[j].times > 0
  IN  /\ At(i, "queued")
      /\ Kept(j) => ~Spent(j)
      /\ granted' = IF counts THEN [granted EXCEPT ![j] = @ + 1] ELSE granted
      /\ attempt' = [attempt EXCEPT ![i].stage = "begun"]
      /\ UNCHANGED <<job, fate, slot, proc, overslept, moves, faults>>

(* claim_dispatch: a one-shot with a limit is counted before it runs ...   *)
Begin(i) ==
  LET j == attempt[i].job
      counts == Kept(j) /\ Once(j) /\ job[j].times > 0
  IN  /\ At(i, "queued")
      /\ Kept(j) => ~Spent(j)
      /\ IF counts THEN /\ job' = [job EXCEPT ![j].completed = @ + 1]
                        /\ granted' = [granted EXCEPT ![j] = @ + 1]
         ELSE UNCHANGED <<job, granted>>
      /\ attempt' = [attempt EXCEPT ![i].stage = "begun"]
      /\ UNCHANGED <<fate, slot, proc, overslept, moves, faults>>

(* ... and one that has run, or that died, does not run again.             *)
Reject(i) ==
  LET j == attempt[i].job
  IN  /\ At(i, "queued")
      /\ Kept(j) /\ Spent(j)
      /\ IF job[j].ran
         THEN /\ job' = [job EXCEPT ![j].enabled = FALSE, ![j].state = "completed", ![j].next = "none"]
              /\ UNCHANGED fate
         ELSE /\ fate' = [fate EXCEPT ![j] = "claim"]
              /\ UNCHANGED job
      /\ Ended(i, "failed")
      /\ UNCHANGED <<slot, granted, overslept, moves, faults>>

(* mark_execution_running.                                                 *)
Work(i) ==
  /\ At(i, "begun")
  /\ attempt' = [attempt EXCEPT ![i].stage = "live", ![i].row = "running"]
  /\ UNCHANGED <<job, fate, slot, proc, granted, overslept, moves, faults>>

Flagged(i) == attempt[i].job \in proc[attempt[i].by].interrupted

(* run_job returns or raises; a run whose tools were killed has failed.    *)
Answer(i) ==
  /\ At(i, "live")
  /\ \E ok \in BOOLEAN :
       attempt' = [attempt EXCEPT ![i].stage = "delivering", ![i].ok = ok /\ ~Flagged(i)]
  /\ UNCHANGED <<job, fate, slot, proc, granted, overslept, moves, faults>>

(* _consume_interrupted_flag: the shutdown has marked the job already.     *)
Consume(i) ==
  /\ At(i, "delivering")
  /\ attempt' = [attempt EXCEPT ![i].stage = IF Flagged(i) THEN "settled" ELSE "marking"]
  /\ proc' = [proc EXCEPT ![attempt[i].by].interrupted = @ \ {attempt[i].job}]
  /\ UNCHANGED <<job, fate, slot, granted, overslept, moves, faults>>

(* repeat.completed; past the limit it tells nothing more.                 *)
Counted(r) ==
  IF r.times = 0 \/ (r.kind = "once" /\ r.completed > 0) \/ r.completed = r.times THEN r.completed
  ELSE r.completed + 1

\* Mutant: a job that was paused during its run is scheduled again.
MarkedRunAwake(r) ==
  LET done == [r EXCEPT !.ran = TRUE, !.fireClaim = "none", !.runClaim = NULL, !.runFresh = FALSE,
                        !.completed = Counted(r)]
  IN  IF r.kind = "once" \/ (r.times > 0 /\ Counted(r) = r.times)
      THEN [done EXCEPT !.enabled = FALSE, !.state = "completed", !.next = "none"]
      ELSE [done EXCEPT !.next = "later", !.state = "scheduled"]

(* mark_job_run: the claims are cleared and the run is counted, unless     *)
(* claim_dispatch did.  A job at its limit, and a one-shot, is completed;  *)
(* any other gets its next run, and one paused meanwhile stays paused.     *)
MarkedRun(r) ==
  LET done == [r EXCEPT !.ran = TRUE, !.fireClaim = "none", !.runClaim = NULL, !.runFresh = FALSE,
                        !.completed = Counted(r)]
  IN  IF r.kind = "once" \/ (r.times > 0 /\ Counted(r) = r.times)
      THEN [done EXCEPT !.enabled = FALSE, !.state = "completed", !.next = "none"]
      ELSE [done EXCEPT !.next = "later", !.state = IF @ = "paused" THEN @ ELSE "scheduled"]

MarkRun(j) == job' = IF Kept(j) THEN [job EXCEPT ![j] = MarkedRun(job[j])] ELSE job

Mark(i) ==
  /\ At(i, "marking")
  /\ MarkRun(attempt[i].job)
  /\ attempt' = [attempt EXCEPT ![i].stage = "settled"]
  /\ UNCHANGED <<fate, slot, proc, granted, overslept, moves, faults>>

Finish(i) ==
  /\ At(i, "settled")
  /\ Ended(i, IF attempt[i].ok THEN "completed" ELSE "failed")
  /\ UNCHANGED <<job, fate, slot, granted, overslept, moves, faults>>

----------------------------------------------------------------------------
(* Processes.                                                              *)

(* mark_running_jobs_interrupted: all running jobs are flagged at once,    *)
(* then marked one by one.  The shutdown has killed every tool just        *)
(* before; a run whose tool died has a model to ask before it answers, so  *)
(* both are one step.                                                      *)
Stop(p) ==
  /\ proc[p].up /\ ~proc[p].stopping /\ faults < MaxFaults
  /\ faults' = faults + 1
  /\ proc' = [proc EXCEPT ![p].stopping = TRUE, ![p].interrupted = @ \cup proc[p].running,
                          ![p].unmarked = proc[p].running]
  /\ attempt' = [i \in Attempts |-> [attempt[i] EXCEPT !.killed = @ \/ (attempt[i].by = p /\ At(i, "live"))]]
  /\ UNCHANGED <<job, fate, slot, granted, overslept, moves>>

MarkInterrupted(p, j) ==
  /\ j \in proc[p].unmarked
  /\ proc' = [proc EXCEPT ![p].unmarked = @ \ {j}]
  /\ MarkRun(j)
  /\ UNCHANGED <<fate, slot, attempt, granted, overslept, moves, faults>>

Gone(p) ==
  /\ proc' = [proc EXCEPT ![p] = Down]
  /\ attempt' = [i \in Attempts |->
       IF attempt[i].by = p /\ attempt[i].stage \notin {"none", "ended"}
       THEN [attempt[i] EXCEPT !.stage = "dead", !.owner = NULL] ELSE attempt[i]]
  /\ UNCHANGED <<job, fate, slot, granted, overslept, moves>>

Exit(p) ==
  /\ proc[p].stopping /\ proc[p].unmarked = {}
  /\ Gone(p) /\ UNCHANGED faults

Crash(p) ==
  /\ proc[p].up /\ faults < MaxFaults
  /\ Gone(p) /\ faults' = faults + 1

Open == {"claimed", "running"}

\* Mutant: every open row of another process instance is closed.
StartCareless(p) ==
  /\ ~proc[p].up
  /\ proc' = [proc EXCEPT ![p] = Started]
  /\ attempt' = [i \in Attempts |-> IF attempt[i].row \in Open
                                    THEN [attempt[i] EXCEPT !.row = "unknown"] ELSE attempt[i]]
  /\ UNCHANGED <<job, fate, slot, granted, overslept, moves, faults>>

(* recover_interrupted_executions, then the ticker starts.                 *)
Start(p) ==
  /\ ~proc[p].up
  /\ proc' = [proc EXCEPT ![p] = Started]
  /\ attempt' = [i \in Attempts |-> IF At(i, "dead") /\ attempt[i].row \in Open
                                    THEN [attempt[i] EXCEPT !.row = "unknown"] ELSE attempt[i]]
  /\ UNCHANGED <<job, fate, slot, granted, overslept, moves, faults>>

----------------------------------------------------------------------------
Tick(p) ==
  \/ Scan(p) \/ Advance(p)
  \/ \E j \in Jobs : Dispatch(p, j) \/ Skip(p, j)

Run(i) ==
  \/ RecordFire(i) \/ Begin(i) \/ Reject(i) \/ Work(i) \/ Answer(i)
  \/ Consume(i) \/ Mark(i) \/ Finish(i)

Next ==
  \/ \E j \in Jobs :
       \/ Arrive(j) \/ Pass(j) \/ Heartbeat(j) \/ LapseRunClaim(j) \/ LapseFireClaim(j)
       \/ Pause(j) \/ Resume(j) \/ Trigger(j) \/ Reschedule(j) \/ Remove(j)
       \/ \E p \in Processes : Fire(p, j) \/ MarkInterrupted(p, j)
  \/ \E p \in Processes : Tick(p) \/ Stop(p) \/ Exit(p) \/ Crash(p) \/ Start(p)
  \/ \E i \in Attempts : Run(i)

(* Threads go on, tickers tick, time passes for a claim, and a process     *)
(* that is gone is started again.                                          *)
Fairness ==
  /\ \A p \in Processes : WF_vars(Tick(p)) /\ WF_vars(Exit(p) \/ Start(p))
  /\ \A p \in Processes : WF_vars(\E j \in Jobs : MarkInterrupted(p, j))
  /\ \A i \in Attempts : WF_vars(Run(i))
  /\ \A j \in Jobs : WF_vars(LapseRunClaim(j))

Spec     == Init /\ [][Next]_vars
FairSpec == Spec /\ Fairness

----------------------------------------------------------------------------
(* Safety.                                                                 *)

(* A one-shot is let through at most as often as it may run, whatever dies *)
(* in between.                                                             *)
AtMostTimes == \A j \in Jobs : Once(j) /\ job[j].times > 0 => granted[j] <= job[j].times

(* Ticks run a recurring job once for each time it falls due: a crash, a   *)
(* tick of another process or a change by a user does not repeat a run.    *)
OccurrenceFiredOnce ==
  \A i, k \in Attempts :
    /\ attempt[i].via = "tick" /\ attempt[k].via = "tick"
    /\ attempt[i].job = attempt[k].job /\ attempt[i].job # NULL
    /\ ~Once(attempt[i].job)
    /\ attempt[i].slot = attempt[k].slot
    => i = k

(* A job is either scheduled, with a time it will run at, or off: no run   *)
(* that ends turns a schedule off silently, or wakes a job that was paused *)
(* meanwhile.                                                              *)
Armed ==
  \A j \in Jobs : Kept(j) =>
    /\ job[j].enabled <=> job[j].state = "scheduled"
    /\ job[j].enabled => job[j].next # "none"
    /\ job[j].state = "completed" => job[j].ran

(* A direct run in the same process may take the flag of a tick's run.     *)
MayTakeFlag(i) ==
  \E k \in Attempts : /\ attempt[k].via = "direct"
                      /\ attempt[k].job = attempt[i].job /\ attempt[k].by = attempt[i].by

(* The ledger tells what became of a run.  Its row is open as long as the  *)
(* run goes on, "unknown" only when its process died, closed once that     *)
(* process is back, and "completed" only if no shutdown killed its tools.  *)
RowsTellTheTruth ==
  \A i \in Attempts :
    /\ attempt[i].stage \in {"queued", "begun", "live", "delivering", "marking", "settled"}
         => attempt[i].row \in Open
    /\ attempt[i].row = "unknown" => At(i, "dead")
    /\ attempt[i].row \in Open => ~At(i, "ended")
    /\ At(i, "dead") /\ attempt[i].row \in Open => ~proc[attempt[i].by].up
    /\ attempt[i].row = "completed" /\ attempt[i].killed => MayTakeFlag(i)

Runs(j) == {i \in Attempts : attempt[i].job = j /\ attempt[i].stage \in Working}

(* A tick never removes a one-shot as wedged while a tick's run of it goes *)
(* on, provided its claim did not lapse in a queue and was not cleared:    *)
(* every run, and every shutdown, that marks the job clears the claim,     *)
(* whoever's it is, and sets last_run_at for good.                         *)
ScanSparesLiveRun ==
  [][\A j \in Jobs :
       fate[j] = "kept" /\ fate'[j] = "scan" /\ j \notin overslept /\ ~job[j].ran =>
         \A i \in Runs(j) : attempt[i].via = "direct"]_vars

(* Bound: no run can begin any more.                                       *)
Exhausted == \A i \in Attempts : ~At(i, "none")

(* Liveness: a one-shot that is due is run, turned off or removed, though  *)
(* the process that claimed it dies: a claim left behind lapses, and the   *)
(* next tick of any process takes the job up again.                        *)
OneShotSettles ==
  \A j \in Jobs :
    Kept(j) /\ Once(j) /\ job[j].enabled /\ job[j].next = "due"
      ~> ~Kept(j) \/ ~job[j].enabled \/ job[j].next # "due" \/ Exhausted

============================================================================
