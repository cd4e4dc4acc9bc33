-------------------------- MODULE SchedulerProofs --------------------------
(* Theorems about scheduled jobs, for any number of jobs, processes that   *)
(* tick and attempts, and every limit on how often a job may run.          *)
EXTENDS Scheduler, TLAPS

(* The run of an attempt goes on.                                          *)
Active == {"queued", "begun", "live", "delivering", "marking", "settled"}

ByTick(i) == attempt[i].via = "tick" /\ attempt[i].stage # "none"

(* A one-shot is counted before it is let through, never past its limit; a *)
(* recurring job is completed only at its limit.                           *)
Counts ==
  \A j \in Jobs :
    /\ job[j].completed <= job[j].times
    /\ Once(j) /\ job[j].times > 0 => granted[j] <= job[j].completed
    /\ ~Once(j) /\ job[j].state = "completed" => job[j].times > 0 /\ job[j].completed = job[j].times

(* A run that goes on belongs to a process that is up; one a tick started  *)
(* is in its running set, with the claim the tick made.                    *)
OwnedAttempt(i) ==
  /\ attempt[i].stage = "none" => attempt[i].job = NULL
  /\ attempt[i].stage # "none" => attempt[i].job \in Jobs /\ attempt[i].by \in Processes
  /\ attempt[i].stage \in Active \cup {"fired"} => proc[attempt[i].by].up
  /\ ByTick(i) => attempt[i].stage # "fired"
  /\ ByTick(i) /\ attempt[i].stage \in Active =>
       /\ attempt[i].job \in proc[attempt[i].by].running
       /\ Once(attempt[i].job) => attempt[i].owner = attempt[i].by

Owned == \A i \in Attempts : OwnedAttempt(i)

(* A process runs a job it ticked once at a time, and ticks while it is up.*)
GoesOn(i) == ByTick(i) /\ attempt[i].stage \in Active
Alike(i, k) == attempt[i].by = attempt[k].by /\ attempt[i].job = attempt[k].job

OneAtATime == \A i, k \in Attempts : GoesOn(i) /\ GoesOn(k) /\ Alike(i, k) => i = k
TicksWhenUp == \A p \in Processes : proc[p].pc # "idle" => proc[p].up

----------------------------------------------------------------------------
(* The clock, and the users of the store, change one record and leave what *)
(* tells of its runs; a due time that comes is a new one.                  *)
Users(j) ==
  \/ Arrive(j) \/ Pass(j) \/ Heartbeat(j) \/ LapseRunClaim(j) \/ LapseFireClaim(j)
  \/ Pause(j) \/ Resume(j) \/ Trigger(j) \/ Reschedule(j) \/ Remove(j)

ArmedRecord(r) ==
  /\ r.enabled <=> r.state = "scheduled"
  /\ r.enabled => r.next # "none"
  /\ r.state = "completed" => r.ran

(* The record r of a job whose record was o.                               *)
Touched(o, r) ==
  /\ r \in Job
  /\ r.kind = o.kind /\ r.times = o.times /\ r.completed = o.completed /\ r.ran = o.ran
  /\ r.runClaim = o.runClaim
  /\ r.state = "completed" => o.state = "completed"
  /\ ArmedRecord(o) => ArmedRecord(r)

Adjusted(j) ==
  /\ job' \in [Jobs -> Job] /\ \A k \in Jobs \ {j} : job'[k] = job[k] /\ slot'[k] = slot[k]
  /\ Touched(job[j], job'[j])
  /\ slot' \in [Jobs -> 0..MaxSlots]
  /\ \/ slot'[j] = slot[j] /\ (job'[j].next = "due" => job[j].next = "due")
     \/ slot'[j] = slot[j] + 1
  /\ job'[j].runFresh = job[j].runFresh \/ job'[j].runFresh \/ LapseRunClaim(j)
  /\ overslept \subseteq overslept' /\ overslept' \subseteq Jobs
  /\ fate' = fate \/ fate' = [fate EXCEPT ![j] = "user"]
  /\ UNCHANGED <<proc, attempt, granted>>

(* One field, two or more of a record are written.                         *)
LEMMA ClockWrites ==
  ASSUME NEW r \in Job, NEW next \in {"none", "later", "due"}, next = r.next \/ next # "none"
  PROVE  /\ Touched(r, [r EXCEPT !.clock = "reached", !.next = next])
         /\ Touched(r, [r EXCEPT !.clock = "past"])
         /\ Touched(r, [r EXCEPT !.next = next])
         /\ Touched(r, [r EXCEPT !.runFresh = TRUE]) /\ Touched(r, [r EXCEPT !.runFresh = FALSE])
         /\ Touched(r, [r EXCEPT !.fireClaim = "stale"])
         /\ Touched(r, [r EXCEPT !.fireClaim = "fresh", !.next = next])
<1> USE DEF Touched, ArmedRecord, Job
<1>1. Touched(r, [r EXCEPT !.clock = "reached", !.next = next])
  OBVIOUS
<1>2. Touched(r, [r EXCEPT !.clock = "past"]) /\ Touched(r, [r EXCEPT !.next = next])
  OBVIOUS
<1>3. Touched(r, [r EXCEPT !.runFresh = TRUE]) /\ Touched(r, [r EXCEPT !.runFresh = FALSE])
  OBVIOUS
<1>4. Touched(r, [r EXCEPT !.fireClaim = "stale"])
  OBVIOUS
<1>5. Touched(r, [r EXCEPT !.fireClaim = "fresh", !.next = next])
  OBVIOUS
<1> QED
  BY <1>1, <1>2, <1>3, <1>4, <1>5

LEMMA UserWrites ==
  ASSUME NEW r \in Job, NEW next \in {"later", "due"}
  PROVE  /\ Touched(r, [r EXCEPT !.enabled = FALSE, !.state = "paused"])
         /\ Touched(r, [r EXCEPT !.enabled = TRUE, !.state = "scheduled", !.next = next])
         /\ Touched(r, [r EXCEPT !.clock = "ahead"])
         /\ Touched(r, [r EXCEPT !.clock = "ahead", !.enabled = TRUE, !.state = "scheduled",
                                 !.next = "later"])
BY DEF Touched, ArmedRecord, Job

LEMMA UserShape ==
  ASSUME TypeOK, NEW j \in Jobs, Users(j)
  PROVE  Adjusted(j)
<1>1. job[j] \in Job /\ slot[j] \in 0..MaxSlots
  BY DEF TypeOK
<1> DEFINE Rest == /\ overslept \subseteq overslept' /\ overslept' \subseteq Jobs
                   /\ fate' = fate \/ fate' = [fate EXCEPT ![j] = "user"]
                   /\ UNCHANGED <<proc, attempt, granted>>
<1>2. Rest
  BY DEF TypeOK, Users, Arrive, Pass, Heartbeat, LapseRunClaim, LapseFireClaim, Pause, Resume, Trigger,
         Reschedule, Remove, Change
<1>3. ASSUME NEW r, job' = [job EXCEPT ![j] = r], Touched(job[j], r),
             \/ slot' = slot /\ (r.next = "due" => job[j].next = "due")
             \/ slot' = [slot EXCEPT ![j] = slot[j] + 1] /\ slot[j] < MaxSlots,
             r.runFresh = job[j].runFresh \/ r.runFresh \/ LapseRunClaim(j)
      PROVE  Adjusted(j)
  <2>1. r \in Job
    BY <1>3 DEF Touched
  <2> QED
    BY <1>1, <1>2, <1>3, <2>1, SchedulerAssumption DEF Adjusted, TypeOK
<1>4. CASE Arrive(j)
  <2> DEFINE next == IF job[j].next = "later" THEN "due" ELSE job[j].next
             r    == [job[j] EXCEPT !.clock = "reached", !.next = next]
  <2>1. next \in {"none", "later", "due"} /\ (next = job[j].next \/ next # "none")
    BY <1>1 DEF Job
  <2>2. job' = [job EXCEPT ![j] = r]
    BY <1>4 DEF Arrive, TypeOK
  <2>3. \/ slot' = slot /\ next = job[j].next
        \/ slot' = [slot EXCEPT ![j] = slot[j] + 1] /\ slot[j] < MaxSlots
    BY <1>4 DEF Arrive, TypeOK
  <2> HIDE DEF next
  <2>4. Touched(job[j], r)
    BY <1>1, <2>1, ClockWrites
  <2>5. r.next = next /\ r.runFresh = job[j].runFresh
    BY <1>1, <2>1 DEF Job
  <2> QED
    BY <1>3, <2>2, <2>3, <2>4, <2>5
<1>5. CASE Pass(j)
  <2> DEFINE r == [job[j] EXCEPT !.clock = "past"]
  <2>1. job' = [job EXCEPT ![j] = r] /\ slot' = slot
    BY <1>5 DEF Pass
  <2>2. Touched(job[j], r)
    BY <1>1, ClockWrites
  <2>3. r.next = job[j].next /\ r.runFresh = job[j].runFresh
    BY <1>1 DEF Job
  <2> QED
    BY <1>3, <2>1, <2>2, <2>3
<1>6. CASE Heartbeat(j)
  <2> DEFINE r == [job[j] EXCEPT !.runFresh = TRUE]
  <2>1. job' = [job EXCEPT ![j] = r] /\ slot' = slot
    BY <1>6 DEF Heartbeat
  <2>2. Touched(job[j], r)
    BY <1>1, ClockWrites
  <2>3. r.next = job[j].next /\ r.runFresh
    BY <1>1 DEF Job
  <2> QED
    BY <1>3, <2>1, <2>2, <2>3
<1>7. CASE LapseRunClaim(j)
  <2> DEFINE r == [job[j] EXCEPT !.runFresh = FALSE]
  <2>1. job' = [job EXCEPT ![j] = r] /\ slot' = slot
    BY <1>7 DEF LapseRunClaim
  <2>2. Touched(job[j], r)
    BY <1>1, ClockWrites
  <2>3. r.next = job[j].next
    BY <1>1 DEF Job
  <2> QED
    BY <1>3, <1>7, <2>1, <2>2, <2>3
<1>8. CASE LapseFireClaim(j)
  <2> DEFINE r == [job[j] EXCEPT !.fireClaim = "stale"]
  <2>1. job' = [job EXCEPT ![j] = r] /\ slot' = slot
    BY <1>8 DEF LapseFireClaim
  <2>2. Touched(job[j], r)
    BY <1>1, ClockWrites
  <2>3. r.next = job[j].next /\ r.runFresh = job[j].runFresh
    BY <1>1 DEF Job
  <2> QED
    BY <1>3, <2>1, <2>2, <2>3
<1>9. CASE Pause(j)
  <2> DEFINE r == [job[j] EXCEPT !.enabled = FALSE, !.state = "paused"]
  <2>1. job' = [job EXCEPT ![j] = r] /\ slot' = slot
    BY <1>9 DEF Pause, Change
  <2>2. Touched(job[j], r)
    BY <1>1, UserWrites
  <2>3. r.next = job[j].next /\ r.runFresh = job[j].runFresh
    BY <1>1 DEF Job
  <2> QED
    BY <1>3, <2>1, <2>2, <2>3
<1>10. CASE Resume(j)
  <2> DEFINE next == Upcoming(job[j])
             r    == [job[j] EXCEPT !.enabled = TRUE, !.state = "scheduled", !.next = next]
  <2>1. next \in {"later", "due"}
    BY <1>10 DEF Resume, Upcoming
  <2>2. job' = [job EXCEPT ![j] = r]
    BY <1>10 DEF Resume, Change
  <2>3. \/ slot' = slot /\ next # "due"
        \/ slot' = [slot EXCEPT ![j] = slot[j] + 1] /\ slot[j] < MaxSlots
    BY <1>10 DEF Resume, TypeOK
  <2> HIDE DEF next
  <2>4. Touched(job[j], r)
    BY <1>1, <2>1, UserWrites
  <2>5. r.next = next /\ r.runFresh = job[j].runFresh
    BY <1>1, <2>1 DEF Job
  <2> QED
    BY <1>3, <2>2, <2>3, <2>4, <2>5
<1>11. CASE Trigger(j)
  <2> DEFINE r == [job[j] EXCEPT !.enabled = TRUE, !.state = "scheduled", !.next = "due"]
  <2>1. job' = [job EXCEPT ![j] = r] /\ slot' = [slot EXCEPT ![j] = slot[j] + 1] /\ slot[j] < MaxSlots
    BY <1>11 DEF Trigger, Change
  <2>2. Touched(job[j], r)
    BY <1>1, UserWrites
  <2>3. r.runFresh = job[j].runFresh
    BY <1>1 DEF Job
  <2> QED
    BY <1>3, <2>1, <2>2, <2>3
<1>12. CASE Reschedule(j)
  <2> DEFINE q == [job[j] EXCEPT !.clock = "ahead"]
             r == [job[j] EXCEPT !.clock = "ahead", !.enabled = TRUE, !.state = "scheduled",
                                 !.next = "later"]
  <2>1. slot' = slot /\ (job' = [job EXCEPT ![j] = q] \/ job' = [job EXCEPT ![j] = r])
    BY <1>12 DEF Reschedule, Change
  <2>2. Touched(job[j], q) /\ Touched(job[j], r)
    BY <1>1, UserWrites
  <2>3. /\ q.next = job[j].next /\ q.runFresh = job[j].runFresh
        /\ r.next = "later" /\ r.runFresh = job[j].runFresh
    BY <1>1 DEF Job
  <2> HIDE DEF q, r
  <2> QED
    BY <1>3, <2>1, <2>2, <2>3
<1>13. CASE Remove(j)
  <2>1. job' = [job EXCEPT ![j] = job[j]] /\ slot' = slot
    BY <1>13 DEF Remove, TypeOK
  <2> QED
    BY <1>1, <1>3, <2>1 DEF Touched
<1> QED
  BY <1>4, <1>5, <1>6, <1>7, <1>8, <1>9, <1>10, <1>11, <1>12, <1>13 DEF Users

----------------------------------------------------------------------------
(* A run that is over, or interrupted, marks its job's record.             *)
Limited(r) == /\ r.completed <= r.times
              /\ r.kind = "recurring" /\ r.state = "completed" => r.times > 0 /\ r.completed = r.times

Marked(o, r) ==
  /\ r \in Job /\ Limited(r)
  /\ r.kind = o.kind /\ r.times = o.times /\ o.completed <= r.completed
  /\ r.ran /\ r.next # "due"
  /\ ArmedRecord(o) => ArmedRecord(r)

LEMMA MarkWrites ==
  ASSUME NEW o \in Job, Limited(o)
  PROVE  Marked(o, MarkedRun(o))
<1> DEFINE n    == Counted(o)
           done == [o EXCEPT !.ran = TRUE, !.fireClaim = "none", !.runClaim = NULL,
                             !.runFresh = FALSE, !.completed = n]
           off  == [done EXCEPT !.enabled = FALSE, !.state = "completed", !.next = "none"]
           state == IF o.state = "paused" THEN "paused" ELSE "scheduled"
           on   == [done EXCEPT !.next = "later", !.state = state]
<1>1. /\ n \in 0..MaxTimes /\ o.completed <= n /\ n <= o.times
      /\ o.completed = o.times => n = o.times
  BY SchedulerAssumption DEF Counted, Limited, Job
<1> HIDE DEF n
<1>2. /\ done \in Job /\ done.kind = o.kind /\ done.times = o.times /\ done.completed = n
      /\ done.ran /\ done.state = o.state /\ done.enabled = o.enabled
  BY <1>1 DEF Job
<1>3. MarkedRun(o) = IF o.kind = "once" \/ (o.times > 0 /\ n = o.times) THEN off ELSE on
  BY <1>2 DEF MarkedRun, n
<1> HIDE DEF done
<1>4. /\ off \in Job /\ off.kind = o.kind /\ off.times = o.times /\ off.completed = n
      /\ off.ran /\ off.next = "none" /\ off.state = "completed" /\ off.enabled = FALSE
  BY <1>2 DEF Job
<1>5. state \in {"scheduled", "paused"}
  OBVIOUS
<1>6. ASSUME NEW st \in {"scheduled", "paused"}
      PROVE  LET q == [done EXCEPT !.next = "later", !.state = st]
             IN  /\ q \in Job /\ q.kind = o.kind /\ q.times = o.times /\ q.completed = n
                 /\ q.ran /\ q.next = "later" /\ q.state = st /\ q.enabled = o.enabled
  BY <1>2 DEF Job
<1>7. /\ on \in Job /\ on.kind = o.kind /\ on.times = o.times /\ on.completed = n
      /\ on.ran /\ on.next = "later" /\ on.state = state /\ on.enabled = o.enabled
  BY <1>5, <1>6
<1> HIDE DEF off, on
<1>8. CASE o.kind = "once" \/ (o.times > 0 /\ n = o.times)
  BY <1>1, <1>3, <1>4, <1>8 DEF Marked, Limited, ArmedRecord, Job
<1>9. CASE ~(o.kind = "once" \/ (o.times > 0 /\ n = o.times))
  <2>1. MarkedRun(o) = on
    BY <1>3, <1>9
  <2>2. Limited(on)
    BY <1>1, <1>5, <1>7 DEF Limited
  <2>3. ArmedRecord(o) => ArmedRecord(on)
    <3>1. o.state # "completed"
      BY <1>1, <1>9 DEF Limited, Job
    <3> QED
      BY <1>7, <3>1 DEF ArmedRecord, Job
  <2> QED
    BY <1>1, <1>7, <2>1, <2>2, <2>3 DEF Marked
<1> QED
  BY <1>8, <1>9

----------------------------------------------------------------------------
(* A step of a run changes its own attempt, whose job, process and due     *)
(* time stay, and takes the job from the running set only when it ends.    *)
Same(a, b) ==
  /\ b.job = a.job /\ b.by = a.by /\ b.via = a.via /\ b.slot = a.slot /\ b.killed = a.killed
  /\ b.owner = a.owner \/ b.stage = "ended"

Stepped(i) ==
  /\ attempt' \in [Attempts -> Attempt] /\ \A k \in Attempts \ {i} : attempt'[k] = attempt[k]
  /\ Same(attempt[i], attempt'[i])
  /\ attempt[i].stage \in Active \cup {"fired"} /\ attempt'[i].stage \in Active \cup {"ended"}
  /\ attempt[i].stage = "fired" \/ attempt[i].stage = "queued" \/ attempt'[i].stage \notin {"queued", "begun"}
  /\ attempt[i].stage = "settled" => attempt'[i].stage = "ended"
  /\ proc' \in [Processes -> Process]
  /\ \A p \in Processes : /\ proc'[p].up = proc[p].up /\ proc'[p].pc = proc[p].pc
                          /\ proc'[p].due = proc[p].due
                          /\ \/ proc'[p].running = proc[p].running
                             \/ /\ attempt'[i].stage = "ended" /\ attempt[i].via = "tick"
                                /\ p = attempt[i].by
                                /\ proc'[p].running = proc[p].running \ {attempt[i].job}
  /\ UNCHANGED <<slot, overslept>>

LEMMA EndingShape ==
  ASSUME TypeOK, NEW i \in Attempts, NEW status \in {"completed", "failed"}, Ended(i, status),
         attempt[i].stage \in {"queued", "settled"}, UNCHANGED <<slot, overslept>>
  PROVE  Stepped(i)
<1>1. attempt[i] \in Attempt
  BY DEF TypeOK
<1>2. /\ attempt' \in [Attempts -> Attempt] /\ \A k \in Attempts \ {i} : attempt'[k] = attempt[k]
      /\ Same(attempt[i], attempt'[i]) /\ attempt'[i].stage = "ended"
  BY <1>1 DEF Ended, TypeOK, Attempt, Stages, Same
<1>3. CASE proc' = proc
  BY <1>1, <1>2, <1>3 DEF Stepped, Active, TypeOK
<1>4. CASE /\ attempt[i].via = "tick"
           /\ proc' = [proc EXCEPT ![attempt[i].by].running = @ \ {attempt[i].job}]
  <2>1. /\ proc' \in [Processes -> Process]
        /\ \A p \in Processes : /\ proc'[p].up = proc[p].up /\ proc'[p].pc = proc[p].pc
                                /\ proc'[p].due = proc[p].due
                                /\ \/ proc'[p].running = proc[p].running
                                   \/ /\ p = attempt[i].by
                                      /\ proc'[p].running = proc[p].running \ {attempt[i].job}
    <3> DEFINE rest == proc[attempt[i].by].running \ {attempt[i].job}
    <3>1. proc' = [proc EXCEPT ![attempt[i].by].running = rest]
      BY <1>4
    <3>2. attempt[i].by \in Processes => rest \in SUBSET Jobs /\ proc[attempt[i].by] \in Process
      BY DEF TypeOK, Process
    <3>3. rest = proc[attempt[i].by].running \ {attempt[i].job}
      OBVIOUS
    <3> HIDE DEF rest
    <3> QED
      BY <3>1, <3>2, <3>3 DEF TypeOK, Process
  <2> QED
    BY <1>2, <1>4, <2>1 DEF Stepped, Active
<1> QED
  BY <1>1, <1>3, <1>4 DEF Ended, Attempt

LEMMA RunShape ==
  ASSUME TypeOK, NEW i \in Attempts, Run(i)
  PROVE  Stepped(i)
<1>1. attempt[i] \in Attempt /\ UNCHANGED <<slot, overslept>>
  BY DEF TypeOK, Run, RecordFire, Begin, Reject, Work, Answer, Consume, Mark, Finish
<1>2. CASE RecordFire(i) \/ Begin(i) \/ Work(i) \/ Mark(i)
  <2>1. UNCHANGED proc
    BY <1>2 DEF RecordFire, Begin, Work, Mark
  <2>2. PICK stage \in {"queued", "begun", "live", "settled", "ended"}, row \in {"claimed", "running", attempt[i].row} :
          attempt' = [attempt EXCEPT ![i].stage = stage, ![i].row = row]
          /\ attempt[i].stage \in {"fired", "queued", "begun", "marking"}
          /\ (attempt[i].stage = "fired" \/ attempt[i].stage = "queued" \/ stage \notin {"queued", "begun"})
    <3>1. CASE RecordFire(i)
      BY <1>1, <3>1 DEF RecordFire, At, TypeOK, Attempt
    <3>2. CASE Begin(i)
      BY <1>1, <3>2 DEF Begin, At, TypeOK, Attempt
    <3>3. CASE Work(i)
      BY <3>3 DEF Work, At
    <3>4. CASE Mark(i)
      BY <1>1, <3>4 DEF Mark, At, TypeOK, Attempt
    <3> QED
      BY <1>2, <3>1, <3>2, <3>3, <3>4
  <2>3. /\ attempt' \in [Attempts -> Attempt] /\ \A k \in Attempts \ {i} : attempt'[k] = attempt[k]
        /\ Same(attempt[i], attempt'[i]) /\ attempt'[i].stage = stage
    BY <1>1, <2>2 DEF TypeOK, Attempt, Stages, Same
  <2> QED
    BY <1>1, <2>1, <2>2, <2>3 DEF Stepped, Active, TypeOK
<1>3. CASE Answer(i)
  <2>1. PICK ok \in BOOLEAN : attempt' = [attempt EXCEPT ![i].stage = "delivering", ![i].ok = ok]
    BY <1>3 DEF Answer
  <2>2. /\ attempt' \in [Attempts -> Attempt] /\ \A k \in Attempts \ {i} : attempt'[k] = attempt[k]
        /\ Same(attempt[i], attempt'[i]) /\ attempt'[i].stage = "delivering"
    BY <1>1, <2>1 DEF TypeOK, Attempt, Stages, Same
  <2>3. UNCHANGED proc /\ attempt[i].stage = "live"
    BY <1>3 DEF Answer, At
  <2> QED
    BY <1>1, <2>2, <2>3 DEF Stepped, Active, TypeOK
<1>4. CASE Consume(i)
  <2>1. PICK stage \in {"settled", "marking"} : attempt' = [attempt EXCEPT ![i].stage = stage]
    BY <1>4 DEF Consume
  <2>2. /\ attempt' \in [Attempts -> Attempt] /\ \A k \in Attempts \ {i} : attempt'[k] = attempt[k]
        /\ Same(attempt[i], attempt'[i]) /\ attempt'[i].stage = stage
    BY <1>1, <2>1 DEF TypeOK, Attempt, Stages, Same
  <2>3. attempt[i].stage = "delivering"
    BY <1>4 DEF Consume, At
  <2>4. /\ proc' \in [Processes -> Process]
        /\ \A p \in Processes : /\ proc'[p].up = proc[p].up /\ proc'[p].pc = proc[p].pc
                                /\ proc'[p].due = proc[p].due /\ proc'[p].running = proc[p].running
    <3> DEFINE flags == proc[attempt[i].by].interrupted \ {attempt[i].job}
    <3>1. proc' = [proc EXCEPT ![attempt[i].by].interrupted = flags]
      BY <1>4 DEF Consume
    <3>2. attempt[i].by \in Processes => flags \in SUBSET Jobs /\ proc[attempt[i].by] \in Process
      BY DEF TypeOK, Process
    <3> HIDE DEF flags
    <3> QED
      BY <3>1, <3>2 DEF TypeOK, Process
  <2> QED
    BY <1>1, <2>2, <2>3, <2>4 DEF Stepped, Active
<1>5. CASE Reject(i) \/ Finish(i)
  BY <1>1, <1>5, EndingShape DEF Reject, Finish, At
<1> QED
  BY <1>2, <1>3, <1>4, <1>5 DEF Run

----------------------------------------------------------------------------
(* A tick claims, moves on, records an attempt or passes one over.         *)
Ticked(p) ==
  /\ proc' \in [Processes -> Process] /\ proc[p].up
  /\ \A q \in Processes \ {p} : proc'[q] = proc[q]
  /\ proc'[p].up = proc[p].up
  /\ UNCHANGED <<slot, granted, overslept>>

(* get_due_jobs writes to every record.                                    *)
LEMMA ScanShape ==
  ASSUME TypeOK, NEW p \in Processes, Scan(p)
  PROVE  /\ Ticked(p) /\ ~Ticking /\ attempt' = attempt
         /\ proc'[p].running = proc[p].running /\ proc'[p].interrupted = proc[p].interrupted
         /\ proc'[p].pc \in {"idle", "scanned"}
         /\ proc'[p].pc = "idle" => proc' = proc
         /\ proc'[p].pc = "scanned" => proc'[p].due = [j \in Jobs |-> IF Due(j) THEN slot[j] ELSE 0]
<1> DEFINE due == [j \in Jobs |-> IF Due(j) THEN slot[j] ELSE 0]
<1>1. due \in [Jobs -> 0..MaxSlots]
  BY SchedulerAssumption DEF TypeOK
<1>2. proc' = proc \/ proc' = [proc EXCEPT ![p].pc = "scanned", ![p].due = due]
  BY DEF Scan
<1>3. /\ proc[p].up /\ ~Ticking /\ attempt' = attempt /\ UNCHANGED <<slot, granted, overslept>>
      /\ proc[p] \in Process /\ proc[p].pc = "idle"
  BY DEF Scan, TypeOK, Ticking
<1> HIDE DEF due
<1>4. CASE proc' = [proc EXCEPT ![p].pc = "scanned", ![p].due = due]
  BY <1>1, <1>3, <1>4 DEF Ticked, TypeOK, Process, due
<1>5. CASE proc' = proc
  BY <1>3, <1>5 DEF Ticked, TypeOK
<1> QED
  BY <1>2, <1>4, <1>5

LEMMA ScannedWrites ==
  ASSUME TypeOK, NEW p \in Processes, Scan(p), NEW j \in Jobs
  PROVE  /\ job' \in [Jobs -> Job]
         /\ LET o == job[j] r == job'[j]
            IN  /\ r.kind = o.kind /\ r.times = o.times /\ r.completed = o.completed /\ r.ran = o.ran
                /\ r.state = o.state /\ r.enabled = o.enabled
                /\ r.next = o.next \/ (o.next = "due" /\ r.next = "later")
                /\ IF Due(j) /\ Once(j) THEN r.runClaim = p /\ r.runFresh
                   ELSE r.runClaim = o.runClaim /\ r.runFresh = o.runFresh
<1>1. PICK late \in SUBSET {k \in Jobs : Due(k)} : job' = [k \in Jobs |-> Scanned(p, k, k \in late)]
  BY DEF Scan
<1>2. ASSUME NEW k \in Jobs, NEW isLate \in BOOLEAN
      PROVE  LET o == job[k] r == Scanned(p, k, isLate)
             IN  /\ r \in Job
                 /\ r.kind = o.kind /\ r.times = o.times /\ r.completed = o.completed /\ r.ran = o.ran
                 /\ r.state = o.state /\ r.enabled = o.enabled
                 /\ r.next = o.next \/ (o.next = "due" /\ r.next = "later")
                 /\ IF Due(k) /\ Once(k) THEN r.runClaim = p /\ r.runFresh
                    ELSE r.runClaim = o.runClaim /\ r.runFresh = o.runFresh
  <2>1. job[k] \in Job
    BY DEF TypeOK
  <2>2. CASE ~Due(k)
    BY <2>1, <2>2 DEF Scanned
  <2>3. CASE Due(k) /\ Once(k)
    <3>1. Scanned(p, k, isLate) = [job[k] EXCEPT !.runClaim = p, !.runFresh = TRUE]
      BY <2>3 DEF Scanned
    <3> QED
      BY <2>1, <2>3, <3>1 DEF Job
  <2>4. CASE Due(k) /\ ~Once(k) /\ isLate
    <3>1. Scanned(p, k, isLate) = [job[k] EXCEPT !.next = "later"] /\ job[k].next = "due"
      BY <2>4 DEF Scanned, Due, Ready
    <3> QED
      BY <2>1, <2>4, <3>1 DEF Job
  <2>5. CASE Due(k) /\ ~Once(k) /\ ~isLate
    <3>1. Scanned(p, k, isLate) = [job[k] EXCEPT !.next = job[k].next]
      BY <2>5 DEF Scanned
    <3> QED
      BY <2>1, <2>5, <3>1 DEF Job
  <2> QED
    BY <2>2, <2>3, <2>4, <2>5
<1>3. \A k \in Jobs : (k \in late) \in BOOLEAN /\ job'[k] = Scanned(p, k, k \in late)
  BY <1>1
<1> QED
  BY <1>1, <1>2, <1>3

(* advance_next_runs.                                                      *)
LEMMA AdvanceShape ==
  ASSUME TypeOK, NEW p \in Processes, Advance(p)
  PROVE  /\ Ticked(p) \/ ~proc[p].up
         /\ proc' \in [Processes -> Process] /\ \A q \in Processes \ {p} : proc'[q] = proc[q]
         /\ proc[p].pc = "scanned" /\ proc'[p].pc = "advanced"
         /\ proc'[p].up = proc[p].up /\ proc'[p].due = proc[p].due
         /\ proc'[p].running = proc[p].running /\ proc'[p].interrupted = proc[p].interrupted
         /\ job' \in [Jobs -> Job]
         /\ \A j \in Jobs :
              \/ job'[j] = job[j] /\ ~(proc[p].due[j] > 0 /\ Kept(j) /\ ~Once(j))
              \/ ~Once(j) /\ job'[j].next = "later" /\ Touched(job[j], job'[j])
         /\ UNCHANGED <<fate, slot, attempt, granted, overslept>>
<1>1. ASSUME NEW j \in Jobs
      PROVE  /\ [job[j] EXCEPT !.next = "later"].next = "later"
             /\ Touched(job[j], [job[j] EXCEPT !.next = "later"])
             /\ [job[j] EXCEPT !.next = "later"] \in Job
  <2>1. job[j] \in Job
    BY DEF TypeOK
  <2>2. Touched(job[j], [job[j] EXCEPT !.next = "later"])
    BY <2>1, ClockWrites
  <2> QED
    BY <2>1, <2>2 DEF Job
<1>2. /\ job' \in [Jobs -> Job]
      /\ \A j \in Jobs :
           \/ job'[j] = job[j] /\ ~(proc[p].due[j] > 0 /\ Kept(j) /\ ~Once(j))
           \/ ~Once(j) /\ job'[j].next = "later" /\ Touched(job[j], job'[j])
  BY <1>1 DEF Advance, TypeOK
<1>3. /\ proc' \in [Processes -> Process] /\ \A q \in Processes \ {p} : proc'[q] = proc[q]
      /\ proc[p].pc = "scanned" /\ proc'[p].pc = "advanced"
      /\ proc'[p].up = proc[p].up /\ proc'[p].due = proc[p].due
      /\ proc'[p].running = proc[p].running /\ proc'[p].interrupted = proc[p].interrupted
  BY DEF Advance, TypeOK, Process
<1>4. UNCHANGED <<fate, slot, attempt, granted, overslept>>
  BY DEF Advance
<1> QED
  BY <1>2, <1>3, <1>4 DEF Ticked

LEMMA HandledShape ==
  ASSUME TypeOK, NEW p \in Processes, NEW j \in Jobs, NEW running \in SUBSET Jobs,
         Handled(p, j, running)
  PROVE  /\ proc' \in [Processes -> Process] /\ \A q \in Processes \ {p} : proc'[q] = proc[q]
         /\ proc'[p].up = proc[p].up /\ proc'[p].running = running
         /\ proc'[p].interrupted = proc[p].interrupted
         /\ proc'[p].due = [proc[p].due EXCEPT ![j] = 0]
         /\ \/ proc'[p].pc = proc[p].pc
            \/ proc'[p].pc = "idle" /\ \A k \in Jobs : proc'[p].due[k] = 0
<1> DEFINE due == [proc[p].due EXCEPT ![j] = 0]
           pc  == IF \A k \in Jobs : due[k] = 0 THEN "idle" ELSE proc[p].pc
<1>1. proc[p] \in Process
  BY DEF TypeOK
<1>2. due \in [Jobs -> 0..MaxSlots] /\ pc \in {"idle", "scanned", "advanced"}
  BY <1>1, SchedulerAssumption DEF Process
<1>3. proc' = [proc EXCEPT ![p] = [proc[p] EXCEPT !.due = due, !.running = running, !.pc = pc]]
  BY DEF Handled, TypeOK
<1>4. pc = proc[p].pc \/ (pc = "idle" /\ \A k \in Jobs : due[k] = 0)
  OBVIOUS
<1> HIDE DEF due, pc
<1>5. LET q == [proc[p] EXCEPT !.due = due, !.running = running, !.pc = pc]
      IN  /\ q \in Process /\ q.up = proc[p].up /\ q.running = running /\ q.due = due /\ q.pc = pc
          /\ q.interrupted = proc[p].interrupted
  BY <1>1, <1>2 DEF Process
<1> QED
  BY <1>3, <1>4, <1>5 DEF TypeOK, due

(* An attempt is recorded.                                                 *)
New(i, a) ==
  /\ NextFree(i) /\ a \in Attempt /\ attempt' = [attempt EXCEPT ![i] = a]
  /\ a.row \in {"none", "claimed"} /\ ~a.killed

LEMMA DispatchShape ==
  ASSUME TypeOK, NEW p \in Processes, NEW j \in Jobs, Dispatch(p, j)
  PROVE  \E i \in Attempts, a \in Attempt :
           /\ New(i, a) /\ a.job = j /\ a.by = p /\ a.via = "tick" /\ a.slot = proc[p].due[j]
           /\ a.stage = "queued" /\ a.row = "claimed" /\ (Once(j) => a.owner = p)
<1>1. PICK i \in Attempts :
        /\ NextFree(i)
        /\ attempt' = [attempt EXCEPT ![i] =
             [Unused EXCEPT !.job = j, !.by = p, !.slot = proc[p].due[j],
                            !.owner = IF Once(j) THEN p ELSE NULL,
                            !.stage = "queued", !.row = "claimed"]]
  BY DEF Dispatch
<1> DEFINE owner == IF Once(j) THEN p ELSE NULL
           due   == proc[p].due[j]
           a     == [Unused EXCEPT !.job = j, !.by = p, !.slot = due, !.owner = owner,
                                   !.stage = "queued", !.row = "claimed"]
<1>2. owner \in Processes \cup {NULL} /\ (Once(j) => owner = p) /\ due \in 0..MaxSlots
  BY DEF TypeOK, Process
<1>3. attempt' = [attempt EXCEPT ![i] = a]
  BY <1>1
<1> HIDE DEF owner, due
<1>4. /\ a \in Attempt /\ a.job = j /\ a.by = p /\ a.via = "tick" /\ a.slot = due
      /\ a.stage = "queued" /\ a.row = "claimed" /\ a.owner = owner /\ ~a.killed
  BY <1>2 DEF Unused, Attempt, Stages
<1> QED
  BY <1>1, <1>2, <1>3, <1>4 DEF New, due

LEMMA FireShape ==
  ASSUME TypeOK, NEW p \in Processes, NEW j \in Jobs, Fire(p, j)
  PROVE  /\ \E i \in Attempts, a \in Attempt :
              /\ New(i, a) /\ a.job = j /\ a.by = p /\ a.via = "direct" /\ a.stage = "fired"
              /\ a.row = "none"
         /\ job' \in [Jobs -> Job] /\ \A k \in Jobs \ {j} : job'[k] = job[k]
         /\ Touched(job[j], job'[j]) /\ job'[j].runFresh = job[j].runFresh
         /\ job'[j].next = job[j].next \/ job'[j].next = "later"
         /\ UNCHANGED <<fate, slot, proc, granted, overslept>>
<1>1. PICK i \in Attempts :
        /\ NextFree(i)
        /\ attempt' = [attempt EXCEPT ![i] =
             [Unused EXCEPT !.job = j, !.by = p, !.via = "direct",
                            !.slot = IF job[j].next = "due" THEN slot[j] ELSE 0,
                            !.owner = IF Once(j) THEN job[j].runClaim ELSE NULL,
                            !.stage = "fired"]]
  BY DEF Fire
<1> DEFINE owner == IF Once(j) THEN job[j].runClaim ELSE NULL
           due   == IF job[j].next = "due" THEN slot[j] ELSE 0
           a     == [Unused EXCEPT !.job = j, !.by = p, !.via = "direct", !.slot = due,
                                   !.owner = owner, !.stage = "fired"]
           next  == IF Once(j) THEN job[j].next ELSE "later"
           r     == [job[j] EXCEPT !.fireClaim = "fresh", !.next = next]
<1>2. job[j] \in Job
  BY DEF TypeOK
<1>3. /\ owner \in Processes \cup {NULL} /\ due \in 0..MaxSlots
      /\ next \in {"none", "later", "due"} /\ (next = job[j].next \/ next = "later")
  BY <1>2, SchedulerAssumption DEF TypeOK, Job
<1>4. attempt' = [attempt EXCEPT ![i] = a]
  BY <1>1
<1>5. job' = [job EXCEPT ![j] = r]
  BY DEF Fire, TypeOK
<1> HIDE DEF owner, due, next
<1>6. /\ a \in Attempt /\ a.job = j /\ a.by = p /\ a.via = "direct"
      /\ a.stage = "fired" /\ a.row = "none" /\ ~a.killed
  BY <1>3 DEF Unused, Attempt, Stages
<1>7. Touched(job[j], r)
  BY <1>2, <1>3, ClockWrites
<1>8. r.runFresh = job[j].runFresh /\ r.next = next
  BY <1>2, <1>3 DEF Job
<1>9. UNCHANGED <<fate, slot, proc, granted, overslept>>
  BY DEF Fire
<1>10. r \in Job
  BY <1>7 DEF Touched
<1> HIDE DEF r
<1>11. /\ job' \in [Jobs -> Job] /\ \A k \in Jobs \ {j} : job'[k] = job[k]
       /\ job'[j] = r
  BY <1>5, <1>10 DEF TypeOK
<1> QED
  BY <1>1, <1>3, <1>4, <1>6, <1>7, <1>8, <1>9, <1>11 DEF New

(* A shutdown kills the tools of the runs it interrupts, and flags them.   *)
LEMMA StopShape ==
  ASSUME TypeOK, NEW p \in Processes, Stop(p)
  PROVE  /\ attempt' \in [Attempts -> Attempt]
         /\ \A i \in Attempts :
              /\ Same([attempt[i] EXCEPT !.killed = attempt'[i].killed], attempt'[i])
              /\ attempt'[i].owner = attempt[i].owner /\ attempt'[i].stage = attempt[i].stage
              /\ attempt'[i].row = attempt[i].row /\ attempt'[i].ok = attempt[i].ok
              /\ attempt'[i].killed => \/ attempt[i].killed
                                       \/ attempt[i].by = p /\ attempt[i].stage = "live"
         /\ proc' \in [Processes -> Process] /\ \A q \in Processes \ {p} : proc'[q] = proc[q]
         /\ proc'[p].up = proc[p].up /\ proc'[p].pc = proc[p].pc /\ proc'[p].due = proc[p].due
         /\ proc'[p].running = proc[p].running
         /\ proc'[p].interrupted = proc[p].interrupted \cup proc[p].running
         /\ UNCHANGED <<job, fate, slot, granted, overslept>>
<1>1. ASSUME NEW i \in Attempts
      PROVE  LET a == [attempt[i] EXCEPT !.killed = @ \/ (attempt[i].by = p /\ At(i, "live"))]
             IN  /\ a \in Attempt
                 /\ Same([attempt[i] EXCEPT !.killed = a.killed], a)
                 /\ a.owner = attempt[i].owner /\ a.stage = attempt[i].stage
                 /\ a.row = attempt[i].row /\ a.ok = attempt[i].ok
                 /\ a.killed => attempt[i].killed \/ (attempt[i].by = p /\ attempt[i].stage = "live")
  <2> DEFINE k == attempt[i].killed \/ (attempt[i].by = p /\ At(i, "live"))
             a == [attempt[i] EXCEPT !.killed = k]
  <2>1. attempt[i] \in Attempt /\ k \in BOOLEAN
    BY DEF TypeOK
  <2>2. k => attempt[i].killed \/ (attempt[i].by = p /\ attempt[i].stage = "live")
    BY DEF At
  <2> HIDE DEF k
  <2>3. a \in Attempt /\ Same([attempt[i] EXCEPT !.killed = a.killed], a) /\ a.killed = k
    BY <2>1 DEF Attempt, Same
  <2>4. /\ a.owner = attempt[i].owner /\ a.stage = attempt[i].stage
        /\ a.row = attempt[i].row /\ a.ok = attempt[i].ok
    BY <2>1 DEF Attempt
  <2> QED
    BY <2>2, <2>3, <2>4 DEF k
<1>2. attempt' = [i \in Attempts |->
                    [attempt[i] EXCEPT !.killed = @ \/ (attempt[i].by = p /\ At(i, "live"))]]
  BY DEF Stop
<1> DEFINE flags == proc[p].interrupted \cup proc[p].running
<1>3. proc[p] \in Process /\ flags \in SUBSET Jobs /\ proc[p].running \in SUBSET Jobs
  BY DEF TypeOK, Process
<1>4. proc' = [proc EXCEPT ![p].stopping = TRUE, ![p].interrupted = flags,
                           ![p].unmarked = proc[p].running]
  BY DEF Stop
<1>5. UNCHANGED <<job, fate, slot, granted, overslept>>
  BY DEF Stop
<1>6. /\ proc' \in [Processes -> Process] /\ \A q \in Processes \ {p} : proc'[q] = proc[q]
      /\ proc'[p].up = proc[p].up /\ proc'[p].pc = proc[p].pc /\ proc'[p].due = proc[p].due
      /\ proc'[p].running = proc[p].running
      /\ proc'[p].interrupted = flags
  <2> HIDE DEF flags
  <2> QED
    BY <1>3, <1>4 DEF TypeOK, Process
<1> QED
  BY <1>1, <1>2, <1>5, <1>6

(* The processes as the other steps leave them.                            *)
LEMMA ProcessTypes ==
  /\ Down \in Process /\ Down.up = FALSE /\ Started \in Process /\ Started.up = TRUE
  /\ \A q \in {Down, Started} : q.pc = "idle" /\ q.due = [j \in Jobs |-> 0] /\ q.running = {}
<1>1. /\ Down \in Process /\ Down.up = FALSE /\ Down.pc = "idle"
      /\ Down.due = [j \in Jobs |-> 0] /\ Down.running = {}
  BY SchedulerAssumption DEF Down, Process
<1> HIDE DEF Down
<1>2. /\ Started \in Process /\ Started.up = TRUE /\ Started.pc = "idle"
      /\ Started.due = Down.due /\ Started.running = {}
  BY <1>1 DEF Started, Process
<1> QED
  BY <1>1, <1>2

(* It marks the jobs one by one.                                           *)
LEMMA InterruptShape ==
  ASSUME TypeOK, NEW p \in Processes, NEW j \in Jobs, MarkInterrupted(p, j)
  PROVE  /\ proc' \in [Processes -> Process] /\ \A q \in Processes \ {p} : proc'[q] = proc[q]
         /\ proc'[p].up = proc[p].up /\ proc'[p].pc = proc[p].pc /\ proc'[p].due = proc[p].due
         /\ proc'[p].running = proc[p].running /\ proc'[p].interrupted = proc[p].interrupted
         /\ MarkRun(j) /\ UNCHANGED <<fate, slot, attempt, granted, overslept>>
<1> DEFINE rest == proc[p].unmarked \ {j}
<1>1. proc[p] \in Process /\ rest \in SUBSET Jobs
  BY DEF TypeOK, Process
<1>2. proc' = [proc EXCEPT ![p].unmarked = rest]
  BY DEF MarkInterrupted
<1>3. MarkRun(j) /\ UNCHANGED <<fate, slot, attempt, granted, overslept>>
  BY DEF MarkInterrupted
<1> HIDE DEF rest
<1> QED
  BY <1>1, <1>2, <1>3 DEF TypeOK, Process

(* A process that exits or crashes takes its runs with it.                 *)
LEMMA GoneShape ==
  ASSUME TypeOK, NEW p \in Processes, Gone(p)
  PROVE  /\ proc' = [proc EXCEPT ![p] = Down] /\ proc' \in [Processes -> Process]
         /\ attempt' \in [Attempts -> Attempt]
         /\ \A i \in Attempts :
              /\ attempt'[i].job = attempt[i].job /\ attempt'[i].by = attempt[i].by
              /\ attempt'[i].via = attempt[i].via /\ attempt'[i].slot = attempt[i].slot
              /\ attempt'[i].row = attempt[i].row /\ attempt'[i].ok = attempt[i].ok
              /\ attempt'[i].killed = attempt[i].killed
              /\ IF attempt[i].by = p /\ attempt[i].stage \notin {"none", "ended"}
                 THEN attempt'[i].stage = "dead"
                 ELSE attempt'[i].stage = attempt[i].stage /\ attempt'[i].owner = attempt[i].owner
         /\ UNCHANGED <<job, fate, slot, granted, overslept>>
<1>1. ASSUME NEW i \in Attempts
      PROVE  LET a == [attempt[i] EXCEPT !.stage = "dead", !.owner = NULL]
             IN  /\ a \in Attempt /\ a.stage = "dead"
                 /\ a.job = attempt[i].job /\ a.by = attempt[i].by /\ a.via = attempt[i].via
                 /\ a.slot = attempt[i].slot /\ a.row = attempt[i].row /\ a.ok = attempt[i].ok
                 /\ a.killed = attempt[i].killed
  <2>1. attempt[i] \in Attempt
    BY DEF TypeOK
  <2> QED
    BY <2>1 DEF Attempt, Stages
<1>2. proc' = [proc EXCEPT ![p] = Down] /\ proc' \in [Processes -> Process]
  BY ProcessTypes DEF Gone, TypeOK
<1>3. UNCHANGED <<job, fate, slot, granted, overslept>>
  BY DEF Gone
<1>4. attempt' = [i \in Attempts |->
       IF attempt[i].by = p /\ attempt[i].stage \notin {"none", "ended"}
       THEN [attempt[i] EXCEPT !.stage = "dead", !.owner = NULL] ELSE attempt[i]]
  BY DEF Gone
<1> QED
  BY <1>1, <1>2, <1>3, <1>4 DEF Same, TypeOK

(* One that starts settles the rows of runs that died.                     *)
LEMMA StartShape ==
  ASSUME TypeOK, NEW p \in Processes, Start(p)
  PROVE  /\ proc' = [proc EXCEPT ![p] = Started] /\ proc' \in [Processes -> Process] /\ ~proc[p].up
         /\ attempt' \in [Attempts -> Attempt]
         /\ \A i \in Attempts :
              /\ Same(attempt[i], attempt'[i]) /\ attempt'[i].stage = attempt[i].stage
              /\ attempt'[i].owner = attempt[i].owner /\ attempt'[i].ok = attempt[i].ok
              /\ IF attempt[i].stage = "dead" /\ attempt[i].row \in Open
                 THEN attempt'[i].row = "unknown" ELSE attempt'[i].row = attempt[i].row
         /\ UNCHANGED <<job, fate, slot, granted, overslept>>
<1>1. ASSUME NEW i \in Attempts
      PROVE  LET a == [attempt[i] EXCEPT !.row = "unknown"]
             IN  /\ a \in Attempt /\ Same(attempt[i], a) /\ a.stage = attempt[i].stage
                 /\ a.owner = attempt[i].owner /\ a.ok = attempt[i].ok /\ a.row = "unknown"
  <2>1. attempt[i] \in Attempt
    BY DEF TypeOK
  <2> QED
    BY <2>1 DEF Attempt, Same
<1>2. /\ proc' = [proc EXCEPT ![p] = Started] /\ proc' \in [Processes -> Process] /\ ~proc[p].up
      /\ UNCHANGED <<job, fate, slot, granted, overslept>>
  BY ProcessTypes DEF Start, TypeOK
<1>3. attempt' = [i \in Attempts |-> IF At(i, "dead") /\ attempt[i].row \in Open
                                     THEN [attempt[i] EXCEPT !.row = "unknown"] ELSE attempt[i]]
  BY DEF Start
<1> QED
  BY <1>1, <1>2, <1>3 DEF Same, TypeOK, At

----------------------------------------------------------------------------
LEMMA StepKinds ==
  ASSUME [Next]_vars
  PROVE  \/ \E j \in Jobs : Users(j)
         \/ \E p \in Processes : \/ Scan(p) \/ Advance(p) \/ Stop(p) \/ Exit(p) \/ Crash(p) \/ Start(p)
                                 \/ \E j \in Jobs : \/ Dispatch(p, j) \/ Skip(p, j) \/ Fire(p, j)
                                                    \/ MarkInterrupted(p, j)
         \/ \E i \in Attempts : Run(i)
         \/ UNCHANGED vars
BY DEF Next, Tick, Users

TypeInv == TypeOK /\ Counts /\ Owned /\ OneAtATime /\ TicksWhenUp

(* What a step of a run does to the record of its job.                     *)
RunWrites(i) ==
  LET j == attempt[i].job
  IN  /\ job' \in [Jobs -> Job] /\ granted' \in [Jobs -> Nat]
      /\ \A k \in Jobs \ {j} : job'[k] = job[k] /\ granted'[k] = granted[k]
      /\ \/ job'[j] = job[j] /\ granted'[j] = granted[j]
         \/ /\ Kept(j) /\ attempt[i].stage = "queued"
            /\ Once(j) /\ job[j].times > 0 /\ job[j].completed < job[j].times
            /\ job'[j] = [job[j] EXCEPT !.completed = @ + 1] /\ granted'[j] = granted[j] + 1
         \/ /\ Once(j) /\ granted'[j] = granted[j] /\ attempt'[i].stage = "ended" /\ job[j].ran
            /\ job'[j] = [job[j] EXCEPT !.enabled = FALSE, !.state = "completed", !.next = "none"]
         \/ /\ Kept(j) /\ attempt[i].stage = "marking"
            /\ job'[j] = MarkedRun(job[j]) /\ granted'[j] = granted[j]

LEMMA RunRecord ==
  ASSUME TypeInv, NEW i \in Attempts, Run(i)
  PROVE  RunWrites(i)
<1> USE DEF TypeInv
<1> DEFINE j == attempt[i].job
<1>1. j \in Jobs /\ job[j] \in Job /\ granted[j] \in Nat
  <2>1. attempt[i].stage # "none"
    BY DEF Run, RecordFire, Begin, Reject, Work, Answer, Consume, Mark, Finish, At
  <2> QED
    BY <2>1 DEF Owned, OwnedAttempt, TypeOK
<1>2. CASE UNCHANGED <<job, granted>>
  BY <1>2 DEF RunWrites, TypeOK
<1>3. CASE Begin(i)
  <2>1. CASE Kept(j) /\ Once(j) /\ job[j].times > 0
    <3>1. /\ job' = [job EXCEPT ![j].completed = @ + 1] /\ granted' = [granted EXCEPT ![j] = @ + 1]
          /\ ~Spent(j) /\ attempt[i].stage = "queued"
      BY <1>3, <2>1 DEF Begin, At
    <3>2. job[j].completed < job[j].times /\ job[j].completed + 1 \in 0..MaxTimes
      BY <1>1, <2>1, <3>1, SchedulerAssumption DEF Spent, Job
    <3>3. [job[j] EXCEPT !.completed = @ + 1] \in Job
      BY <1>1, <3>2 DEF Job
    <3> QED
      BY <1>1, <2>1, <3>1, <3>2, <3>3 DEF RunWrites, TypeOK
  <2>2. CASE ~(Kept(j) /\ Once(j) /\ job[j].times > 0)
    BY <1>2, <1>3, <2>2 DEF Begin
  <2> QED
    BY <2>1, <2>2
<1>4. CASE Reject(i)
  <2>1. CASE job[j].ran
    <3>1. /\ job' = [job EXCEPT ![j] = [job[j] EXCEPT !.enabled = FALSE, !.state = "completed", !.next = "none"]]
          /\ Once(j) /\ granted' = granted
      BY <1>4, <2>1 DEF Reject, Spent, TypeOK
    <3>2. attempt'[i].stage = "ended"
      BY <1>4 DEF Reject, Ended, TypeOK, Attempt
    <3>3. [job[j] EXCEPT !.enabled = FALSE, !.state = "completed", !.next = "none"] \in Job
      BY <1>1 DEF Job
    <3> QED
      BY <1>1, <2>1, <3>1, <3>2, <3>3 DEF RunWrites, TypeOK
  <2>2. CASE ~job[j].ran
    BY <1>2, <1>4, <2>2 DEF Reject
  <2> QED
    BY <2>1, <2>2
<1>5. CASE Mark(i)
  <2>1. CASE Kept(j)
    <3>1. /\ job' = [job EXCEPT ![j] = MarkedRun(job[j])] /\ granted' = granted
          /\ attempt[i].stage = "marking"
      BY <1>5, <2>1 DEF Mark, MarkRun, At
    <3>2. MarkedRun(job[j]) \in Job
      <4>1. Limited(job[j])
        BY <1>1 DEF Limited, Counts, Once, Job
      <4>2. Marked(job[j], MarkedRun(job[j]))
        BY <1>1, <4>1, MarkWrites
      <4> QED
        BY <4>2 DEF Marked
    <3> QED
      BY <1>1, <2>1, <3>1, <3>2 DEF RunWrites, TypeOK
  <2>2. CASE ~Kept(j)
    BY <1>2, <1>5, <2>2 DEF Mark, MarkRun
  <2> QED
    BY <2>1, <2>2
<1>6. CASE RecordFire(i) \/ Work(i) \/ Answer(i) \/ Consume(i) \/ Finish(i)
  BY <1>2, <1>6 DEF RecordFire, Work, Answer, Consume, Finish
<1> QED
  BY <1>3, <1>4, <1>5, <1>6 DEF Run

(* Marking writes one record.                                              *)
LEMMA MarkRunWrites ==
  ASSUME TypeOK, Counts, NEW j \in Jobs, MarkRun(j)
  PROVE  /\ job' \in [Jobs -> Job] /\ \A k \in Jobs \ {j} : job'[k] = job[k]
         /\ job'[j] = job[j] \/ (Kept(j) /\ Marked(job[j], job'[j]))
<1>1. job[j] \in Job /\ Limited(job[j])
  BY DEF TypeOK, Limited, Counts, Once, Job
<1>2. Marked(job[j], MarkedRun(job[j])) /\ MarkedRun(job[j]) \in Job
  <2>1. Marked(job[j], MarkedRun(job[j]))
    BY <1>1, MarkWrites
  <2> QED
    BY <2>1 DEF Marked
<1>3. CASE Kept(j)
  BY <1>2, <1>3 DEF MarkRun, TypeOK
<1>4. CASE ~Kept(j)
  BY <1>4 DEF MarkRun, TypeOK
<1> QED
  BY <1>3, <1>4

(* What a step may do to one record and the count of its dispatches.       *)
Noted(j) == Touched(job[j], job'[j]) /\ granted'[j] = granted[j]
Begun(j) == /\ Once(j) /\ job[j].times > 0 /\ job[j].completed < job[j].times
            /\ job'[j] = [job[j] EXCEPT !.completed = @ + 1] /\ granted'[j] = granted[j] + 1
Turned(j) == /\ Once(j) /\ granted'[j] = granted[j] /\ job[j].ran
             /\ job'[j] = [job[j] EXCEPT !.enabled = FALSE, !.state = "completed", !.next = "none"]
Over(j) == Marked(job[j], job'[j]) /\ granted'[j] = granted[j]
Claimed(j) == /\ granted'[j] = granted[j]
              /\ LET o == job[j] r == job'[j]
                 IN  /\ r.kind = o.kind /\ r.times = o.times /\ r.completed = o.completed
                     /\ r.ran = o.ran /\ r.state = o.state /\ r.enabled = o.enabled
                     /\ r.next = o.next \/ (o.next = "due" /\ r.next = "later")

Written == \A j \in Jobs : Noted(j) \/ Begun(j) \/ Turned(j) \/ Over(j) \/ Claimed(j)

LEMMA RecordStep ==
  ASSUME TypeInv, [Next]_vars
  PROVE  job' \in [Jobs -> Job] /\ granted' \in [Jobs -> Nat] /\ Written
<1> USE DEF TypeInv
<1> DEFINE Goal == job' \in [Jobs -> Job] /\ granted' \in [Jobs -> Nat] /\ Written
<1>1. \A j \in Jobs : Touched(job[j], job[j])
  BY DEF Touched, TypeOK
<1>2. ASSUME UNCHANGED <<job, granted>> PROVE Goal
  BY <1>1, <1>2 DEF TypeOK, Written, Noted
<1>3. ASSUME NEW j \in Jobs, Users(j) PROVE Goal
  <2>1. Adjusted(j)
    BY <1>3, UserShape
  <2> QED
    BY <1>1, <2>1 DEF Adjusted, Written, Noted, TypeOK
<1>4. ASSUME NEW p \in Processes, Scan(p) PROVE Goal
  <2>1. granted' = granted
    BY <1>4, ScanShape DEF Ticked
  <2>2. ASSUME NEW j \in Jobs PROVE job' \in [Jobs -> Job] /\ Claimed(j)
    BY <1>4, <2>1, ScannedWrites DEF Claimed
  <2>3. job' \in [Jobs -> Job]
    <3>1. CASE Jobs = {}
      BY <1>4, <3>1 DEF Scan
    <3> QED
      BY <2>2, <3>1
  <2> QED
    BY <2>1, <2>2, <2>3 DEF Written, TypeOK
<1>5. ASSUME NEW p \in Processes, Advance(p) PROVE Goal
  BY <1>1, <1>5, AdvanceShape DEF Written, Noted, TypeOK
<1>6. ASSUME NEW p \in Processes, NEW j \in Jobs, Fire(p, j) PROVE Goal
  BY <1>1, <1>6, FireShape DEF Written, Noted, TypeOK
<1>7. ASSUME NEW p \in Processes, NEW j \in Jobs, MarkInterrupted(p, j) PROVE Goal
  <2>1. MarkRun(j) /\ granted' = granted
    BY <1>7, InterruptShape
  <2> QED
    BY <1>1, <2>1, MarkRunWrites DEF Written, Noted, Over, TypeOK
<1>8. ASSUME NEW i \in Attempts, Run(i) PROVE Goal
  <2>1. RunWrites(i)
    BY <1>8, RunRecord
  <2> DEFINE j == attempt[i].job
  <2>2. j \in Jobs => Limited(job[j]) /\ job[j] \in Job
    BY DEF TypeOK, Limited, Counts, Once, Job
  <2>3. j \in Jobs => Marked(job[j], MarkedRun(job[j]))
    BY <2>2, MarkWrites
  <2>4. j \in Jobs => Noted(j) \/ Begun(j) \/ Turned(j) \/ Over(j)
    BY <1>1, <2>1, <2>3 DEF RunWrites, Noted, Begun, Turned, Over
  <2>5. \A k \in Jobs \ {j} : Noted(k)
    BY <1>1, <2>1 DEF RunWrites, Noted
  <2> QED
    BY <2>1, <2>4, <2>5 DEF RunWrites, Written
<1>9. ASSUME NEW p \in Processes,
             Stop(p) \/ Exit(p) \/ Crash(p) \/ Start(p) \/ \E j \in Jobs : Dispatch(p, j) \/ Skip(p, j)
      PROVE  Goal
  BY <1>2, <1>9 DEF Stop, Exit, Crash, Gone, Start, Dispatch, Skip
<1>10. CASE UNCHANGED vars
  BY <1>2, <1>10 DEF vars
<1> QED
  BY <1>3, <1>4, <1>5, <1>6, <1>7, <1>8, <1>9, <1>10, StepKinds

LEMMA CountsStep ==
  ASSUME TypeInv, [Next]_vars
  PROVE  Counts'
<1>1. job' \in [Jobs -> Job] /\ granted' \in [Jobs -> Nat] /\ Written
  BY RecordStep
<1> SUFFICES ASSUME NEW j \in Jobs
             PROVE  /\ job'[j].completed <= job'[j].times
                    /\ job'[j].kind = "once" /\ job'[j].times > 0 => granted'[j] <= job'[j].completed
                    /\ job'[j].kind # "once" /\ job'[j].state = "completed"
                         => job'[j].times > 0 /\ job'[j].completed = job'[j].times
  BY DEF Counts, Once
<1>2. /\ job[j] \in Job /\ job[j].completed \in Nat /\ job[j].times \in Nat /\ granted[j] \in Nat
      /\ job'[j] \in Job
  BY <1>1, SchedulerAssumption DEF TypeInv, TypeOK, Job
<1>3. /\ job[j].completed <= job[j].times
      /\ job[j].kind = "once" /\ job[j].times > 0 => granted[j] <= job[j].completed
      /\ job[j].kind # "once" /\ job[j].state = "completed"
           => job[j].times > 0 /\ job[j].completed = job[j].times
  BY DEF TypeInv, Counts, Once
<1>4. CASE Noted(j)
  BY <1>2, <1>3, <1>4 DEF Noted, Touched
<1>5. CASE Begun(j)
  <2>1. /\ job'[j].completed = job[j].completed + 1 /\ job'[j].times = job[j].times
        /\ job'[j].kind = "once" /\ job[j].kind = "once"
    BY <1>2, <1>5 DEF Begun, Job, Once
  <2> QED
    BY <1>2, <1>3, <1>5, <2>1 DEF Begun
<1>6. CASE Turned(j)
  <2>1. /\ job'[j].completed = job[j].completed /\ job'[j].times = job[j].times
        /\ job'[j].kind = "once" /\ job[j].kind = "once"
    BY <1>2, <1>6 DEF Turned, Job, Once
  <2> QED
    BY <1>2, <1>3, <1>6, <2>1 DEF Turned
<1>7. CASE Over(j)
  <2>1. /\ job[j].completed <= job'[j].completed /\ job'[j].kind = job[j].kind
        /\ job'[j].times = job[j].times /\ granted'[j] = granted[j] /\ Limited(job'[j])
        /\ job'[j].completed \in Nat
    BY <1>2, <1>7, SchedulerAssumption DEF Over, Marked, Job
  <2> QED
    BY <1>2, <1>3, <2>1 DEF Limited, Job
<1>8. CASE Claimed(j)
  BY <1>2, <1>3, <1>8 DEF Claimed
<1> QED
  BY <1>1, <1>4, <1>5, <1>6, <1>7, <1>8 DEF Written

(* The counters and the marks on a record.                                 *)
LEMMA OthersTyped ==
  ASSUME TypeInv, [Next]_vars
  PROVE  /\ moves' \in 0..MaxMoves /\ faults' \in 0..MaxFaults
         /\ fate' \in [Jobs -> {"kept", "user", "scan", "claim", "sweep"}]
         /\ slot' \in [Jobs -> 0..MaxSlots] /\ overslept' \subseteq Jobs
<1> USE DEF TypeInv
<1>1. ASSUME NEW j \in Jobs, Users(j)
      PROVE  /\ slot' \in [Jobs -> 0..MaxSlots] /\ overslept' \subseteq Jobs
             /\ fate' \in [Jobs -> {"kept", "user", "scan", "claim", "sweep"}]
  BY <1>1, UserShape DEF Adjusted, TypeOK
<1>2. ASSUME NEW i \in Attempts, Run(i)
      PROVE  /\ slot' = slot /\ overslept' = overslept
             /\ fate' \in [Jobs -> {"kept", "user", "scan", "claim", "sweep"}]
  <2>1. slot' = slot /\ overslept' = overslept
    BY <1>2, RunShape DEF Stepped
  <2>2. fate' = fate \/ \E j : fate' = [fate EXCEPT ![j] = "claim"]
    BY <1>2 DEF Run, RecordFire, Begin, Reject, Work, Answer, Consume, Mark, Finish
  <2> QED
    BY <2>1, <2>2 DEF TypeOK
<1>3. ASSUME NEW p \in Processes, Scan(p)
      PROVE  /\ slot' = slot /\ overslept' = overslept
             /\ fate' \in [Jobs -> {"kept", "user", "scan", "claim", "sweep"}]
  BY <1>3 DEF Scan, TypeOK
<1>4. ASSUME NEW p \in Processes,
             \/ Advance(p) \/ Stop(p) \/ Exit(p) \/ Crash(p) \/ Start(p)
             \/ \E j \in Jobs : Dispatch(p, j) \/ Skip(p, j) \/ Fire(p, j) \/ MarkInterrupted(p, j)
      PROVE  UNCHANGED <<slot, fate, overslept>>
  BY <1>4 DEF Advance, Stop, Exit, Crash, Gone, Start, Dispatch, Skip, Fire, MarkInterrupted
<1>5. /\ slot' \in [Jobs -> 0..MaxSlots] /\ overslept' \subseteq Jobs
      /\ fate' \in [Jobs -> {"kept", "user", "scan", "claim", "sweep"}]
  BY <1>1, <1>2, <1>3, <1>4, StepKinds DEF TypeOK, vars
<1>6. /\ moves' = moves \/ (moves < MaxMoves /\ moves' = moves + 1)
      /\ faults' = faults \/ (faults < MaxFaults /\ faults' = faults + 1)
  <2>1. ASSUME NEW j \in Jobs, Users(j)
        PROVE  /\ moves' = moves \/ (moves < MaxMoves /\ moves' = moves + 1)
               /\ faults' = faults
    BY <2>1 DEF Users, Arrive, Pass, Heartbeat, LapseRunClaim, LapseFireClaim, Pause, Resume,
                Trigger, Reschedule, Remove, Change
  <2>2. ASSUME NEW i \in Attempts, Run(i)
        PROVE  UNCHANGED <<moves, faults>>
    BY <2>2 DEF Run, RecordFire, Begin, Reject, Work, Answer, Consume, Mark, Finish
  <2>3. ASSUME NEW p \in Processes, NEW j \in Jobs, Fire(p, j)
        PROVE  (moves < MaxMoves /\ moves' = moves + 1) /\ faults' = faults
    BY <2>3 DEF Fire
  <2>4. ASSUME NEW p \in Processes, Stop(p) \/ Crash(p) \/ Exit(p)
        PROVE  /\ moves' = moves
               /\ faults' = faults \/ (faults < MaxFaults /\ faults' = faults + 1)
    BY <2>4 DEF Stop, Crash, Exit, Gone
  <2>5. ASSUME NEW p \in Processes,
               \/ Scan(p) \/ Advance(p) \/ Start(p)
               \/ \E j \in Jobs : Dispatch(p, j) \/ Skip(p, j) \/ MarkInterrupted(p, j)
        PROVE  UNCHANGED <<moves, faults>>
    BY <2>5 DEF Scan, Advance, Start, Dispatch, Skip, MarkInterrupted
  <2> QED
    BY <2>1, <2>2, <2>3, <2>4, <2>5, StepKinds DEF vars
<1> QED
  BY <1>5, <1>6, SchedulerAssumption DEF TypeOK

LEMMA KindKept ==
  ASSUME TypeInv, [Next]_vars, NEW j \in Jobs
  PROVE  Once(j)' = Once(j)
<1>1. job[j] \in Job /\ Written
  BY RecordStep DEF TypeInv, TypeOK
<1>2. job'[j].kind = job[j].kind
  BY <1>1 DEF Written, Noted, Begun, Turned, Over, Claimed, Touched, Marked, Job
<1> QED
  BY <1>2 DEF Once

(* An attempt that is not new keeps its owner, and a run that goes on its  *)
(* process.                                                                *)
Continued(i) ==
  /\ attempt'[i].job = attempt[i].job /\ attempt'[i].by = attempt[i].by
  /\ attempt'[i].via = attempt[i].via
  /\ \/ attempt'[i].stage = attempt[i].stage
     \/ attempt[i].stage \in Active \cup {"fired"} /\ attempt'[i].stage \in Active \cup {"ended"}
     \/ attempt[i].stage # "none" /\ attempt'[i].stage = "dead"
  /\ attempt'[i].stage \in Active \cup {"fired"} =>
       /\ attempt'[i].owner = attempt[i].owner
       /\ proc'[attempt[i].by].up = proc[attempt[i].by].up
  /\ GoesOn(i)' /\ attempt[i].job \in proc[attempt[i].by].running
       => attempt[i].job \in proc'[attempt[i].by].running

LEMMA ContinuedOwned ==
  ASSUME TypeInv, [Next]_vars, NEW i \in Attempts, Continued(i)
  PROVE  OwnedAttempt(i)' /\ (GoesOn(i)' => GoesOn(i))
<1>1. \A j \in Jobs : Once(j)' = Once(j)
  BY KindKept
<1>2. OwnedAttempt(i)
  BY DEF TypeInv, Owned
<1>3. attempt'[i].stage # "none" => attempt[i].stage # "none"
  BY DEF Continued, Active
<1>4. GoesOn(i)' => GoesOn(i)
  BY <1>2, <1>3 DEF Continued, GoesOn, ByTick, Active, OwnedAttempt
<1>5. attempt'[i].stage # "none" => attempt'[i].job \in Jobs /\ attempt'[i].by \in Processes
  BY <1>2, <1>3 DEF Continued, OwnedAttempt
<1>6. attempt'[i].stage \in Active \cup {"fired"} => proc'[attempt'[i].by].up
  BY <1>2, <1>3 DEF Continued, OwnedAttempt, Active
<1>7. ByTick(i)' => attempt'[i].stage # "fired"
  BY <1>2, <1>3 DEF Continued, OwnedAttempt, Active, ByTick
<1>8. GoesOn(i)' => /\ attempt'[i].job \in proc'[attempt'[i].by].running
                    /\ job'[attempt'[i].job].kind = "once" => attempt'[i].owner = attempt'[i].by
  <2> SUFFICES ASSUME GoesOn(i)'
               PROVE  /\ attempt'[i].job \in proc'[attempt'[i].by].running
                      /\ job'[attempt'[i].job].kind = "once" => attempt'[i].owner = attempt'[i].by
    OBVIOUS
  <2>1. /\ attempt[i].job \in proc[attempt[i].by].running
        /\ Once(attempt[i].job) => attempt[i].owner = attempt[i].by
    BY <1>2, <1>4 DEF OwnedAttempt, GoesOn
  <2>2. attempt'[i].owner = attempt[i].owner
    BY DEF Continued, GoesOn
  <2>3. attempt[i].job \in Jobs /\ attempt'[i].job = attempt[i].job /\ attempt'[i].by = attempt[i].by
    BY <1>2, <1>4 DEF Continued, GoesOn, ByTick, OwnedAttempt
  <2>4. job'[attempt[i].job].kind = "once" => Once(attempt[i].job)
    BY <1>1, <2>3 DEF Once
  <2> QED
    BY <2>1, <2>2, <2>3, <2>4 DEF Continued
<1>9. attempt'[i].stage = "none" => attempt'[i].job = NULL
  BY <1>2 DEF Continued, OwnedAttempt, Active
<1> QED
  BY <1>4, <1>5, <1>6, <1>7, <1>8, <1>9 DEF OwnedAttempt, GoesOn, Once

LEMMA AllContinued ==
  ASSUME TypeInv, [Next]_vars, \A i \in Attempts : Continued(i)
  PROVE  Owned' /\ OneAtATime'
<1>1. Owned'
  BY ContinuedOwned DEF Owned
<1>2. \A i, k \in Attempts : GoesOn(i)' /\ GoesOn(k)' /\ Alike(i, k)' => i = k
  <2>1. \A i \in Attempts : GoesOn(i)' => GoesOn(i)
    BY ContinuedOwned
  <2>2. \A i, k \in Attempts : Alike(i, k)' => Alike(i, k)
    BY DEF Continued, Alike
  <2> QED
    BY <2>1, <2>2 DEF TypeInv, OneAtATime
<1> QED
  BY <1>1, <1>2 DEF OneAtATime

(* A new attempt owns what it was started with.                            *)
LEMMA NewOwned ==
  ASSUME TypeInv, [Next]_vars, NEW i \in Attempts, NEW a \in Attempt, New(i, a),
         a.stage \in {"queued", "fired"}, a.job \in Jobs, a.by \in Processes,
         proc'[a.by].up, a.via = "tick" <=> a.stage = "queued",
         a.stage = "queued" => /\ a.job \in proc'[a.by].running
                               /\ a.job \notin proc[a.by].running
                               /\ Once(a.job) => a.owner = a.by,
         \A q \in Processes : /\ proc'[q].up = proc[q].up
                              /\ proc[q].running \subseteq proc'[q].running
  PROVE  Owned' /\ OneAtATime'
<1>1. /\ attempt'[i] = a /\ \A k \in Attempts \ {i} : attempt'[k] = attempt[k]
      /\ attempt[i].stage = "none"
  BY DEF New, NextFree, TypeInv, TypeOK
<1>2. \A k \in Attempts \ {i} : attempt[k].stage # "none" => attempt[k].by \in Processes
  BY DEF TypeInv, Owned, OwnedAttempt
<1>3. \A k \in Attempts \ {i} : Continued(k)
  <2> SUFFICES ASSUME NEW k \in Attempts \ {i} PROVE Continued(k)
    OBVIOUS
  <2>1. attempt'[k] = attempt[k]
    BY <1>1
  <2>2. CASE attempt[k].stage = "none"
    BY <2>1, <2>2 DEF Continued, GoesOn, ByTick, Active
  <2>3. CASE attempt[k].stage # "none"
    BY <1>2, <2>1, <2>3 DEF Continued
  <2> QED
    BY <2>2, <2>3
<1>4. Once(a.job)' = Once(a.job)
  BY KindKept
<1>5. OwnedAttempt(i)'
  BY <1>1, <1>4 DEF OwnedAttempt, ByTick, Active, Once
<1>6. Owned'
  BY <1>3, <1>5, ContinuedOwned DEF Owned
<1>7. ASSUME NEW k \in Attempts \ {i}, GoesOn(k)', GoesOn(i)'
      PROVE  ~Alike(i, k)' /\ ~Alike(k, i)'
  <2>1. GoesOn(k) /\ attempt'[k] = attempt[k]
    BY <1>1, <1>3, <1>7, ContinuedOwned
  <2>2. attempt[k].job \in proc[attempt[k].by].running
    BY <2>1 DEF TypeInv, Owned, OwnedAttempt, GoesOn
  <2>3. a.job \notin proc[a.by].running
    BY <1>1, <1>7 DEF GoesOn, ByTick, Active
  <2> QED
    BY <1>1, <2>1, <2>2, <2>3 DEF Alike
<1>8. \A k, m \in Attempts \ {i} : GoesOn(k)' /\ GoesOn(m)' /\ Alike(k, m)' => k = m
  <2>1. \A k \in Attempts \ {i} : GoesOn(k)' => GoesOn(k)
    BY <1>3, ContinuedOwned
  <2>2. \A k, m \in Attempts \ {i} : Alike(k, m)' => Alike(k, m)
    BY <1>1 DEF Alike
  <2> QED
    BY <2>1, <2>2 DEF TypeInv, OneAtATime
<1> QED
  BY <1>6, <1>7, <1>8 DEF OneAtATime

LEMMA OwnedStep ==
  ASSUME TypeInv, [Next]_vars
  PROVE  /\ attempt' \in [Attempts -> Attempt] /\ proc' \in [Processes -> Process]
         /\ Owned' /\ OneAtATime' /\ TicksWhenUp'
<1> DEFINE Goal == /\ attempt' \in [Attempts -> Attempt] /\ proc' \in [Processes -> Process]
                   /\ Owned' /\ OneAtATime' /\ TicksWhenUp'
<1>1. /\ TypeOK /\ Counts /\ TicksWhenUp
      /\ \A i \in Attempts : attempt[i].stage # "none" => attempt[i].by \in Processes
      /\ \A i \in Attempts : OwnedAttempt(i)
  BY DEF TypeInv, Owned, OwnedAttempt
<1>2. ASSUME \A i \in Attempts : attempt'[i].job = attempt[i].job /\ attempt'[i].by = attempt[i].by
                                 /\ attempt'[i].via = attempt[i].via
                                 /\ attempt'[i].owner = attempt[i].owner
                                 /\ attempt'[i].stage = attempt[i].stage,
             \A p \in Processes : proc'[p].up = proc[p].up /\ proc'[p].running = proc[p].running
      PROVE  Owned' /\ OneAtATime'
  <2>1. \A i \in Attempts : Continued(i)
    BY <1>1, <1>2 DEF Continued, GoesOn, ByTick, Active
  <2> QED
    BY <2>1, AllContinued
<1>3. ASSUME NEW j \in Jobs, Users(j) PROVE Goal
  <2>1. UNCHANGED <<attempt, proc>>
    BY <1>1, <1>3, UserShape DEF Adjusted
  <2> QED
    BY <1>1, <1>2, <2>1 DEF TypeOK, TicksWhenUp
<1>4. ASSUME NEW p \in Processes, Scan(p) PROVE Goal
  <2>1. /\ Ticked(p) /\ attempt' = attempt /\ proc'[p].running = proc[p].running
    BY <1>1, <1>4, ScanShape
  <2> QED
    BY <1>1, <1>2, <2>1 DEF TypeOK, TicksWhenUp, Ticked
<1>5. ASSUME NEW p \in Processes, Advance(p) PROVE Goal
  <2>1. /\ proc' \in [Processes -> Process] /\ \A q \in Processes \ {p} : proc'[q] = proc[q]
        /\ proc[p].pc = "scanned" /\ proc'[p].up = proc[p].up /\ proc'[p].running = proc[p].running
        /\ attempt' = attempt
    BY <1>1, <1>5, AdvanceShape
  <2> QED
    BY <1>1, <1>2, <2>1 DEF TypeOK, TicksWhenUp
<1>6. ASSUME NEW p \in Processes, NEW j \in Jobs, MarkInterrupted(p, j) PROVE Goal
  <2>1. /\ proc' \in [Processes -> Process] /\ \A q \in Processes \ {p} : proc'[q] = proc[q]
        /\ proc'[p].pc = proc[p].pc /\ proc'[p].up = proc[p].up /\ proc'[p].running = proc[p].running
        /\ attempt' = attempt
    BY <1>1, <1>6, InterruptShape
  <2> QED
    BY <1>1, <1>2, <2>1 DEF TypeOK, TicksWhenUp
<1>7. ASSUME NEW p \in Processes, NEW j \in Jobs, Skip(p, j) PROVE Goal
  <2>1. Handled(p, j, proc[p].running) /\ attempt' = attempt /\ proc[p].running \in SUBSET Jobs
        /\ proc[p].pc = "advanced"
    BY <1>1, <1>7 DEF Skip, Pending, TypeOK, Process
  <2>2. /\ proc' \in [Processes -> Process] /\ \A q \in Processes \ {p} : proc'[q] = proc[q]
        /\ proc'[p].up = proc[p].up /\ proc'[p].running = proc[p].running
    BY <1>1, <2>1, HandledShape
  <2> QED
    BY <1>1, <1>2, <2>1, <2>2 DEF TypeOK, TicksWhenUp
<1>8. ASSUME NEW p \in Processes, NEW j \in Jobs, Dispatch(p, j) PROVE Goal
  <2>1. PICK i \in Attempts, a \in Attempt :
           /\ New(i, a) /\ a.job = j /\ a.by = p /\ a.via = "tick" /\ a.slot = proc[p].due[j]
           /\ a.stage = "queued" /\ a.row = "claimed" /\ (Once(j) => a.owner = p)
    BY <1>1, <1>8, DispatchShape
  <2>2. /\ proc[p].running \cup {j} \in SUBSET Jobs /\ Handled(p, j, proc[p].running \cup {j})
        /\ j \notin proc[p].running /\ proc[p].pc = "advanced"
    BY <1>1, <1>8 DEF Dispatch, Pending, TypeOK, Process
  <2>3. /\ proc' \in [Processes -> Process] /\ \A q \in Processes \ {p} : proc'[q] = proc[q]
        /\ proc'[p].up = proc[p].up /\ proc'[p].running = proc[p].running \cup {j}
    BY <1>1, <2>2, HandledShape
  <2>4. attempt' \in [Attempts -> Attempt]
    BY <1>1, <2>1 DEF New, TypeOK
  <2>5. proc[p].up
    BY <1>1, <2>2 DEF TicksWhenUp
  <2>6. Owned' /\ OneAtATime'
    BY <2>1, <2>2, <2>3, <2>5, NewOwned
  <2> QED
    BY <1>1, <2>2, <2>3, <2>4, <2>6 DEF TicksWhenUp
<1>9. ASSUME NEW p \in Processes, NEW j \in Jobs, Fire(p, j) PROVE Goal
  <2>1. PICK i \in Attempts, a \in Attempt :
           /\ New(i, a) /\ a.job = j /\ a.by = p /\ a.via = "direct" /\ a.stage = "fired"
           /\ a.row = "none"
    BY <1>1, <1>9, FireShape
  <2>2. proc' = proc /\ proc[p].up
    BY <1>9 DEF Fire
  <2>3. attempt' \in [Attempts -> Attempt]
    BY <1>1, <2>1 DEF New, TypeOK
  <2>4. Owned' /\ OneAtATime'
    BY <2>1, <2>2, NewOwned
  <2> QED
    BY <1>1, <2>2, <2>3, <2>4 DEF TypeOK, TicksWhenUp
<1>10. ASSUME NEW i \in Attempts, Run(i) PROVE Goal
  <2>1. Stepped(i)
    BY <1>1, <1>10, RunShape
  <2>2. ASSUME NEW k \in Attempts PROVE Continued(k)
    <3>1. attempt[k].stage # "none" => /\ attempt[k].by \in Processes
                                       /\ proc'[attempt[k].by].up = proc[attempt[k].by].up
      BY <1>1, <2>1 DEF Stepped
    <3>2. GoesOn(k)' /\ attempt[k].job \in proc[attempt[k].by].running
            => attempt[k].job \in proc'[attempt[k].by].running
      <4> SUFFICES ASSUME GoesOn(k)', attempt[k].job \in proc[attempt[k].by].running
                   PROVE  attempt[k].job \in proc'[attempt[k].by].running
        OBVIOUS
      <4>1. attempt[k].by \in Processes
        BY <1>1, <2>1 DEF Stepped, Same, GoesOn, ByTick, Active
      <4>2. CASE proc'[attempt[k].by].running = proc[attempt[k].by].running
        BY <4>2
      <4>3. CASE /\ attempt'[i].stage = "ended" /\ attempt[i].via = "tick"
                 /\ attempt[k].by = attempt[i].by
                 /\ proc'[attempt[k].by].running = proc[attempt[k].by].running \ {attempt[i].job}
        <5>1. k # i /\ attempt'[k] = attempt[k]
          BY <2>1, <4>3 DEF Stepped, GoesOn, Active
        <5>2. GoesOn(k) /\ GoesOn(i)
          <6>1. GoesOn(k)
            BY <5>1 DEF GoesOn, ByTick
          <6>2. attempt[i].stage \in Active \cup {"fired"} /\ (ByTick(i) => attempt[i].stage # "fired")
            BY <1>1, <2>1 DEF Stepped, OwnedAttempt
          <6>3. ByTick(i)
            BY <4>3, <6>2 DEF ByTick, Active
          <6>4. attempt[i].stage \in Active
            BY <6>2, <6>3
          <6> QED
            BY <6>1, <6>3, <6>4 DEF GoesOn
        <5>3. attempt[k].job # attempt[i].job
          BY <4>3, <5>1, <5>2 DEF TypeInv, OneAtATime, Alike
        <5> QED
          BY <4>3, <5>3
      <4> QED
        BY <2>1, <4>1, <4>2, <4>3 DEF Stepped
    <3> QED
      BY <2>1, <3>1, <3>2 DEF Stepped, Same, Continued, Active
  <2>3. Owned' /\ OneAtATime'
    BY <2>2, AllContinued
  <2> QED
    BY <1>1, <2>1, <2>3 DEF Stepped, TicksWhenUp
<1>11. ASSUME NEW p \in Processes, Stop(p) PROVE Goal
  <2>1. /\ attempt' \in [Attempts -> Attempt]
        /\ \A i \in Attempts :
             /\ Same([attempt[i] EXCEPT !.killed = attempt'[i].killed], attempt'[i])
             /\ attempt'[i].owner = attempt[i].owner /\ attempt'[i].stage = attempt[i].stage
        /\ proc' \in [Processes -> Process] /\ \A q \in Processes \ {p} : proc'[q] = proc[q]
        /\ proc'[p].up = proc[p].up /\ proc'[p].pc = proc[p].pc
        /\ proc'[p].running = proc[p].running
    BY <1>1, <1>11, StopShape
  <2>2. \A i \in Attempts : attempt[i] \in Attempt
    BY <1>1 DEF TypeOK
  <2>3. \A i \in Attempts : attempt'[i].job = attempt[i].job /\ attempt'[i].by = attempt[i].by
                            /\ attempt'[i].via = attempt[i].via
    BY <2>1, <2>2 DEF Same, Attempt
  <2> QED
    BY <1>1, <1>2, <2>1, <2>3 DEF TicksWhenUp
<1>12. ASSUME NEW p \in Processes, Exit(p) \/ Crash(p) PROVE Goal
  <2>1. Gone(p)
    BY <1>12 DEF Exit, Crash
  <2>2. /\ proc' = [proc EXCEPT ![p] = Down] /\ proc' \in [Processes -> Process]
        /\ attempt' \in [Attempts -> Attempt]
        /\ \A i \in Attempts :
              /\ attempt'[i].job = attempt[i].job /\ attempt'[i].by = attempt[i].by
              /\ attempt'[i].via = attempt[i].via
              /\ IF attempt[i].by = p /\ attempt[i].stage \notin {"none", "ended"}
                 THEN attempt'[i].stage = "dead"
                 ELSE attempt'[i].stage = attempt[i].stage /\ attempt'[i].owner = attempt[i].owner
    BY <1>1, <2>1, GoneShape
  <2>3. \A i \in Attempts : Continued(i)
    BY <1>1, <2>2 DEF Continued, GoesOn, ByTick, Active, TypeOK
  <2>4. Owned' /\ OneAtATime'
    BY <2>3, AllContinued
  <2> QED
    BY <1>1, <2>2, <2>4, ProcessTypes DEF TicksWhenUp, TypeOK
<1>13. ASSUME NEW p \in Processes, Start(p) PROVE Goal
  <2>1. /\ proc' = [proc EXCEPT ![p] = Started] /\ proc' \in [Processes -> Process] /\ ~proc[p].up
        /\ attempt' \in [Attempts -> Attempt]
        /\ \A i \in Attempts :
              /\ Same(attempt[i], attempt'[i]) /\ attempt'[i].stage = attempt[i].stage
              /\ attempt'[i].owner = attempt[i].owner
    BY <1>1, <1>13, StartShape
  <2>2. ASSUME NEW i \in Attempts PROVE Continued(i)
    <3>1. attempt[i].stage \in Active \cup {"fired"} => attempt[i].by \in Processes \ {p}
      BY <1>1, <2>1 DEF OwnedAttempt, Active
    <3> QED
      BY <1>1, <2>1, <3>1 DEF Continued, Same, GoesOn, ByTick, TypeOK
  <2>3. Owned' /\ OneAtATime'
    BY <2>2, AllContinued
  <2> QED
    BY <1>1, <2>1, <2>3, ProcessTypes DEF TicksWhenUp, TypeOK
<1>14. CASE UNCHANGED vars
  <2>1. UNCHANGED <<attempt, proc>>
    BY <1>14 DEF vars
  <2> QED
    BY <1>1, <1>2, <2>1 DEF TypeOK, TicksWhenUp
<1> QED
  BY <1>3, <1>4, <1>5, <1>6, <1>7, <1>8, <1>9, <1>10, <1>11, <1>12, <1>13, <1>14, StepKinds

(* The types, and who owns what: one-shots are counted before they run and *)
(* never past their limit, a run that goes on has a process that is up, and*)
(* a process runs a job it ticked once at a time.                          *)
THEOREM TypeCorrect == Spec => []TypeInv
<1>1. Init => TypeInv
  <2> SUFFICES ASSUME Init PROVE TypeInv
    OBVIOUS
  <2>1. \A r \in NewJobs : /\ r \in Job /\ r.completed = 0 /\ r.state = "scheduled"
    <3>1. ASSUME NEW kind \in {"once", "recurring"}, NEW n \in 0..MaxTimes
          PROVE  LET r == Created(kind, n) IN r \in Job /\ r.completed = 0 /\ r.state = "scheduled"
      BY SchedulerAssumption DEF Created, Job
    <3> QED
      BY <3>1, SchedulerAssumption DEF NewJobs
  <2>2. Unused \in Attempt /\ Unused.stage = "none" /\ Unused.job = NULL
    BY SchedulerAssumption DEF Unused, Attempt, Stages
  <2>3. \A j \in Jobs : job[j] \in NewJobs /\ granted[j] = 0
    BY DEF Init
  <2>4. Counts
    <3> SUFFICES ASSUME NEW j \in Jobs
                 PROVE  /\ job[j].completed <= job[j].times
                        /\ Once(j) /\ job[j].times > 0 => granted[j] <= job[j].completed
                        /\ job[j].state # "completed"
      BY DEF Counts
    <3>1. job[j].completed = 0 /\ job[j].state = "scheduled" /\ job[j].times \in Nat /\ granted[j] = 0
      BY <2>1, <2>3, SchedulerAssumption DEF Job
    <3> QED
      BY <3>1
  <2>5. TypeOK
    BY <2>1, <2>2, ProcessTypes, SchedulerAssumption DEF Init, TypeOK
  <2>6. Owned /\ OneAtATime
    BY <2>2 DEF Init, Owned, OwnedAttempt, ByTick, Active, OneAtATime, GoesOn
  <2>7. TicksWhenUp
    BY ProcessTypes DEF Init, TicksWhenUp
  <2> QED
    BY <2>4, <2>5, <2>6, <2>7 DEF TypeInv
<1>2. TypeInv /\ [Next]_vars => TypeInv'
  <2> SUFFICES ASSUME TypeInv, [Next]_vars
               PROVE  TypeInv'
    OBVIOUS
  <2>1. job' \in [Jobs -> Job] /\ granted' \in [Jobs -> Nat] /\ Counts'
    BY RecordStep, CountsStep
  <2> QED
    BY <2>1, OthersTyped, OwnedStep DEF TypeInv, TypeOK
<1> QED
  BY <1>1, <1>2, PTL DEF Spec

(* A one-shot is let through at most as often as it may run.               *)
THEOREM NeverTooOften == Spec => []AtMostTimes
<1>1. TypeInv => AtMostTimes
  <2> SUFFICES ASSUME TypeInv, NEW j \in Jobs, Once(j), job[j].times > 0
               PROVE  granted[j] <= job[j].times
    BY DEF AtMostTimes
  <2>1. granted[j] \in Nat /\ job[j].completed \in Nat /\ job[j].times \in Nat
    BY SchedulerAssumption DEF TypeInv, TypeOK, Job
  <2> QED
    BY <2>1 DEF TypeInv, Counts
<1> QED
  BY <1>1, TypeCorrect, PTL

(* Schedules stay armed: whatever writes to a record keeps "enabled", the  *)
(* state and the next time in step.                                        *)
AllArmed == \A j \in Jobs : ArmedRecord(job[j])

(* A job is either scheduled, with a time it will run at, or off.          *)
THEOREM AlwaysArmed == Spec => []Armed
<1>1. Init => AllArmed
  <2>1. \A r \in NewJobs : ArmedRecord(r)
    BY DEF NewJobs, Created, ArmedRecord
  <2> QED
    BY <2>1 DEF Init, AllArmed
<1>2. TypeInv /\ AllArmed /\ [Next]_vars => AllArmed'
  <2> SUFFICES ASSUME TypeInv, AllArmed, [Next]_vars, NEW j \in Jobs
               PROVE  ArmedRecord(job'[j])
    BY DEF AllArmed
  <2>1. job[j] \in Job /\ ArmedRecord(job[j])
    BY DEF TypeInv, TypeOK, AllArmed
  <2>2. CASE Noted(j) \/ Over(j)
    BY <2>1, <2>2 DEF Noted, Touched, Over, Marked
  <2>3. CASE Begun(j)
    <3>1. [job[j] EXCEPT !.completed = @ + 1].state = job[j].state
          /\ [job[j] EXCEPT !.completed = @ + 1].enabled = job[j].enabled
          /\ [job[j] EXCEPT !.completed = @ + 1].next = job[j].next
          /\ [job[j] EXCEPT !.completed = @ + 1].ran = job[j].ran
      BY <2>1 DEF Job
    <3> QED
      BY <2>1, <2>3, <3>1 DEF Begun, ArmedRecord
  <2>4. CASE Turned(j)
    BY <2>1, <2>4 DEF Turned, ArmedRecord, Job
  <2>5. CASE Claimed(j)
    BY <2>1, <2>5 DEF Claimed, ArmedRecord, Job
  <2> QED
    BY <2>2, <2>3, <2>4, <2>5, RecordStep DEF Written
<1>3. AllArmed => Armed
  BY DEF AllArmed, Armed, ArmedRecord
<1> QED
  BY <1>1, <1>2, <1>3, TypeCorrect, PTL DEF Spec

----------------------------------------------------------------------------
(* Ticks exclude each other, and one that is over has nothing left.        *)
OneTicks ==
  /\ \A p, q \in Processes : proc[p].pc # "idle" /\ proc[q].pc # "idle" => p = q
  /\ \A p \in Processes, j \in Jobs : proc[p].pc = "idle" => proc[p].due[j] = 0

(* A recurring job that is due again has a due time beyond those that were *)
(* read and those that were run; a due time that was read was not run.     *)
DueRead(p, j) ==
  ~Once(j) /\ proc[p].due[j] > 0 =>
    /\ proc[p].due[j] <= slot[j]
    /\ proc[p].pc = "advanced" /\ Kept(j) /\ job[j].next = "due" => proc[p].due[j] < slot[j]

DueRun(i) ==
  LET j == attempt[i].job
  IN  ByTick(i) /\ ~Once(j) =>
        /\ attempt[i].slot > 0 /\ attempt[i].slot <= slot[j]
        /\ Kept(j) /\ job[j].next = "due" => attempt[i].slot < slot[j]
        /\ \A p \in Processes : proc[p].due[j] # attempt[i].slot

DueTimes ==
  /\ \A j \in Jobs : job[j].next = "due" => slot[j] > 0
  /\ \A p \in Processes, j \in Jobs : DueRead(p, j)
  /\ \A i \in Attempts : DueRun(i)

(* Two attempts of ticks that run the same due time are one.               *)
SameDue(i, k) == attempt[i].job = attempt[k].job /\ attempt[i].slot = attempt[k].slot

FiredOnce ==
  \A i, k \in Attempts :
    ByTick(i) /\ ByTick(k) /\ ~Once(attempt[i].job) /\ SameDue(i, k) => i = k

TickInv == OneTicks /\ DueTimes /\ FiredOnce

(* A due time comes with a new number, and a record that is gone stays so. *)
NextStep(j) ==
  /\ slot'[j] = slot[j] \/ slot'[j] = slot[j] + 1
  /\ slot'[j] = slot[j] => (job'[j].next = "due" => job[j].next = "due")
  /\ Kept(j)' => Kept(j)

LEMMA FateStep ==
  ASSUME TypeInv, [Next]_vars, NEW j \in Jobs
  PROVE  Kept(j)' => Kept(j)
<1>1. ASSUME NEW k \in Jobs, Users(k) PROVE Kept(j)' => Kept(j)
  <2>1. fate' = fate \/ fate' = [fate EXCEPT ![k] = "user"]
    BY <1>1, UserShape DEF Adjusted, TypeInv
  <2> QED
    BY <2>1 DEF Kept, TypeInv, TypeOK
<1>2. ASSUME NEW i \in Attempts, Run(i) PROVE Kept(j)' => Kept(j)
  <2>1. fate' = fate \/ \E k : fate' = [fate EXCEPT ![k] = "claim"]
    BY <1>2 DEF Run, RecordFire, Begin, Reject, Work, Answer, Consume, Mark, Finish
  <2> QED
    BY <2>1 DEF Kept, TypeInv, TypeOK
<1>3. ASSUME NEW p \in Processes, Scan(p) PROVE Kept(j)' => Kept(j)
  BY <1>3 DEF Scan, Kept
<1>4. ASSUME NEW p \in Processes,
             \/ Advance(p) \/ Stop(p) \/ Exit(p) \/ Crash(p) \/ Start(p)
             \/ \E k \in Jobs : Dispatch(p, k) \/ Skip(p, k) \/ Fire(p, k) \/ MarkInterrupted(p, k)
      PROVE  fate' = fate
  BY <1>4 DEF Advance, Stop, Exit, Crash, Gone, Start, Dispatch, Skip, Fire, MarkInterrupted
<1> QED
  BY <1>1, <1>2, <1>3, <1>4, StepKinds DEF vars, Kept

LEMMA NextSteps ==
  ASSUME TypeInv, [Next]_vars, NEW j \in Jobs
  PROVE  NextStep(j)
<1> DEFINE Goal == /\ slot'[j] = slot[j] \/ slot'[j] = slot[j] + 1
                   /\ slot'[j] = slot[j] => (job'[j].next = "due" => job[j].next = "due")
<1>1. TypeOK /\ Counts /\ job[j] \in Job /\ \A k \in Jobs : slot[k] \in Nat
  BY SchedulerAssumption DEF TypeInv, TypeOK
<1>2. ASSUME NEW k \in Jobs, Users(k) PROVE Goal
  <2>1. Adjusted(k)
    BY <1>1, <1>2, UserShape
  <2> QED
    BY <1>1, <2>1 DEF Adjusted
<1>3. ASSUME NEW p \in Processes, Scan(p) PROVE Goal
  <2>1. slot' = slot
    BY <1>1, <1>3, ScanShape DEF Ticked
  <2> QED
    BY <1>1, <1>3, <2>1, ScannedWrites
<1>4. ASSUME NEW p \in Processes, Advance(p) PROVE Goal
  BY <1>1, <1>4, AdvanceShape
<1>5. ASSUME NEW p \in Processes, NEW k \in Jobs, Fire(p, k) PROVE Goal
  BY <1>1, <1>5, FireShape
<1>6. ASSUME NEW p \in Processes, NEW k \in Jobs, MarkInterrupted(p, k) PROVE Goal
  <2>1. MarkRun(k) /\ slot' = slot
    BY <1>1, <1>6, InterruptShape
  <2> QED
    BY <1>1, <2>1, MarkRunWrites DEF Marked
<1>7. ASSUME NEW i \in Attempts, Run(i) PROVE Goal
  <2>1. RunWrites(i) /\ slot' = slot
    BY <1>1, <1>7, RunRecord, RunShape DEF Stepped
  <2>2. Limited(job[j])
    BY <1>1 DEF Limited, Counts, Once, Job
  <2>3. Marked(job[j], MarkedRun(job[j]))
    BY <1>1, <2>2, MarkWrites
  <2>4. /\ [job[j] EXCEPT !.completed = @ + 1].next = job[j].next
        /\ [job[j] EXCEPT !.enabled = FALSE, !.state = "completed", !.next = "none"].next = "none"
        /\ MarkedRun(job[j]).next # "due"
    BY <1>1, <2>3 DEF Job, Marked
  <2>5. job'[j] = job[j] \/ job'[j].next # "due" \/ job'[j].next = job[j].next
    BY <2>1, <2>4 DEF RunWrites
  <2> QED
    BY <2>1, <2>5
<1>8. ASSUME NEW p \in Processes,
             Stop(p) \/ Exit(p) \/ Crash(p) \/ Start(p) \/ \E k \in Jobs : Dispatch(p, k) \/ Skip(p, k)
      PROVE  Goal
  BY <1>8 DEF Stop, Exit, Crash, Gone, Start, Dispatch, Skip
<1>9. ASSUME UNCHANGED vars PROVE Goal
  BY <1>9 DEF vars
<1>10. Goal
  BY <1>2, <1>3, <1>4, <1>5, <1>6, <1>7, <1>8, <1>9, StepKinds
<1> QED
  BY <1>10, FateStep DEF NextStep

(* Steps that read no due time and record no attempt of a tick.            *)
Quiet(q) ==
  \/ proc'[q].pc = "idle" /\ \A j \in Jobs : proc'[q].due[j] = 0
  \/ proc'[q].pc = proc[q].pc /\ \A j \in Jobs : proc'[q].due[j] \in {0, proc[q].due[j]}

Identical(i) ==
  /\ attempt'[i].job = attempt[i].job /\ attempt'[i].via = attempt[i].via
  /\ attempt'[i].slot = attempt[i].slot
  /\ ByTick(i)' => ByTick(i)

LEMMA DueRunStays ==
  ASSUME TypeInv, [Next]_vars, DueTimes, NEW i \in Attempts, Identical(i),
         \A q \in Processes, j \in Jobs :
           proc'[q].due[j] \in {0, proc[q].due[j]} \/ (Kept(j) /\ job[j].next = "due" /\ proc'[q].due[j] = slot[j])
  PROVE  DueRun(i)'
<1> SUFFICES ASSUME NEW j \in Jobs, j = attempt[i].job, ByTick(i), ByTick(i)', job'[j].kind # "once"
             PROVE  /\ attempt[i].slot > 0 /\ attempt[i].slot <= slot'[j]
                    /\ fate'[j] = "kept" /\ job'[j].next = "due" => attempt[i].slot < slot'[j]
                    /\ \A p \in Processes : proc'[p].due[j] # attempt[i].slot
  <2>1. ByTick(i)' => ByTick(i) /\ attempt[i].job \in Jobs
    BY DEF Identical, ByTick, TypeInv, Owned, OwnedAttempt
  <2> QED
    BY <2>1 DEF Identical, DueRun, Once, Kept
<1>1. /\ NextStep(j) /\ Once(j)' = Once(j)
  BY KindKept, NextSteps
<1>2. ~Once(j) /\ (Kept(j)' = (fate'[j] = "kept"))
  BY <1>1 DEF Once, Kept
<1>3. /\ attempt[i].slot > 0 /\ attempt[i].slot <= slot[j]
      /\ Kept(j) /\ job[j].next = "due" => attempt[i].slot < slot[j]
      /\ \A p \in Processes : proc[p].due[j] # attempt[i].slot
  BY <1>2 DEF DueTimes, DueRun
<1>4. attempt[i].slot \in Nat /\ slot[j] \in Nat
  <2>1. attempt[i] \in Attempt /\ slot[j] \in 0..MaxSlots
    <3>1. j \in Jobs
      BY DEF ByTick, TypeInv, Owned, OwnedAttempt
    <3> QED
      BY <3>1 DEF TypeInv, TypeOK
  <2> QED
    BY <2>1, SchedulerAssumption DEF Attempt
<1>5. attempt[i].slot <= slot'[j]
  <2>1. slot'[j] = slot[j] \/ slot'[j] = slot[j] + 1
    BY <1>1, Zenon DEF NextStep
  <2> QED
    BY <1>3, <1>4, <2>1
<1>6. ASSUME fate'[j] = "kept", job'[j].next = "due" PROVE attempt[i].slot < slot'[j]
  <2>1. slot'[j] = slot[j] + 1 \/ (slot'[j] = slot[j] /\ job[j].next = "due")
    BY <1>1, <1>6, Zenon DEF NextStep
  <2>2. Kept(j)
    BY <1>1, <1>2, <1>6, Zenon DEF NextStep
  <2> QED
    BY <1>3, <1>4, <2>1, <2>2
<1>7. \A p \in Processes : proc'[p].due[j] # attempt[i].slot
  BY <1>3, <1>4
<1> QED
  BY <1>3, <1>5, <1>6, <1>7

(* What each part of TickInv needs to stay true.                           *)
LEMMA SlotsStay ==
  ASSUME TypeInv, [Next]_vars, DueTimes, NEW j \in Jobs
  PROVE  job'[j].next = "due" => slot'[j] > 0
<1>1. NextStep(j) /\ (job[j].next = "due" => slot[j] > 0) /\ slot[j] \in Nat
  BY NextSteps, SchedulerAssumption DEF DueTimes, TypeInv, TypeOK
<1> QED
  BY <1>1 DEF NextStep

LEMMA DueReadStays ==
  ASSUME TypeInv, [Next]_vars, DueTimes, NEW q \in Processes, NEW j \in Jobs,
         proc'[q].due[j] = 0 \/ (proc'[q].due[j] = proc[q].due[j] /\ proc'[q].pc = proc[q].pc)
  PROVE  DueRead(q, j)'
<1>1. NextStep(j) /\ (Once(j)' = Once(j)) /\ DueRead(q, j)
  BY KindKept, NextSteps DEF DueTimes
<1>2. proc[q].due[j] \in Nat /\ slot[j] \in Nat
  BY SchedulerAssumption DEF TypeInv, TypeOK, Process
<1>3. CASE proc'[q].due[j] = 0
  BY <1>3 DEF DueRead
<1>4. CASE proc'[q].due[j] = proc[q].due[j] /\ proc'[q].pc = proc[q].pc
  BY <1>1, <1>2, <1>4 DEF DueRead, NextStep
<1> QED
  BY <1>3, <1>4

LEMMA FiredOnceStays ==
  ASSUME TypeInv, [Next]_vars, FiredOnce, NEW i \in Attempts, NEW k \in Attempts,
         Identical(i), Identical(k), ByTick(i)', ByTick(k)', SameDue(i, k)',
         ~(Once(attempt[i].job)')
  PROVE  i = k
<1>1. /\ ByTick(i) /\ ByTick(k) /\ SameDue(i, k) /\ attempt'[i].job = attempt[i].job
      /\ attempt[i].job \in Jobs
  BY DEF Identical, SameDue, ByTick, TypeInv, Owned, OwnedAttempt
<1>2. ~Once(attempt[i].job)
  <2>1. PICK j \in Jobs : j = attempt[i].job
    BY <1>1
  <2>2. job'[j].kind # "once"
    BY <1>1, <2>1 DEF Once
  <2>3. Once(j)' = Once(j)
    BY KindKept
  <2> QED
    BY <2>1, <2>2, <2>3 DEF Once
<1> QED
  BY <1>1, <1>2 DEF FiredOnce

LEMMA QuietProcesses ==
  ASSUME TypeInv, [Next]_vars, TickInv, \A q \in Processes : Quiet(q)
  PROVE  /\ OneTicks' /\ \A q \in Processes, j \in Jobs : DueRead(q, j)'
         /\ \A j \in Jobs : job'[j].next = "due" => slot'[j] > 0
         /\ \A q \in Processes, j \in Jobs : proc'[q].due[j] \in {0, proc[q].due[j]}
<1>1. \A q \in Processes, j \in Jobs : proc'[q].due[j] \in {0, proc[q].due[j]}
  BY DEF Quiet
<1>2. OneTicks'
  <2>1. \A q \in Processes : proc'[q].pc # "idle" => proc[q].pc # "idle"
    BY DEF Quiet
  <2>2. \A q \in Processes, j \in Jobs : proc'[q].pc = "idle" => proc'[q].due[j] = 0
    BY DEF Quiet, TickInv, OneTicks
  <2> QED
    BY <2>1, <2>2 DEF TickInv, OneTicks
<1>3. ASSUME NEW q \in Processes, NEW j \in Jobs PROVE DueRead(q, j)'
  <2>1. proc'[q].due[j] = 0 \/ (proc'[q].due[j] = proc[q].due[j] /\ proc'[q].pc = proc[q].pc)
    BY DEF Quiet
  <2> QED
    BY <2>1, DueReadStays DEF TickInv
<1>4. ASSUME NEW j \in Jobs PROVE job'[j].next = "due" => slot'[j] > 0
  BY SlotsStay DEF TickInv
<1> QED
  BY <1>1, <1>2, <1>3, <1>4

LEMMA QuietSteps ==
  ASSUME TypeInv, [Next]_vars, TickInv, \A q \in Processes : Quiet(q),
         \A i \in Attempts : Identical(i) \/ ~ByTick(i)'
  PROVE  TickInv'
<1>1. ASSUME NEW i \in Attempts PROVE DueRun(i)'
  <2>1. CASE ~ByTick(i)'
    BY <2>1 DEF DueRun
  <2>2. CASE Identical(i)
    BY <2>2, QuietProcesses, DueRunStays DEF TickInv
  <2> QED
    BY <2>1, <2>2
<1>2. FiredOnce'
  <2> SUFFICES ASSUME NEW i \in Attempts, NEW k \in Attempts, ByTick(i)', ByTick(k)', SameDue(i, k)',
                      ~(Once(attempt[i].job)')
               PROVE  i = k
    BY DEF FiredOnce
  <2> QED
    BY FiredOnceStays DEF TickInv
<1> QED
  BY <1>1, <1>2, QuietProcesses DEF TickInv, DueTimes

(* The three steps of a tick.                                              *)
LEMMA ScanReads ==
  ASSUME TypeInv, TickInv, [Next]_vars, NEW p \in Processes, Scan(p)
  PROVE  TickInv'
<1>1. /\ ~Ticking /\ attempt' = attempt /\ slot' = slot /\ proc'[p].pc \in {"idle", "scanned"}
      /\ proc'[p].pc = "idle" => proc' = proc
      /\ proc'[p].pc = "scanned" => proc'[p].due = [j \in Jobs |-> IF Due(j) THEN slot[j] ELSE 0]
      /\ \A q \in Processes \ {p} : proc'[q] = proc[q]
  BY ScanShape DEF Ticked, TypeInv
<1>2. \A q \in Processes : proc[q].pc = "idle" /\ \A j \in Jobs : proc[q].due[j] = 0
  BY <1>1 DEF Ticking, TickInv, OneTicks
<1>3. \A i \in Attempts : Identical(i)
  BY <1>1 DEF Identical, ByTick
<1>4. CASE proc'[p].pc = "idle"
  <2>1. \A q \in Processes : Quiet(q)
    BY <1>1, <1>2, <1>4 DEF Quiet
  <2> QED
    BY <1>3, <2>1, QuietSteps
<1>5. CASE proc'[p].pc = "scanned"
  <2>1. ASSUME NEW j \in Jobs
        PROVE  proc'[p].due[j] = 0 \/ (Kept(j) /\ job[j].next = "due" /\ proc'[p].due[j] = slot[j])
    BY <1>1, <1>5 DEF Due, Ready
  <2>2. \A q \in Processes \ {p} : proc'[q].pc = "idle" /\ \A j \in Jobs : proc'[q].due[j] = 0
    BY <1>1, <1>2
  <2>3. ASSUME NEW i \in Attempts PROVE DueRun(i)'
    <3>1. \A q \in Processes, j \in Jobs :
             proc'[q].due[j] \in {0, proc[q].due[j]}
             \/ (Kept(j) /\ job[j].next = "due" /\ proc'[q].due[j] = slot[j])
      BY <2>1, <2>2
    <3> QED
      BY <1>3, <3>1, DueRunStays DEF TickInv
  <2>4. ASSUME NEW q \in Processes, NEW j \in Jobs PROVE DueRead(q, j)'
    <3>1. CASE q = p
      <4>1. proc'[q].due[j] = 0 \/ proc'[q].due[j] = slot'[j]
        BY <1>1, <2>1, <3>1
      <4>2. slot'[j] \in Nat
        BY <1>1, SchedulerAssumption DEF TypeInv, TypeOK
      <4> QED
        BY <1>5, <3>1, <4>1, <4>2 DEF DueRead
    <3>2. CASE q # p
      BY <2>2, <3>2 DEF DueRead
    <3> QED
      BY <3>1, <3>2
  <2>5. FiredOnce'
    <3> SUFFICES ASSUME NEW i \in Attempts, NEW k \in Attempts, ByTick(i)', ByTick(k)', SameDue(i, k)',
                        ~(Once(attempt[i].job)')
                 PROVE  i = k
      BY DEF FiredOnce
    <3> QED
      BY <1>3, FiredOnceStays DEF TickInv
  <2>6. OneTicks'
    BY <1>5, <2>2 DEF OneTicks
  <2> QED
    BY <2>3, <2>4, <2>5, <2>6, SlotsStay DEF TickInv, DueTimes
<1> QED
  BY <1>1, <1>4, <1>5

LEMMA AdvanceMoves ==
  ASSUME TypeInv, TickInv, [Next]_vars, NEW p \in Processes, Advance(p)
  PROVE  TickInv'
<1>1. /\ \A q \in Processes \ {p} : proc'[q] = proc[q]
      /\ proc[p].pc = "scanned" /\ proc'[p].pc = "advanced" /\ proc'[p].due = proc[p].due
      /\ \A j \in Jobs : \/ ~(proc[p].due[j] > 0 /\ Kept(j) /\ ~Once(j))
                         \/ job'[j].next = "later"
      /\ UNCHANGED <<fate, slot, attempt>>
  BY AdvanceShape DEF TypeInv
<1>2. \A i \in Attempts : Identical(i)
  BY <1>1 DEF Identical, ByTick
<1>3. \A q \in Processes, j \in Jobs : proc'[q].due[j] = proc[q].due[j]
  BY <1>1
<1>4. ASSUME NEW i \in Attempts PROVE DueRun(i)'
  BY <1>2, <1>3, DueRunStays DEF TickInv
<1>5. ASSUME NEW q \in Processes, NEW j \in Jobs PROVE DueRead(q, j)'
  <2>1. CASE q # p
    BY <1>1, <2>1, DueReadStays DEF TickInv
  <2>2. CASE q = p
    <3>1. DueRead(p, j) /\ (Once(j)' = Once(j)) /\ (Kept(j)' = Kept(j)) /\ slot' = slot
      BY <1>1, KindKept DEF TickInv, DueTimes, Kept
    <3> QED
      BY <1>1, <2>2, <3>1 DEF DueRead
  <2> QED
    BY <2>1, <2>2
<1>6. FiredOnce'
  <2> SUFFICES ASSUME NEW i \in Attempts, NEW k \in Attempts, ByTick(i)', ByTick(k)', SameDue(i, k)',
                      ~(Once(attempt[i].job)')
               PROVE  i = k
    BY DEF FiredOnce
  <2> QED
    BY <1>2, FiredOnceStays DEF TickInv
<1>7. OneTicks'
  BY <1>1 DEF OneTicks, TickInv
<1> QED
  BY <1>4, <1>5, <1>6, <1>7, SlotsStay DEF TickInv, DueTimes

LEMMA DispatchRuns ==
  ASSUME TypeInv, TickInv, [Next]_vars, NEW p \in Processes, NEW j \in Jobs, Dispatch(p, j)
  PROVE  TickInv'
<1>1. PICK i \in Attempts, a \in Attempt :
         /\ New(i, a) /\ a.job = j /\ a.by = p /\ a.via = "tick" /\ a.slot = proc[p].due[j]
         /\ a.stage = "queued"
  BY DispatchShape DEF TypeInv
<1>2. /\ proc[p].running \cup {j} \in SUBSET Jobs /\ Handled(p, j, proc[p].running \cup {j})
      /\ proc[p].pc = "advanced" /\ proc[p].due[j] > 0 /\ UNCHANGED <<job, fate, slot>>
  BY DEF Dispatch, Pending, TypeInv, TypeOK, Process
<1>3. /\ \A q \in Processes \ {p} : proc'[q] = proc[q]
      /\ proc'[p].due = [proc[p].due EXCEPT ![j] = 0]
      /\ \/ proc'[p].pc = proc[p].pc
         \/ proc'[p].pc = "idle" /\ \A k \in Jobs : proc'[p].due[k] = 0
  BY <1>2, HandledShape DEF TypeInv
<1>4. proc[p].due \in [Jobs -> 0..MaxSlots]
  BY DEF TypeInv, TypeOK, Process
<1>5. \A k \in Jobs : proc'[p].due[k] \in {0, proc[p].due[k]} /\ proc'[p].due[j] = 0
  BY <1>3, <1>4
<1>6. \A q \in Processes : Quiet(q)
  BY <1>3, <1>5 DEF Quiet
<1>7. /\ attempt'[i] = a /\ \A k \in Attempts \ {i} : attempt'[k] = attempt[k]
  BY <1>1 DEF New, TypeInv, TypeOK
<1>8. \A k \in Attempts \ {i} : Identical(k)
  BY <1>7 DEF Identical, ByTick
<1>9. ASSUME NEW k \in Attempts \ {i} PROVE DueRun(k)'
  BY <1>6, <1>8, QuietProcesses, DueRunStays DEF TickInv
<1>10. DueRun(i)'
  <2>1. DueRead(p, j) /\ proc[p].due[j] \in Nat
    BY <1>4, SchedulerAssumption DEF TickInv, DueTimes
  <2>2. \A q \in Processes : proc'[q].due[j] = 0
    <3>1. \A q \in Processes \ {p} : proc[q].due[j] = 0
      BY <1>2 DEF TickInv, OneTicks
    <3> QED
      BY <1>3, <1>5, <3>1
  <2>3. Once(j) \/ (/\ a.slot > 0 /\ a.slot <= slot[j]
                    /\ Kept(j) /\ job[j].next = "due" => a.slot < slot[j])
    BY <1>1, <1>2, <2>1 DEF DueRead
  <2>4. \A q \in Processes : proc'[q].due[j] # a.slot
    BY <1>1, <1>2, <2>2
  <2>5. (Once(j)' = Once(j)) /\ (Kept(j)' = Kept(j)) /\ slot' = slot /\ job' = job
    BY <1>2 DEF Once, Kept
  <2> QED
    BY <1>1, <1>7, <2>3, <2>4, <2>5 DEF DueRun, Once, Kept
<1>11. FiredOnce'
  <2> SUFFICES ASSUME NEW k \in Attempts, NEW m \in Attempts, ByTick(k)', ByTick(m)', SameDue(k, m)',
                      ~(Once(attempt[k].job)')
               PROVE  k = m
    BY DEF FiredOnce
  <2>1. ASSUME NEW n \in Attempts \ {i}, ByTick(n)', ~(Once(attempt[n].job)')
        PROVE  ~SameDue(n, i)' /\ ~SameDue(i, n)'
    <3>1. ByTick(n) /\ ~Once(attempt[n].job) /\ attempt'[n] = attempt[n]
      BY <1>2, <1>7, <2>1 DEF ByTick, Once
    <3>2. attempt[n].job = j => proc[p].due[j] # attempt[n].slot
      BY <3>1 DEF TickInv, DueTimes, DueRun
    <3> QED
      BY <1>1, <1>7, <3>1, <3>2 DEF SameDue
  <2>2. CASE k = i /\ m # i
    <3>1. attempt'[m].job = attempt'[k].job
      BY DEF SameDue
    <3>2. ~(Once(attempt[m].job)')
      BY <3>1 DEF Once
    <3> QED
      BY <2>1, <2>2, <3>2
  <2>3. CASE k # i /\ m = i
    BY <2>1, <2>3
  <2>4. CASE k # i /\ m # i
    BY <1>8, <2>4, FiredOnceStays DEF TickInv
  <2> QED
    BY <2>2, <2>3, <2>4
<1> QED
  BY <1>6, <1>9, <1>10, <1>11, QuietProcesses DEF TickInv, DueTimes

LEMMA TickStep ==
  ASSUME TypeInv, TickInv, [Next]_vars
  PROVE  TickInv'
<1>1. TypeOK /\ \A i \in Attempts : attempt[i] \in Attempt
  BY DEF TypeInv, TypeOK
<1>2. ASSUME UNCHANGED <<proc, attempt>> PROVE TickInv'
  BY <1>2, QuietSteps DEF Quiet, Identical, ByTick
<1>3. ASSUME NEW j \in Jobs, Users(j) PROVE TickInv'
  BY <1>1, <1>2, <1>3, UserShape DEF Adjusted
<1>4. ASSUME NEW p \in Processes, Scan(p) PROVE TickInv'
  BY <1>4, ScanReads
<1>5. ASSUME NEW p \in Processes, Advance(p) PROVE TickInv'
  BY <1>5, AdvanceMoves
<1>6. ASSUME NEW p \in Processes, NEW j \in Jobs, Dispatch(p, j) PROVE TickInv'
  BY <1>6, DispatchRuns
<1>7. ASSUME NEW p \in Processes, NEW j \in Jobs, Skip(p, j) PROVE TickInv'
  <2>1. Handled(p, j, proc[p].running) /\ attempt' = attempt /\ proc[p].running \in SUBSET Jobs
    BY <1>1, <1>7 DEF Skip, TypeOK, Process
  <2>2. /\ \A q \in Processes \ {p} : proc'[q] = proc[q]
        /\ proc'[p].due = [proc[p].due EXCEPT ![j] = 0]
        /\ \/ proc'[p].pc = proc[p].pc
           \/ proc'[p].pc = "idle" /\ \A k \in Jobs : proc'[p].due[k] = 0
    BY <1>1, <2>1, HandledShape
  <2>3. proc[p].due \in [Jobs -> 0..MaxSlots]
    BY <1>1 DEF TypeOK, Process
  <2>4. \A q \in Processes : Quiet(q)
    BY <2>2, <2>3 DEF Quiet
  <2> QED
    BY <2>1, <2>4, QuietSteps DEF Identical, ByTick
<1>8. ASSUME NEW p \in Processes, NEW j \in Jobs, Fire(p, j) PROVE TickInv'
  <2>1. PICK i \in Attempts, a \in Attempt : New(i, a) /\ a.via = "direct"
    BY <1>1, <1>8, FireShape
  <2>2. attempt'[i] = a /\ \A k \in Attempts \ {i} : attempt'[k] = attempt[k]
    BY <1>1, <2>1 DEF New, TypeOK
  <2>3. proc' = proc
    BY <1>8 DEF Fire
  <2> QED
    BY <2>1, <2>2, <2>3, QuietSteps DEF Quiet, Identical, ByTick
<1>9. ASSUME NEW p \in Processes, NEW j \in Jobs, MarkInterrupted(p, j) PROVE TickInv'
  <2>1. /\ \A q \in Processes \ {p} : proc'[q] = proc[q]
        /\ proc'[p].pc = proc[p].pc /\ proc'[p].due = proc[p].due /\ attempt' = attempt
    BY <1>1, <1>9, InterruptShape
  <2> QED
    BY <2>1, QuietSteps DEF Quiet, Identical, ByTick
<1>10. ASSUME NEW i \in Attempts, Run(i) PROVE TickInv'
  <2>1. Stepped(i)
    BY <1>1, <1>10, RunShape
  <2>2. \A q \in Processes : Quiet(q)
    BY <2>1 DEF Stepped, Quiet
  <2>3. attempt[i].stage # "none"
    BY <2>1 DEF Stepped, Active
  <2>4. \A k \in Attempts : Identical(k)
    BY <2>1, <2>3 DEF Stepped, Same, Identical, ByTick
  <2> QED
    BY <2>2, <2>4, QuietSteps
<1>11. ASSUME NEW p \in Processes, Stop(p) PROVE TickInv'
  <2>1. /\ \A i \in Attempts :
             /\ Same([attempt[i] EXCEPT !.killed = attempt'[i].killed], attempt'[i])
             /\ attempt'[i].stage = attempt[i].stage
        /\ \A q \in Processes \ {p} : proc'[q] = proc[q]
        /\ proc'[p].pc = proc[p].pc /\ proc'[p].due = proc[p].due
    BY <1>1, <1>11, StopShape
  <2>2. \A i \in Attempts : Identical(i)
    BY <1>1, <2>1 DEF Same, Attempt, Identical, ByTick
  <2> QED
    BY <2>1, <2>2, QuietSteps DEF Quiet
<1>12. ASSUME NEW p \in Processes, Exit(p) \/ Crash(p) PROVE TickInv'
  <2>1. Gone(p)
    BY <1>12 DEF Exit, Crash
  <2>2. /\ proc' = [proc EXCEPT ![p] = Down]
        /\ \A i \in Attempts :
              /\ attempt'[i].job = attempt[i].job /\ attempt'[i].via = attempt[i].via
              /\ attempt'[i].slot = attempt[i].slot
              /\ attempt[i].stage = "none" => attempt'[i].stage = "none"
    BY <1>1, <2>1, GoneShape
  <2>3. \A q \in Processes : Quiet(q)
    BY <1>1, <2>2, ProcessTypes DEF Quiet, TypeOK
  <2> QED
    BY <2>2, <2>3, QuietSteps DEF Identical, ByTick
<1>13. ASSUME NEW p \in Processes, Start(p) PROVE TickInv'
  <2>1. /\ proc' = [proc EXCEPT ![p] = Started]
        /\ \A i \in Attempts : Same(attempt[i], attempt'[i]) /\ attempt'[i].stage = attempt[i].stage
    BY <1>1, <1>13, StartShape
  <2>2. \A q \in Processes : Quiet(q)
    BY <1>1, <2>1, ProcessTypes DEF Quiet, TypeOK
  <2> QED
    BY <2>1, <2>2, QuietSteps DEF Identical, ByTick, Same
<1> QED
  BY <1>2, <1>3, <1>4, <1>5, <1>6, <1>7, <1>8, <1>9, <1>10, <1>11, <1>12, <1>13, StepKinds DEF vars

LEMMA TicksBegin ==
  ASSUME Init
  PROVE  TickInv
<1>1. OneTicks
  BY ProcessTypes DEF Init, OneTicks
<1>2. \A i \in Attempts : ~ByTick(i)
  <2>1. Unused.stage = "none"
    BY DEF Unused
  <2> QED
    BY <2>1 DEF Init, ByTick
<1>3. \A j \in Jobs : job[j].next = "later"
  <2>1. \A r \in NewJobs : r.next = "later"
    BY DEF NewJobs, Created
  <2> QED
    BY <2>1 DEF Init
<1>4. \A p \in Processes, j \in Jobs : proc[p].due[j] = 0
  BY ProcessTypes DEF Init
<1> QED
  BY <1>1, <1>2, <1>3, <1>4 DEF TickInv, DueTimes, DueRead, DueRun, FiredOnce

(* Ticks run a recurring job once for each time it falls due, whatever     *)
(* other processes, users and crashes do in between.                       *)
THEOREM RunOncePerDueTime == Spec => []OccurrenceFiredOnce
<1>1. Init => TickInv
  BY TicksBegin
<1>2. TypeInv /\ TickInv => OccurrenceFiredOnce
  <2> SUFFICES ASSUME TypeInv, TickInv PROVE OccurrenceFiredOnce
    OBVIOUS
  <2>1. \A i \in Attempts : attempt[i].via = "tick" /\ attempt[i].job # NULL => ByTick(i)
    BY DEF ByTick, TypeInv, Owned, OwnedAttempt
  <2> QED
    BY <2>1 DEF TickInv, FiredOnce, SameDue, OccurrenceFiredOnce
<1> QED
  BY <1>1, <1>2, TickStep, TypeCorrect, PTL DEF Spec

----------------------------------------------------------------------------
(* A one-shot a tick has claimed: its claim is the tick's, and fresh, as   *)
(* long as the run is pending or goes on, unless it lapsed in a queue or a *)
(* run of the job was marked.                                              *)
Holding(i) == ByTick(i) /\ attempt[i].stage \in {"queued", "begun"} \cup Working

Minded(j) == Kept(j) /\ Once(j) /\ j \notin overslept /\ ~job[j].ran

HeldBy(j, p) == job[j].runClaim = p /\ job[j].runFresh

ClaimOf(j) ==
  Minded(j) => /\ \A p \in Processes : proc[p].due[j] > 0 => HeldBy(j, p)
               /\ \A i \in Attempts : Holding(i) /\ attempt[i].job = j => HeldBy(j, attempt[i].by)

Claims == \A j \in Jobs : ClaimOf(j)

LEMMA RanStays ==
  ASSUME TypeInv, [Next]_vars, NEW j \in Jobs
  PROVE  job[j].ran => job'[j].ran
<1>1. job[j] \in Job /\ Written
  BY RecordStep DEF TypeInv, TypeOK
<1> QED
  BY <1>1 DEF Written, Noted, Begun, Turned, Over, Claimed, Touched, Marked, Job

LEMMA OversleptStays ==
  ASSUME TypeInv, [Next]_vars
  PROVE  overslept \subseteq overslept'
<1>1. TypeOK
  BY DEF TypeInv
<1>2. ASSUME NEW j \in Jobs, Users(j) PROVE overslept \subseteq overslept'
  BY <1>1, <1>2, UserShape DEF Adjusted
<1>3. ASSUME NEW i \in Attempts, Run(i) PROVE overslept' = overslept
  BY <1>1, <1>3, RunShape DEF Stepped
<1>4. ASSUME NEW p \in Processes,
             \/ Scan(p) \/ Advance(p) \/ Stop(p) \/ Exit(p) \/ Crash(p) \/ Start(p)
             \/ \E j \in Jobs : Dispatch(p, j) \/ Skip(p, j) \/ Fire(p, j) \/ MarkInterrupted(p, j)
      PROVE  overslept' = overslept
  BY <1>4 DEF Scan, Advance, Stop, Exit, Crash, Gone, Start, Dispatch, Skip, Fire, MarkInterrupted
<1> QED
  BY <1>2, <1>3, <1>4, StepKinds DEF vars

LEMMA MindedBefore ==
  ASSUME TypeInv, [Next]_vars, NEW j \in Jobs, Minded(j)'
  PROVE  Minded(j)
<1>1. Kept(j)' /\ Once(j)' /\ j \notin overslept' /\ ~job'[j].ran
  BY DEF Minded
<1> QED
  BY <1>1, FateStep, KindKept, OversleptStays, RanStays DEF Minded

(* A step that leaves the claim and starts nothing.                        *)
HeldOn(i) ==
  Holding(i)' => Holding(i) /\ attempt'[i].job = attempt[i].job /\ attempt'[i].by = attempt[i].by

LEMMA ClaimStays ==
  ASSUME TypeInv, [Next]_vars, NEW j \in Jobs, ClaimOf(j),
         \A p \in Processes : proc'[p].due[j] \in {0, proc[p].due[j]},
         \A i \in Attempts : HeldOn(i),
         Minded(j) => job'[j].runClaim = job[j].runClaim,
         Minded(j) => (job[j].runFresh => job'[j].runFresh)
  PROVE  ClaimOf(j)'
<1> SUFFICES ASSUME Minded(j)'
             PROVE  /\ \A p \in Processes : proc'[p].due[j] > 0 => HeldBy(j, p)'
                    /\ \A i \in Attempts : Holding(i)' /\ attempt'[i].job = j
                                             => job'[j].runClaim = attempt'[i].by /\ job'[j].runFresh
  BY DEF ClaimOf, HeldBy
<1>1. Minded(j)
  BY MindedBefore
<1>2. ASSUME NEW p \in Processes, proc'[p].due[j] > 0 PROVE HeldBy(j, p)'
  BY <1>1, <1>2 DEF ClaimOf, HeldBy
<1>3. ASSUME NEW i \in Attempts, Holding(i)', attempt'[i].job = j
      PROVE  job'[j].runClaim = attempt'[i].by /\ job'[j].runFresh
  BY <1>1, <1>3 DEF ClaimOf, HeldBy, HeldOn
<1> QED
  BY <1>2, <1>3

(* The run of a claim is refreshed, so a claim lapses in a queue only.     *)
LEMMA LapseOversleeps ==
  ASSUME TypeInv, Claims, [Next]_vars, NEW j \in Jobs, LapseRunClaim(j)
  PROVE  ClaimOf(j)'
<1>1. /\ ~Refreshed(j) /\ overslept' = (IF Waiting(j) THEN overslept \cup {j} ELSE overslept)
      /\ UNCHANGED <<proc, attempt>>
  BY DEF LapseRunClaim
<1>2. CASE Waiting(j)
  BY <1>1, <1>2 DEF ClaimOf, Minded
<1>3. CASE ~Waiting(j)
  <2> SUFFICES ASSUME Minded(j)'
               PROVE  /\ \A p \in Processes : ~(proc[p].due[j] > 0)
                      /\ \A i \in Attempts : ~(Holding(i) /\ attempt[i].job = j)
    BY <1>1 DEF ClaimOf, Holding, ByTick
  <2>1. Minded(j)
    BY MindedBefore
  <2>2. ASSUME NEW i \in Attempts, Holding(i), attempt[i].job = j PROVE FALSE
    <3>1. attempt[i].stage \in Working
      BY <1>3, <2>2 DEF Waiting, Holding
    <3>2. attempt[i].by = job[j].runClaim
      BY <2>1, <2>2 DEF Claims, ClaimOf, HeldBy
    <3>3. attempt[i].owner = attempt[i].by
      BY <2>1, <2>2, <3>1 DEF TypeInv, Owned, OwnedAttempt, Holding, Working, Active, Minded
    <3> QED
      BY <1>1, <2>2, <3>1, <3>2, <3>3 DEF Refreshed
  <2> QED
    BY <1>3, <2>2 DEF Waiting
<1> QED
  BY <1>2, <1>3

LEMMA ScanClaims ==
  ASSUME TypeInv, TickInv, Claims, [Next]_vars, NEW p \in Processes, Scan(p)
  PROVE  Claims'
<1>1. /\ ~Ticking /\ attempt' = attempt /\ proc'[p].pc \in {"idle", "scanned"}
      /\ proc'[p].pc = "idle" => proc' = proc
      /\ proc'[p].pc = "scanned" => proc'[p].due = [j \in Jobs |-> IF Due(j) THEN slot[j] ELSE 0]
      /\ \A q \in Processes \ {p} : proc'[q] = proc[q]
  BY ScanShape DEF Ticked, TypeInv
<1>2. \A q \in Processes, j \in Jobs : proc[q].due[j] = 0
  BY <1>1 DEF Ticking, TickInv, OneTicks
<1> SUFFICES ASSUME NEW j \in Jobs, Minded(j)' PROVE ClaimOf(j)'
  BY DEF Claims, ClaimOf
<1>3. Minded(j) /\ ClaimOf(j)
  BY MindedBefore DEF Claims
<1>4. IF Due(j) /\ Once(j) THEN HeldBy(j, p)'
      ELSE job'[j].runClaim = job[j].runClaim /\ job'[j].runFresh = job[j].runFresh
  BY ScannedWrites DEF HeldBy, TypeInv
<1>5. ASSUME NEW q \in Processes, proc'[q].due[j] > 0 PROVE HeldBy(j, q)'
  <2>1. q = p /\ proc'[p].pc = "scanned"
    BY <1>1, <1>2, <1>5
  <2>2. Due(j)
    BY <1>1, <1>5, <2>1
  <2> QED
    BY <1>3, <1>4, <2>1, <2>2 DEF Minded
<1>6. ASSUME NEW i \in Attempts, Holding(i)', attempt'[i].job = j
      PROVE  job'[j].runClaim = attempt'[i].by /\ job'[j].runFresh
  <2>1. Holding(i) /\ attempt[i].job = j /\ attempt'[i].by = attempt[i].by
    BY <1>1, <1>6 DEF Holding, ByTick
  <2>2. HeldBy(j, attempt[i].by) /\ attempt[i].by # NULL
    BY <1>3, <2>1, SchedulerAssumption DEF ClaimOf, Holding, ByTick, TypeInv, Owned, OwnedAttempt
  <2>3. ~Due(j)
    BY <1>3, <2>2 DEF Due, Ready, Held, HeldBy, Minded
  <2> QED
    BY <1>4, <2>1, <2>2, <2>3 DEF HeldBy
<1> QED
  BY <1>5, <1>6 DEF ClaimOf, HeldBy

LEMMA DispatchClaims ==
  ASSUME TypeInv, TickInv, Claims, [Next]_vars, NEW p \in Processes, NEW k \in Jobs, Dispatch(p, k)
  PROVE  Claims'
<1>1. PICK i \in Attempts, a \in Attempt :
         /\ New(i, a) /\ a.job = k /\ a.by = p /\ a.via = "tick"
  BY DispatchShape DEF TypeInv
<1>2. /\ proc[p].running \cup {k} \in SUBSET Jobs /\ Handled(p, k, proc[p].running \cup {k})
      /\ proc[p].due[k] > 0 /\ UNCHANGED job
  BY DEF Dispatch, Pending, TypeInv, TypeOK, Process
<1>3. /\ \A q \in Processes \ {p} : proc'[q] = proc[q]
      /\ proc'[p].due = [proc[p].due EXCEPT ![k] = 0]
  BY <1>2, HandledShape DEF TypeInv
<1>4. proc[p].due \in [Jobs -> 0..MaxSlots]
  BY DEF TypeInv, TypeOK, Process
<1>5. \A q \in Processes, j \in Jobs : proc'[q].due[j] \in {0, proc[q].due[j]}
  BY <1>3, <1>4
<1>6. /\ attempt'[i] = a /\ \A m \in Attempts \ {i} : attempt'[m] = attempt[m]
  BY <1>1 DEF New, TypeInv, TypeOK
<1> SUFFICES ASSUME NEW j \in Jobs, Minded(j)' PROVE ClaimOf(j)'
  BY DEF Claims, ClaimOf
<1>7. Minded(j) /\ ClaimOf(j)
  BY MindedBefore DEF Claims
<1>8. \A q \in Processes : HeldBy(j, q)' = HeldBy(j, q)
  BY <1>2 DEF HeldBy
<1>9. ASSUME NEW q \in Processes, proc'[q].due[j] > 0 PROVE HeldBy(j, q)'
  BY <1>5, <1>7, <1>8, <1>9 DEF ClaimOf
<1>10. ASSUME NEW m \in Attempts, Holding(m)', attempt'[m].job = j
      PROVE  job[j].runClaim = attempt'[m].by /\ job[j].runFresh
  <2>1. CASE m = i
    <3>1. HeldBy(j, p)
      BY <1>1, <1>2, <1>6, <1>7, <1>10, <2>1 DEF ClaimOf
    <3> QED
      BY <1>1, <1>6, <2>1, <3>1 DEF HeldBy
  <2>2. CASE m # i
    <3>1. Holding(m) /\ attempt'[m] = attempt[m]
      BY <1>6, <1>10, <2>2 DEF Holding, ByTick
    <3> QED
      BY <1>7, <1>10, <3>1 DEF ClaimOf, HeldBy
  <2> QED
    BY <2>1, <2>2
<1> QED
  BY <1>2, <1>9, <1>10 DEF ClaimOf, HeldBy

LEMMA ClaimsStep ==
  ASSUME TypeInv, TickInv, Claims, [Next]_vars
  PROVE  Claims'
<1>1. TypeOK /\ Counts /\ \A i \in Attempts : attempt[i] \in Attempt
  BY DEF TypeInv, TypeOK
<1>2. ASSUME attempt' = attempt PROVE \A i \in Attempts : HeldOn(i)
  BY <1>2 DEF HeldOn, Holding, ByTick
<1>3. ASSUME NEW k \in Jobs, Users(k) PROVE Claims'
  <2>1. CASE LapseRunClaim(k)
    <3>1. UNCHANGED <<proc, attempt>> /\ \A j \in Jobs \ {k} : job'[j] = job[j]
      BY <2>1 DEF LapseRunClaim
    <3>2. \A j \in Jobs \ {k} : ClaimOf(j)'
      BY <1>2, <3>1, ClaimStays DEF Claims
    <3> QED
      BY <2>1, <3>2, LapseOversleeps DEF Claims
  <2>2. CASE ~LapseRunClaim(k)
    <3>1. Adjusted(k)
      BY <1>1, <1>3, UserShape
    <3>2. UNCHANGED <<proc, attempt>>
      BY <3>1 DEF Adjusted
    <3>3. ASSUME NEW j \in Jobs
          PROVE  job'[j].runClaim = job[j].runClaim /\ (job[j].runFresh => job'[j].runFresh)
      <4>1. CASE j = k
        BY <2>2, <3>1, <4>1 DEF Adjusted, Touched
      <4>2. CASE j # k
        BY <3>1, <4>2 DEF Adjusted
      <4> QED
        BY <4>1, <4>2
    <3> QED
      BY <1>2, <3>2, <3>3, ClaimStays DEF Claims
  <2> QED
    BY <2>1, <2>2
<1>4. ASSUME NEW p \in Processes, Scan(p) PROVE Claims'
  BY <1>4, ScanClaims
<1>5. ASSUME NEW p \in Processes, Advance(p) PROVE Claims'
  <2>1. /\ \A q \in Processes \ {p} : proc'[q] = proc[q]
        /\ proc'[p].due = proc[p].due /\ attempt' = attempt
        /\ \A j \in Jobs : job'[j] = job[j] \/ ~Once(j)
    BY <1>1, <1>5, AdvanceShape
  <2>2. \A q \in Processes, j \in Jobs : proc'[q].due[j] = proc[q].due[j]
    BY <2>1
  <2> QED
    BY <1>2, <2>1, <2>2, ClaimStays DEF Claims, Minded
<1>6. ASSUME NEW p \in Processes, NEW j \in Jobs, Dispatch(p, j) PROVE Claims'
  BY <1>6, DispatchClaims
<1>7. ASSUME NEW p \in Processes, NEW j \in Jobs, Skip(p, j) PROVE Claims'
  <2>1. Handled(p, j, proc[p].running) /\ attempt' = attempt /\ job' = job
        /\ proc[p].running \in SUBSET Jobs
    BY <1>1, <1>7 DEF Skip, TypeOK, Process
  <2>2. /\ \A q \in Processes \ {p} : proc'[q] = proc[q]
        /\ proc'[p].due = [proc[p].due EXCEPT ![j] = 0]
    BY <1>1, <2>1, HandledShape
  <2>3. proc[p].due \in [Jobs -> 0..MaxSlots]
    BY <1>1 DEF TypeOK, Process
  <2>4. \A q \in Processes, k \in Jobs : proc'[q].due[k] \in {0, proc[q].due[k]}
    BY <2>2, <2>3
  <2> QED
    BY <1>2, <2>1, <2>4, ClaimStays DEF Claims
<1>8. ASSUME NEW p \in Processes, NEW k \in Jobs, Fire(p, k) PROVE Claims'
  <2>1. /\ \E i \in Attempts, a \in Attempt : New(i, a) /\ a.via = "direct"
        /\ \A j \in Jobs \ {k} : job'[j] = job[j]
        /\ Touched(job[k], job'[k]) /\ job'[k].runFresh = job[k].runFresh
        /\ UNCHANGED proc
    BY <1>1, <1>8, FireShape
  <2>2. PICK i \in Attempts, a \in Attempt : New(i, a) /\ a.via = "direct"
    BY <2>1
  <2>3. attempt'[i] = a /\ \A m \in Attempts \ {i} : attempt'[m] = attempt[m]
    BY <1>1, <2>2 DEF New, TypeOK
  <2>4. \A m \in Attempts : HeldOn(m)
    BY <2>2, <2>3 DEF HeldOn, Holding, ByTick
  <2>5. \A j \in Jobs : job'[j].runClaim = job[j].runClaim /\ (job[j].runFresh => job'[j].runFresh)
    BY <2>1 DEF Touched
  <2> QED
    BY <2>1, <2>4, <2>5, ClaimStays DEF Claims
<1>9. ASSUME NEW p \in Processes, NEW k \in Jobs, MarkInterrupted(p, k) PROVE Claims'
  <2>1. /\ \A q \in Processes \ {p} : proc'[q] = proc[q]
        /\ proc'[p].due = proc[p].due /\ attempt' = attempt /\ MarkRun(k)
    BY <1>1, <1>9, InterruptShape
  <2>2. \A q \in Processes, j \in Jobs : proc'[q].due[j] = proc[q].due[j]
    BY <2>1
  <2>3. ASSUME NEW j \in Jobs PROVE ClaimOf(j)'
    <3>1. job'[j] = job[j] \/ job'[j].ran
      BY <1>1, <2>1, MarkRunWrites DEF Marked
    <3>2. CASE job'[j].ran
      BY <3>2 DEF ClaimOf, Minded
    <3>3. CASE job'[j] = job[j]
      BY <1>2, <2>1, <2>2, <3>3, ClaimStays DEF Claims
    <3> QED
      BY <3>1, <3>2, <3>3
  <2> QED
    BY <2>3 DEF Claims
<1>10. ASSUME NEW i \in Attempts, Run(i) PROVE Claims'
  <2>1. Stepped(i) /\ RunWrites(i)
    BY <1>1, <1>10, RunShape, RunRecord
  <2>2. \A q \in Processes, j \in Jobs : proc'[q].due[j] = proc[q].due[j]
    BY <2>1 DEF Stepped
  <2>3. \A m \in Attempts : HeldOn(m)
    <3>1. attempt[i].stage = "fired" => ~ByTick(i)
      BY DEF TypeInv, Owned, OwnedAttempt
    <3>2. HeldOn(i)
      BY <2>1, <3>1 DEF Stepped, Same, HeldOn, Holding, ByTick, Active, Working
    <3> QED
      BY <2>1, <3>2 DEF Stepped, HeldOn, Holding, ByTick
  <2>4. ASSUME NEW j \in Jobs PROVE ClaimOf(j)'
    <3>1. job[j] \in Job /\ Limited(job[j])
      BY <1>1 DEF Limited, Counts, Once, Job, TypeOK
    <3>2. MarkedRun(job[j]).ran
      BY <3>1, MarkWrites DEF Marked
    <3>3. /\ [job[j] EXCEPT !.completed = @ + 1].runClaim = job[j].runClaim
          /\ [job[j] EXCEPT !.completed = @ + 1].runFresh = job[j].runFresh
      BY <3>1 DEF Job
    <3>4. \/ job'[j].ran \/ job[j].ran
          \/ job'[j].runClaim = job[j].runClaim /\ job'[j].runFresh = job[j].runFresh
      BY <2>1, <3>2, <3>3 DEF RunWrites
    <3>5. CASE job'[j].ran \/ job[j].ran
      BY <3>5, RanStays DEF ClaimOf, Minded
    <3>6. CASE job'[j].runClaim = job[j].runClaim /\ job'[j].runFresh = job[j].runFresh
      BY <2>2, <2>3, <3>6, ClaimStays DEF Claims
    <3> QED
      BY <3>4, <3>5, <3>6
  <2> QED
    BY <2>4 DEF Claims
<1>11. ASSUME NEW p \in Processes, Stop(p) PROVE Claims'
  <2>1. /\ \A i \in Attempts :
             /\ Same([attempt[i] EXCEPT !.killed = attempt'[i].killed], attempt'[i])
             /\ attempt'[i].stage = attempt[i].stage
        /\ \A q \in Processes \ {p} : proc'[q] = proc[q]
        /\ proc'[p].due = proc[p].due /\ job' = job
    BY <1>1, <1>11, StopShape
  <2>2. \A i \in Attempts : HeldOn(i)
    BY <1>1, <2>1 DEF Same, Attempt, HeldOn, Holding, ByTick
  <2>3. \A q \in Processes, j \in Jobs : proc'[q].due[j] = proc[q].due[j]
    BY <2>1
  <2> QED
    BY <2>1, <2>2, <2>3, ClaimStays DEF Claims
<1>12. ASSUME NEW p \in Processes, Exit(p) \/ Crash(p) PROVE Claims'
  <2>1. Gone(p)
    BY <1>12 DEF Exit, Crash
  <2>2. /\ proc' = [proc EXCEPT ![p] = Down] /\ job' = job
        /\ \A i \in Attempts :
              /\ attempt'[i].job = attempt[i].job /\ attempt'[i].via = attempt[i].via
              /\ attempt'[i].by = attempt[i].by
              /\ attempt'[i].stage = "dead" \/ attempt'[i].stage = attempt[i].stage
    BY <1>1, <2>1, GoneShape
  <2>3. \A q \in Processes, j \in Jobs : proc'[q].due[j] \in {0, proc[q].due[j]}
    BY <1>1, <2>2, ProcessTypes DEF TypeOK
  <2>4. \A i \in Attempts : HeldOn(i)
    BY <2>2 DEF HeldOn, Holding, ByTick, Working
  <2> QED
    BY <2>2, <2>3, <2>4, ClaimStays DEF Claims
<1>13. ASSUME NEW p \in Processes, Start(p) PROVE Claims'
  <2>1. /\ proc' = [proc EXCEPT ![p] = Started] /\ job' = job
        /\ \A i \in Attempts : Same(attempt[i], attempt'[i]) /\ attempt'[i].stage = attempt[i].stage
    BY <1>1, <1>13, StartShape
  <2>2. \A q \in Processes, j \in Jobs : proc'[q].due[j] \in {0, proc[q].due[j]}
    BY <1>1, <2>1, ProcessTypes DEF TypeOK
  <2>3. \A i \in Attempts : HeldOn(i)
    BY <2>1 DEF HeldOn, Holding, ByTick, Same
  <2> QED
    BY <2>1, <2>2, <2>3, ClaimStays DEF Claims
<1>14. ASSUME UNCHANGED vars PROVE Claims'
  <2>1. UNCHANGED <<job, proc, attempt>>
    BY <1>14 DEF vars
  <2> QED
    BY <1>2, <2>1, ClaimStays DEF Claims
<1> QED
  BY <1>3, <1>4, <1>5, <1>6, <1>7, <1>8, <1>9, <1>10, <1>11, <1>12, <1>13, <1>14, StepKinds

(* Only a scan removes a job as wedged.                                    *)
LEMMA ScanRemoves ==
  ASSUME TypeInv, [Next]_vars, NEW j \in Jobs, fate[j] = "kept", fate'[j] = "scan"
  PROVE  \E p \in Processes : Scan(p) /\ Wedged(p, j)
<1>1. ASSUME NEW k \in Jobs, Users(k) PROVE FALSE
  <2>1. fate' = fate \/ fate' = [fate EXCEPT ![k] = "user"]
    BY <1>1, UserShape DEF Adjusted, TypeInv
  <2> QED
    BY <2>1 DEF TypeInv, TypeOK
<1>2. ASSUME NEW i \in Attempts, Run(i) PROVE FALSE
  <2>1. fate' = fate \/ \E k : fate' = [fate EXCEPT ![k] = "claim"]
    BY <1>2 DEF Run, RecordFire, Begin, Reject, Work, Answer, Consume, Mark, Finish
  <2> QED
    BY <2>1 DEF TypeInv, TypeOK
<1>3. ASSUME NEW p \in Processes, Scan(p) PROVE Wedged(p, j)
  <2>1. PICK old \in SUBSET {k \in Jobs : Finished(k)} :
          fate' = [k \in Jobs |-> IF k \in old THEN "sweep"
                                  ELSE IF Wedged(p, k) THEN "scan" ELSE fate[k]]
    BY <1>3 DEF Scan
  <2>2. fate'[j] = IF j \in old THEN "sweep" ELSE IF Wedged(p, j) THEN "scan" ELSE fate[j]
    BY <2>1
  <2> QED
    BY <2>2
<1>4. ASSUME NEW p \in Processes,
             \/ Advance(p) \/ Stop(p) \/ Exit(p) \/ Crash(p) \/ Start(p)
             \/ \E k \in Jobs : Dispatch(p, k) \/ Skip(p, k) \/ Fire(p, k) \/ MarkInterrupted(p, k)
      PROVE  fate' = fate
  BY <1>4 DEF Advance, Stop, Exit, Crash, Gone, Start, Dispatch, Skip, Fire, MarkInterrupted
<1> QED
  BY <1>1, <1>2, <1>3, <1>4, StepKinds DEF vars

(* A tick never removes a one-shot as wedged while a run of it goes on     *)
(* that a tick started, unless its claim lapsed in a queue or a run of the *)
(* job was marked before.                                                  *)
THEOREM LiveRunSpared == Spec => ScanSparesLiveRun
<1>1. Init => TickInv /\ Claims
  <2> SUFFICES ASSUME Init PROVE Claims
    BY TicksBegin
  <2>1. Unused.stage = "none"
    BY DEF Unused
  <2>2. \A i \in Attempts : ~Holding(i)
    BY <2>1 DEF Init, Holding, ByTick
  <2>3. \A p \in Processes, j \in Jobs : proc[p].due[j] = 0
    BY ProcessTypes DEF Init
  <2> QED
    BY <2>2, <2>3 DEF Claims, ClaimOf
<1>2. TypeInv /\ Claims /\ [Next]_vars
        => [\A j \in Jobs :
              fate[j] = "kept" /\ fate'[j] = "scan" /\ j \notin overslept /\ ~job[j].ran =>
                \A i \in Runs(j) : attempt[i].via = "direct"]_vars
  <2> SUFFICES ASSUME TypeInv, Claims, [Next]_vars, NEW j \in Jobs,
                      fate[j] = "kept", fate'[j] = "scan", j \notin overslept, ~job[j].ran,
                      NEW i \in Runs(j), attempt[i].via # "direct"
               PROVE  FALSE
    OBVIOUS
  <2>1. PICK p \in Processes : Wedged(p, j)
    BY ScanRemoves
  <2>2. Minded(j) /\ ClaimOf(j) /\ ~Held(j)
    BY <2>1 DEF Wedged, Ready, Spent, Minded, Kept, Claims
  <2>3. attempt[i] \in Attempt /\ i \in Attempts
    BY DEF Runs, TypeInv, TypeOK
  <2>4. attempt[i].via = "tick"
    BY <2>3 DEF Attempt
  <2>5. Holding(i) /\ attempt[i].job = j
    BY <2>3, <2>4 DEF Holding, ByTick, Working, Runs
  <2>6. attempt[i].by # NULL
    BY <2>3, <2>5, SchedulerAssumption DEF Holding, ByTick, TypeInv, Owned, OwnedAttempt
  <2> QED
    BY <2>2, <2>3, <2>5, <2>6 DEF ClaimOf, HeldBy, Held, Minded
<1>3. Spec => [](TickInv /\ Claims)
  BY <1>1, TickStep, ClaimsStep, TypeCorrect, PTL DEF Spec
<1> QED
  BY <1>2, <1>3, TypeCorrect, PTL DEF Spec, ScanSparesLiveRun

----------------------------------------------------------------------------
(* The ledger.  A run is killed when it has begun, its row is opened before*)
(* and closed when it ends.                                                *)
RowOf(a) ==
  /\ a.stage \in {"none", "fired"} => a.row = "none"
  /\ a.stage \in Active => a.row \in Open
  /\ a.row = "unknown" => a.stage = "dead"
  /\ a.row \in Open => a.stage # "ended"
  /\ a.row = "completed" => a.stage = "ended"
  /\ a.stage \in {"none", "fired", "queued", "begun"} => ~a.killed

(* A run whose tools were killed is flagged until it has its answer, which *)
(* is then a failure.                                                      *)
KilledRun(i) ==
  attempt[i].killed /\ ~MayTakeFlag(i) =>
    /\ attempt[i].stage = "live" => Flagged(i)
    /\ attempt[i].stage \in {"delivering", "marking", "settled"} => ~attempt[i].ok
    /\ attempt[i].row # "completed"

ClosedAtStart(i) == attempt[i].stage = "dead" /\ attempt[i].row \in Open => ~proc[attempt[i].by].up

Ledger == \A i \in Attempts : RowOf(attempt[i]) /\ KilledRun(i) /\ ClosedAtStart(i)

Kin(i) == /\ attempt'[i].job = attempt[i].job /\ attempt'[i].by = attempt[i].by
          /\ attempt'[i].via = attempt[i].via

(* Whose run an attempt is does not change.                                *)
LEMMA UsedStays ==
  ASSUME TypeInv, [Next]_vars, NEW k \in Attempts, attempt[k].stage # "none"
  PROVE  Kin(k)
<1>1. TypeOK /\ attempt[k] \in Attempt
  BY DEF TypeInv, TypeOK
<1>2. ASSUME attempt' = attempt PROVE Kin(k)
  BY <1>2 DEF Kin
<1>3. ASSUME NEW i \in Attempts, NEW a \in Attempt, New(i, a) PROVE Kin(k)
  BY <1>1, <1>3 DEF New, NextFree, TypeOK, Kin
<1>4. ASSUME NEW j \in Jobs, Users(j) PROVE Kin(k)
  BY <1>1, <1>2, <1>4, UserShape DEF Adjusted
<1>5. ASSUME NEW p \in Processes, NEW j \in Jobs, Dispatch(p, j) \/ Fire(p, j) PROVE Kin(k)
  BY <1>1, <1>3, <1>5, DispatchShape, FireShape
<1>6. ASSUME NEW i \in Attempts, Run(i) PROVE Kin(k)
  BY <1>1, <1>6, RunShape DEF Stepped, Same, Kin
<1>7. ASSUME NEW p \in Processes, Stop(p) PROVE Kin(k)
  <2>1. Same([attempt[k] EXCEPT !.killed = attempt'[k].killed], attempt'[k])
    BY <1>1, <1>7, StopShape
  <2> QED
    BY <1>1, <2>1 DEF Same, Attempt, Kin
<1>8. ASSUME NEW p \in Processes, Exit(p) \/ Crash(p) PROVE Kin(k)
  <2>1. Gone(p)
    BY <1>8 DEF Exit, Crash
  <2> QED
    BY <1>1, <2>1, GoneShape DEF Kin
<1>9. ASSUME NEW p \in Processes, Start(p) PROVE Kin(k)
  BY <1>1, <1>9, StartShape DEF Same, Kin
<1>10. ASSUME NEW p \in Processes,
              Scan(p) \/ Advance(p) \/ \E j \in Jobs : Skip(p, j) \/ MarkInterrupted(p, j)
       PROVE  attempt' = attempt
  BY <1>10 DEF Scan, Advance, Skip, MarkInterrupted
<1> QED
  BY <1>2, <1>4, <1>5, <1>6, <1>7, <1>8, <1>9, <1>10, StepKinds DEF vars

LEMMA MayStays ==
  ASSUME TypeInv, [Next]_vars, NEW i \in Attempts, attempt[i].stage # "none", MayTakeFlag(i)
  PROVE  MayTakeFlag(i)'
<1>1. PICK k \in Attempts : /\ attempt[k].via = "direct" /\ attempt[k].job = attempt[i].job
                            /\ attempt[k].by = attempt[i].by
  BY DEF MayTakeFlag
<1>2. attempt[k].stage # "none"
  <2>1. attempt[i].job \in Jobs /\ (attempt[k].stage = "none" => attempt[k].job = NULL)
    BY DEF TypeInv, Owned, OwnedAttempt
  <2> QED
    BY <1>1, <2>1, SchedulerAssumption
<1>3. Kin(i) /\ Kin(k)
  BY <1>2, UsedStays
<1> QED
  BY <1>1, <1>3 DEF Kin, MayTakeFlag

(* The flags stay, and the runs go on as they were.                        *)
LEMMA LedgerStays ==
  ASSUME TypeInv, [Next]_vars, NEW i \in Attempts,
         RowOf(attempt[i]), KilledRun(i), ClosedAtStart(i),
         attempt'[i] = attempt[i],
         attempt[i].stage \in {"live", "dead"} =>
           LET p == attempt[i].by
           IN  proc[p].interrupted \subseteq proc'[p].interrupted /\ proc'[p].up = proc[p].up
  PROVE  RowOf(attempt'[i]) /\ KilledRun(i)' /\ ClosedAtStart(i)'
<1>1. RowOf(attempt'[i]) /\ ClosedAtStart(i)'
  BY DEF ClosedAtStart
<1>2. KilledRun(i)'
  <2> SUFFICES ASSUME attempt[i].killed, ~MayTakeFlag(i)'
               PROVE  /\ attempt[i].stage = "live" => attempt[i].job \in proc'[attempt[i].by].interrupted
                      /\ attempt[i].stage \in {"delivering", "marking", "settled"} => ~attempt[i].ok
                      /\ attempt[i].row # "completed"
    BY DEF KilledRun, Flagged
  <2>1. attempt[i].stage # "none"
    BY DEF RowOf
  <2>2. ~MayTakeFlag(i)
    BY <2>1, MayStays
  <2> QED
    BY <2>2 DEF KilledRun, Flagged
<1> QED
  BY <1>1, <1>2

(* What a step of a run does to its row and to the flags.                  *)
RowStep(a, b) ==
  \/ a.stage = "fired" /\ b.stage = "queued" /\ b.row = "claimed"
  \/ a.stage = "fired" /\ b.stage = "ended" /\ b.row = a.row
  \/ a.stage = "queued" /\ b.stage = "begun" /\ b.row = a.row
  \/ a.stage = "queued" /\ b.stage = "ended" /\ b.row = "failed"
  \/ a.stage = "begun" /\ b.stage = "live" /\ b.row = "running"
  \/ a.stage = "live" /\ b.stage = "delivering" /\ b.row = a.row
  \/ a.stage = "delivering" /\ b.stage \in {"settled", "marking"} /\ b.row = a.row /\ b.ok = a.ok
  \/ a.stage = "marking" /\ b.stage = "settled" /\ b.row = a.row /\ b.ok = a.ok
  \/ a.stage = "settled" /\ b.stage = "ended" /\ b.row \in {"failed", "completed"}
                         /\ (b.row = "completed" => a.ok)

LEMMA RunRow ==
  ASSUME TypeOK, NEW i \in Attempts, Run(i)
  PROVE  /\ RowStep(attempt[i], attempt'[i])
         /\ attempt[i].stage = "live" /\ Flagged(i) => ~attempt'[i].ok
         /\ \A q \in Processes :
              \/ proc'[q].interrupted = proc[q].interrupted
              \/ /\ attempt[i].stage = "delivering" /\ q = attempt[i].by
                 /\ proc'[q].interrupted = proc[q].interrupted \ {attempt[i].job}
<1> DEFINE a == attempt[i]
           Goal == /\ RowStep(attempt[i], attempt'[i])
                   /\ attempt[i].stage = "live" /\ Flagged(i) => ~attempt'[i].ok
                   /\ \A q \in Processes :
                        \/ proc'[q].interrupted = proc[q].interrupted
                        \/ /\ attempt[i].stage = "delivering" /\ q = attempt[i].by
                           /\ proc'[q].interrupted = proc[q].interrupted \ {attempt[i].job}
<1>1. a \in Attempt
  BY DEF TypeOK
<1>2. CASE RecordFire(i)
  <2>1. attempt'[i] = [a EXCEPT !.stage = "queued", !.row = "claimed"]
        \/ attempt'[i] = [a EXCEPT !.stage = "ended"]
    BY <1>2 DEF RecordFire, TypeOK
  <2>2. a.stage = "fired" /\ proc' = proc
    BY <1>2 DEF RecordFire, At
  <2> QED
    BY <1>1, <2>1, <2>2 DEF Attempt, RowStep
<1>3. CASE Begin(i)
  <2>1. attempt'[i] = [a EXCEPT !.stage = "begun"] /\ a.stage = "queued" /\ proc' = proc
    BY <1>3 DEF Begin, At, TypeOK
  <2> QED
    BY <1>1, <2>1 DEF Attempt, RowStep
<1>4. ASSUME NEW status \in {"completed", "failed"}, Ended(i, status)
      PROVE  /\ attempt'[i].stage = "ended" /\ attempt'[i].row = status
             /\ \A q \in Processes : proc'[q].interrupted = proc[q].interrupted
  <2>1. attempt'[i] = [a EXCEPT !.stage = "ended", !.row = status, !.owner = NULL]
    BY <1>4 DEF Ended, TypeOK
  <2>2. attempt'[i].stage = "ended" /\ attempt'[i].row = status
    BY <1>1, <2>1 DEF Attempt
  <2>3. \A q \in Processes : proc'[q].interrupted = proc[q].interrupted
    BY <1>4 DEF Ended, TypeOK, Process
  <2> QED
    BY <2>2, <2>3
<1>5. CASE Reject(i)
  BY <1>4, <1>5 DEF Reject, At, RowStep
<1>6. CASE Work(i)
  <2>1. attempt'[i] = [a EXCEPT !.stage = "live", !.row = "running"] /\ a.stage = "begun" /\ proc' = proc
    BY <1>6 DEF Work, At, TypeOK
  <2> QED
    BY <1>1, <2>1 DEF Attempt, RowStep
<1>7. CASE Answer(i)
  <2>1. PICK answer \in BOOLEAN :
          attempt' = [attempt EXCEPT ![i].stage = "delivering", ![i].ok = answer /\ ~Flagged(i)]
    BY <1>7 DEF Answer
  <2> DEFINE good == answer /\ ~Flagged(i)
  <2>2. good \in BOOLEAN /\ (Flagged(i) => ~good)
    OBVIOUS
  <2>3. attempt'[i] = [a EXCEPT !.stage = "delivering", !.ok = good] /\ a.stage = "live" /\ proc' = proc
    BY <1>7, <2>1 DEF Answer, At, TypeOK
  <2> HIDE DEF good
  <2>4. attempt'[i].stage = "delivering" /\ attempt'[i].ok = good /\ attempt'[i].row = a.row
    BY <1>1, <2>2, <2>3 DEF Attempt
  <2>5. RowStep(attempt[i], attempt'[i])
    BY <2>3, <2>4 DEF RowStep
  <2>6. Flagged(i) => ~attempt'[i].ok
    BY <2>2, <2>4
  <2> QED
    BY <2>3, <2>5, <2>6
<1>8. CASE Consume(i)
  <2>1. PICK stage \in {"settled", "marking"} : attempt' = [attempt EXCEPT ![i].stage = stage]
    BY <1>8 DEF Consume
  <2>2. attempt'[i] = [a EXCEPT !.stage = stage] /\ a.stage = "delivering"
    BY <1>8, <2>1 DEF Consume, At, TypeOK
  <2>3. RowStep(attempt[i], attempt'[i])
    BY <1>1, <2>2 DEF Attempt, RowStep
  <2> DEFINE flags == proc[attempt[i].by].interrupted \ {attempt[i].job}
  <2>4. proc' = [proc EXCEPT ![attempt[i].by].interrupted = flags]
    BY <1>8 DEF Consume
  <2> HIDE DEF flags
  <2>5. \A q \in Processes : \/ proc'[q].interrupted = proc[q].interrupted
                             \/ q = attempt[i].by /\ proc'[q].interrupted = flags
    BY <2>4 DEF TypeOK, Process
  <2> QED
    BY <2>2, <2>3, <2>5 DEF flags
<1>9. CASE Mark(i)
  <2>1. attempt'[i] = [a EXCEPT !.stage = "settled"] /\ a.stage = "marking" /\ proc' = proc
    BY <1>9 DEF Mark, At, TypeOK
  <2> QED
    BY <1>1, <2>1 DEF Attempt, RowStep
<1>10. CASE Finish(i)
  <2> DEFINE status == IF attempt[i].ok THEN "completed" ELSE "failed"
  <2>1. Ended(i, status) /\ a.stage = "settled"
    BY <1>10 DEF Finish, At
  <2>2. status \in {"completed", "failed"} /\ (status = "completed" => a.ok)
    OBVIOUS
  <2> HIDE DEF status
  <2> QED
    BY <1>4, <2>1, <2>2 DEF RowStep
<1> QED
  BY <1>2, <1>3, <1>5, <1>6, <1>7, <1>8, <1>9, <1>10 DEF Run

(* The run that clears a flag is the only one a tick started of its job, in*)
(* its process, so that it clears its own.                                 *)
LEMMA LedgerRun ==
  ASSUME TypeInv, Ledger, [Next]_vars, NEW i \in Attempts, Run(i)
  PROVE  Ledger'
<1>1. Stepped(i) /\ RowStep(attempt[i], attempt'[i])
      /\ (attempt[i].stage = "live" /\ Flagged(i) => ~attempt'[i].ok)
      /\ \A q \in Processes :
              \/ proc'[q].interrupted = proc[q].interrupted
              \/ /\ attempt[i].stage = "delivering" /\ q = attempt[i].by
                 /\ proc'[q].interrupted = proc[q].interrupted \ {attempt[i].job}
  BY RunShape, RunRow DEF TypeInv
<1>2. RowOf(attempt'[i]) /\ ClosedAtStart(i)'
  <2>1. RowOf(attempt[i]) /\ attempt'[i].killed = attempt[i].killed /\ attempt'[i].stage # "dead"
    BY <1>1 DEF Ledger, Stepped, Same, Active
  <2> QED
    BY <1>1, <2>1 DEF RowOf, RowStep, Active, Open, ClosedAtStart
<1>3. KilledRun(i)'
  <2> SUFFICES ASSUME attempt[i].killed, ~MayTakeFlag(i)'
               PROVE  /\ attempt'[i].stage # "live"
                      /\ attempt'[i].stage \in {"delivering", "marking", "settled"} => ~attempt'[i].ok
                      /\ attempt'[i].row # "completed"
    BY <1>1 DEF KilledRun, Stepped, Same
  <2>1. attempt[i].stage \notin {"none", "fired", "queued", "begun"} /\ KilledRun(i)
        /\ (attempt[i].row = "completed" => attempt[i].stage = "ended")
    BY DEF Ledger, RowOf
  <2>2. ~MayTakeFlag(i)
    BY <2>1, MayStays
  <2>3. /\ attempt[i].stage = "live" => Flagged(i)
        /\ attempt[i].stage \in {"delivering", "marking", "settled"} => ~attempt[i].ok
    BY <2>1, <2>2 DEF KilledRun
  <2> QED
    BY <1>1, <2>1, <2>3 DEF RowStep
<1>4. ASSUME NEW k \in Attempts \ {i}
      PROVE  RowOf(attempt'[k]) /\ KilledRun(k)' /\ ClosedAtStart(k)'
  <2>1. attempt'[k] = attempt[k] /\ RowOf(attempt[k]) /\ KilledRun(k) /\ ClosedAtStart(k)
    BY <1>1 DEF Stepped, Ledger
  <2>2. attempt[k].stage # "none" => attempt[k].by \in Processes
    BY DEF TypeInv, Owned, OwnedAttempt
  <2>3. CASE proc[attempt[k].by].interrupted \subseteq proc'[attempt[k].by].interrupted
    BY <1>1, <2>1, <2>2, <2>3, LedgerStays DEF Stepped
  <2>4. CASE attempt[k].stage # "live"
    <3>1. RowOf(attempt'[k]) /\ ClosedAtStart(k)'
      BY <1>1, <2>1, <2>2 DEF Stepped, ClosedAtStart
    <3>2. KilledRun(k)'
      <4> SUFFICES ASSUME attempt[k].killed, ~MayTakeFlag(k)'
                   PROVE  /\ attempt[k].stage \in {"delivering", "marking", "settled"} => ~attempt[k].ok
                          /\ attempt[k].row # "completed"
        BY <2>1, <2>4 DEF KilledRun
      <4>1. ~MayTakeFlag(k)
        BY <2>1, MayStays DEF RowOf
      <4> QED
        BY <2>1, <4>1 DEF KilledRun
    <3> QED
      BY <3>1, <3>2
  <2>5. CASE /\ attempt[k].stage = "live" /\ attempt[i].stage = "delivering"
             /\ attempt[k].by = attempt[i].by
             /\ proc'[attempt[k].by].interrupted = proc[attempt[k].by].interrupted \ {attempt[i].job}
    <3>1. RowOf(attempt'[k]) /\ ClosedAtStart(k)'
      BY <2>1, <2>5 DEF ClosedAtStart
    <3>2. KilledRun(k)'
      <4> SUFFICES ASSUME attempt[k].killed, ~MayTakeFlag(k)'
                   PROVE  /\ attempt[k].job \in proc'[attempt[k].by].interrupted
                          /\ attempt[k].row # "completed"
        BY <2>1, <2>5 DEF KilledRun, Flagged
      <4>1. ~MayTakeFlag(k)
        BY <2>1, MayStays DEF RowOf
      <4>2. Flagged(k) /\ attempt[k].row # "completed"
        BY <2>1, <2>5, <4>1 DEF KilledRun
      <4>3. attempt[k].job # attempt[i].job
        <5> SUFFICES ASSUME attempt[k].job = attempt[i].job PROVE FALSE
          OBVIOUS
        <5>1. attempt[k].via # "direct" /\ attempt[i].via # "direct"
          BY <2>5, <4>1 DEF MayTakeFlag
        <5>2. attempt[k].via = "tick" /\ attempt[i].via = "tick"
          BY <5>1 DEF TypeInv, TypeOK, Attempt
        <5>3. GoesOn(k) /\ GoesOn(i) /\ Alike(i, k)
          BY <2>5, <5>2 DEF GoesOn, ByTick, Active, Alike
        <5> QED
          BY <5>3 DEF TypeInv, OneAtATime
      <4> QED
        BY <2>5, <4>2, <4>3 DEF Flagged
    <3> QED
      BY <3>1, <3>2
  <2> QED
    BY <1>1, <2>2, <2>3, <2>4, <2>5
<1> QED
  BY <1>2, <1>3, <1>4 DEF Ledger

LEMMA LedgerStop ==
  ASSUME TypeInv, Ledger, [Next]_vars, NEW p \in Processes, Stop(p)
  PROVE  Ledger'
<1>1. /\ \A i \in Attempts :
           /\ Same([attempt[i] EXCEPT !.killed = attempt'[i].killed], attempt'[i])
           /\ attempt'[i].stage = attempt[i].stage
           /\ attempt'[i].row = attempt[i].row /\ attempt'[i].ok = attempt[i].ok
           /\ attempt'[i].killed => \/ attempt[i].killed
                                    \/ attempt[i].by = p /\ attempt[i].stage = "live"
      /\ \A q \in Processes \ {p} : proc'[q] = proc[q]
      /\ proc'[p].up = proc[p].up
      /\ proc'[p].interrupted = proc[p].interrupted \cup proc[p].running
  BY StopShape DEF TypeInv
<1> SUFFICES ASSUME NEW i \in Attempts
             PROVE  RowOf(attempt'[i]) /\ KilledRun(i)' /\ ClosedAtStart(i)'
  BY DEF Ledger
<1>2. RowOf(attempt[i]) /\ KilledRun(i) /\ ClosedAtStart(i)
  BY DEF Ledger
<1>3. attempt[i] \in Attempt /\ (attempt[i].stage # "none" => attempt[i].by \in Processes)
  BY DEF TypeInv, TypeOK, Owned, OwnedAttempt
<1>4. attempt'[i].job = attempt[i].job /\ attempt'[i].by = attempt[i].by
  BY <1>1, <1>3 DEF Same, Attempt
<1>5. RowOf(attempt'[i])
  BY <1>1, <1>2 DEF RowOf
<1>6. ClosedAtStart(i)'
  BY <1>1, <1>2, <1>3, <1>4 DEF ClosedAtStart
<1>7. KilledRun(i)'
  <2> SUFFICES ASSUME attempt'[i].killed, ~MayTakeFlag(i)'
               PROVE  /\ attempt[i].stage = "live" => attempt[i].job \in proc'[attempt[i].by].interrupted
                      /\ attempt[i].stage \in {"delivering", "marking", "settled"} => ~attempt[i].ok
                      /\ attempt[i].row # "completed"
    BY <1>1, <1>4 DEF KilledRun, Flagged
  <2>1. attempt[i].stage # "none" /\ ~MayTakeFlag(i)
    BY <1>1, <1>2, MayStays DEF RowOf
  <2>2. CASE attempt[i].killed
    BY <1>1, <1>2, <1>3, <2>1, <2>2 DEF KilledRun, Flagged
  <2>3. CASE attempt[i].by = p /\ attempt[i].stage = "live"
    <3>1. attempt[i].via = "tick"
      BY <1>3, <2>1 DEF MayTakeFlag, Attempt
    <3>2. attempt[i].job \in proc[p].running
      BY <2>3, <3>1 DEF TypeInv, Owned, OwnedAttempt, ByTick, Active
    <3> QED
      BY <1>1, <1>2, <2>3, <3>2 DEF RowOf
  <2> QED
    BY <1>1, <2>2, <2>3
<1> QED
  BY <1>5, <1>6, <1>7

LEMMA LedgerGone ==
  ASSUME TypeInv, Ledger, [Next]_vars, NEW p \in Processes, Gone(p)
  PROVE  Ledger'
<1>1. /\ proc' = [proc EXCEPT ![p] = Down]
      /\ \A i \in Attempts :
           /\ attempt'[i].job = attempt[i].job /\ attempt'[i].by = attempt[i].by
           /\ attempt'[i].row = attempt[i].row /\ attempt'[i].ok = attempt[i].ok
           /\ attempt'[i].killed = attempt[i].killed
           /\ IF attempt[i].by = p /\ attempt[i].stage \notin {"none", "ended"}
              THEN attempt'[i].stage = "dead" ELSE attempt'[i].stage = attempt[i].stage
  BY GoneShape DEF TypeInv
<1>2. proc'[p].up = FALSE /\ \A q \in Processes \ {p} : proc'[q] = proc[q]
  BY <1>1, ProcessTypes DEF TypeInv, TypeOK
<1> SUFFICES ASSUME NEW i \in Attempts
             PROVE  RowOf(attempt'[i]) /\ KilledRun(i)' /\ ClosedAtStart(i)'
  BY DEF Ledger
<1>3. RowOf(attempt[i]) /\ KilledRun(i) /\ ClosedAtStart(i)
      /\ (attempt[i].stage # "none" => attempt[i].by \in Processes)
  BY DEF Ledger, TypeInv, Owned, OwnedAttempt
<1>4. RowOf(attempt'[i])
  BY <1>1, <1>3 DEF RowOf, Active
<1>5. ClosedAtStart(i)'
  BY <1>1, <1>2, <1>3 DEF ClosedAtStart
<1>6. KilledRun(i)'
  <2> SUFFICES ASSUME attempt[i].killed, ~MayTakeFlag(i)'
               PROVE  /\ attempt'[i].stage = "live" => attempt[i].job \in proc'[attempt[i].by].interrupted
                      /\ attempt'[i].stage \in {"delivering", "marking", "settled"} => ~attempt[i].ok
                      /\ attempt[i].row # "completed"
    BY <1>1 DEF KilledRun, Flagged
  <2>1. attempt[i].stage # "none" /\ ~MayTakeFlag(i)
    BY <1>3, MayStays DEF RowOf
  <2> QED
    BY <1>1, <1>2, <1>3, <2>1 DEF KilledRun, Flagged
<1> QED
  BY <1>4, <1>5, <1>6

LEMMA LedgerStart ==
  ASSUME TypeInv, Ledger, [Next]_vars, NEW p \in Processes, Start(p)
  PROVE  Ledger'
<1>1. /\ proc' = [proc EXCEPT ![p] = Started] /\ ~proc[p].up
      /\ \A i \in Attempts :
           /\ Same(attempt[i], attempt'[i]) /\ attempt'[i].stage = attempt[i].stage
           /\ attempt'[i].ok = attempt[i].ok
           /\ IF attempt[i].stage = "dead" /\ attempt[i].row \in Open
              THEN attempt'[i].row = "unknown" ELSE attempt'[i].row = attempt[i].row
  BY StartShape DEF TypeInv
<1>2. \A q \in Processes \ {p} : proc'[q] = proc[q]
  BY <1>1 DEF TypeInv, TypeOK
<1> SUFFICES ASSUME NEW i \in Attempts
             PROVE  RowOf(attempt'[i]) /\ KilledRun(i)' /\ ClosedAtStart(i)'
  BY DEF Ledger
<1>3. RowOf(attempt[i]) /\ KilledRun(i)
      /\ (attempt[i].stage # "none" => attempt[i].by \in Processes)
      /\ (attempt[i].stage = "live" => attempt[i].by # p)
  BY <1>1 DEF Ledger, TypeInv, Owned, OwnedAttempt, Active
<1>4. RowOf(attempt'[i]) /\ ClosedAtStart(i)'
  <2>1. attempt'[i].killed = attempt[i].killed
    BY <1>1 DEF Same
  <2> QED
    BY <1>1, <1>3, <2>1 DEF RowOf, Active, Open, ClosedAtStart
<1>5. KilledRun(i)'
  <2> SUFFICES ASSUME attempt[i].killed, ~MayTakeFlag(i)'
               PROVE  /\ attempt[i].stage = "live" => attempt[i].job \in proc'[attempt[i].by].interrupted
                      /\ attempt[i].stage \in {"delivering", "marking", "settled"} => ~attempt[i].ok
                      /\ attempt'[i].row # "completed"
    BY <1>1 DEF KilledRun, Flagged, Same
  <2>1. attempt[i].stage # "none" /\ ~MayTakeFlag(i)
    BY <1>3, MayStays DEF RowOf
  <2>2. attempt'[i].row = "completed" => attempt[i].row = "completed"
    BY <1>1
  <2> QED
    BY <1>1, <1>2, <1>3, <2>1, <2>2 DEF KilledRun, Flagged
<1> QED
  BY <1>4, <1>5

LEMMA LedgerStep ==
  ASSUME TypeInv, Ledger, [Next]_vars
  PROVE  Ledger'
<1>1. TypeOK /\ \A i \in Attempts : /\ RowOf(attempt[i]) /\ KilledRun(i) /\ ClosedAtStart(i)
                                    /\ attempt[i].stage # "none" => attempt[i].by \in Processes
  BY DEF TypeInv, Ledger, Owned, OwnedAttempt
<1>2. ASSUME NEW i \in Attempts, attempt'[i] = attempt[i],
             \A q \in Processes : proc'[q].interrupted = proc[q].interrupted /\ proc'[q].up = proc[q].up
      PROVE  RowOf(attempt'[i]) /\ KilledRun(i)' /\ ClosedAtStart(i)'
  BY <1>1, <1>2, LedgerStays
<1>3. ASSUME NEW i \in Attempts, NEW a \in Attempt, New(i, a), RowOf(a), a.stage \in {"queued", "fired"},
             \A q \in Processes : proc'[q].interrupted = proc[q].interrupted /\ proc'[q].up = proc[q].up
      PROVE  Ledger'
  <2>1. attempt'[i] = a /\ \A k \in Attempts \ {i} : attempt'[k] = attempt[k]
    BY <1>1, <1>3 DEF New, TypeOK
  <2>2. RowOf(attempt'[i]) /\ KilledRun(i)' /\ ClosedAtStart(i)'
    BY <1>3, <2>1 DEF New, KilledRun, ClosedAtStart
  <2>3. \A k \in Attempts \ {i} : RowOf(attempt'[k]) /\ KilledRun(k)' /\ ClosedAtStart(k)'
    BY <1>2, <1>3, <2>1
  <2> QED
    BY <2>2, <2>3 DEF Ledger
<1>4. ASSUME attempt' = attempt,
             \A q \in Processes : proc'[q].interrupted = proc[q].interrupted /\ proc'[q].up = proc[q].up
      PROVE  Ledger'
  BY <1>2, <1>4 DEF Ledger
<1>5. ASSUME NEW j \in Jobs, Users(j) PROVE Ledger'
  BY <1>1, <1>4, <1>5, UserShape DEF Adjusted
<1>6. ASSUME NEW p \in Processes, Scan(p) PROVE Ledger'
  <2>1. /\ attempt' = attempt /\ proc'[p].interrupted = proc[p].interrupted /\ proc'[p].up = proc[p].up
        /\ \A q \in Processes \ {p} : proc'[q] = proc[q]
    BY <1>1, <1>6, ScanShape DEF Ticked
  <2> QED
    BY <1>4, <2>1
<1>7. ASSUME NEW p \in Processes, Advance(p) PROVE Ledger'
  <2>1. /\ attempt' = attempt /\ proc'[p].interrupted = proc[p].interrupted /\ proc'[p].up = proc[p].up
        /\ \A q \in Processes \ {p} : proc'[q] = proc[q]
    BY <1>1, <1>7, AdvanceShape
  <2> QED
    BY <1>4, <2>1
<1>8. ASSUME NEW p \in Processes, NEW j \in Jobs, Dispatch(p, j) PROVE Ledger'
  <2>1. PICK i \in Attempts, a \in Attempt :
           New(i, a) /\ a.stage = "queued" /\ a.row = "claimed"
    BY <1>1, <1>8, DispatchShape
  <2>2. proc[p].running \cup {j} \in SUBSET Jobs /\ Handled(p, j, proc[p].running \cup {j})
    BY <1>1, <1>8 DEF Dispatch, TypeOK, Process
  <2>3. /\ proc'[p].interrupted = proc[p].interrupted /\ proc'[p].up = proc[p].up
        /\ \A q \in Processes \ {p} : proc'[q] = proc[q]
    BY <1>1, <2>2, HandledShape
  <2>4. RowOf(a)
    BY <2>1 DEF New, RowOf, Open
  <2> QED
    BY <1>3, <2>1, <2>3, <2>4
<1>9. ASSUME NEW p \in Processes, NEW j \in Jobs, Skip(p, j) PROVE Ledger'
  <2>1. Handled(p, j, proc[p].running) /\ attempt' = attempt /\ proc[p].running \in SUBSET Jobs
    BY <1>1, <1>9 DEF Skip, TypeOK, Process
  <2>2. /\ proc'[p].interrupted = proc[p].interrupted /\ proc'[p].up = proc[p].up
        /\ \A q \in Processes \ {p} : proc'[q] = proc[q]
    BY <1>1, <2>1, HandledShape
  <2> QED
    BY <1>4, <2>1, <2>2
<1>10. ASSUME NEW p \in Processes, NEW j \in Jobs, Fire(p, j) PROVE Ledger'
  <2>1. PICK i \in Attempts, a \in Attempt : New(i, a) /\ a.stage = "fired" /\ a.row = "none"
    BY <1>1, <1>10, FireShape
  <2>2. proc' = proc
    BY <1>10 DEF Fire
  <2>3. RowOf(a)
    BY <2>1 DEF New, RowOf, Active, Open
  <2> QED
    BY <1>3, <2>1, <2>2, <2>3
<1>11. ASSUME NEW p \in Processes, NEW j \in Jobs, MarkInterrupted(p, j) PROVE Ledger'
  <2>1. /\ attempt' = attempt /\ proc'[p].interrupted = proc[p].interrupted /\ proc'[p].up = proc[p].up
        /\ \A q \in Processes \ {p} : proc'[q] = proc[q]
    BY <1>1, <1>11, InterruptShape
  <2> QED
    BY <1>4, <2>1
<1>12. ASSUME NEW i \in Attempts, Run(i) PROVE Ledger'
  BY <1>12, LedgerRun
<1>13. ASSUME NEW p \in Processes, Stop(p) PROVE Ledger'
  BY <1>13, LedgerStop
<1>14. ASSUME NEW p \in Processes, Exit(p) \/ Crash(p) PROVE Ledger'
  <2>1. Gone(p)
    BY <1>14 DEF Exit, Crash
  <2> QED
    BY <2>1, LedgerGone
<1>15. ASSUME NEW p \in Processes, Start(p) PROVE Ledger'
  BY <1>15, LedgerStart
<1>16. ASSUME UNCHANGED vars PROVE Ledger'
  BY <1>4, <1>16 DEF vars
<1> QED
  BY <1>5, <1>6, <1>7, <1>8, <1>9, <1>10, <1>11, <1>12, <1>13, <1>14, <1>15, <1>16, StepKinds

(* The ledger tells the truth about every run, whatever dies or is killed. *)
THEOREM LedgerTrue == Spec => []RowsTellTheTruth
<1>1. Init => Ledger
  <2> SUFFICES ASSUME Init PROVE Ledger
    OBVIOUS
  <2>1. Unused.stage = "none" /\ Unused.row = "none" /\ ~Unused.killed
    BY DEF Unused
  <2> QED
    BY <2>1 DEF Init, Ledger, RowOf, KilledRun, ClosedAtStart, Active, Open
<1>2. Ledger => RowsTellTheTruth
  BY DEF Ledger, RowOf, KilledRun, ClosedAtStart, RowsTellTheTruth, Active, Open, At
<1> QED
  BY <1>1, <1>2, LedgerStep, TypeCorrect, PTL DEF Spec
=============================================================================
