------------------------- MODULE BuilderActivation -------------------------
(***************************************************************************)
(* Activation of a reviewed code change as a new runtime slot              *)
(* (honeyos/companion/builder_activation.py, driven by the "builder        *)
(* activate" command and the service control of honeyos/cli/service.py).   *)
(*                                                                         *)
(* A worker is one run of the command.  Each action is one durable write,  *)
(* so a worker may die between any two of them; the file lock of the store *)
(* is held across the writes of a section and dies with its holder.        *)
(*                                                                         *)
(* Left out: digests and the evidence they protect (a published slot is    *)
(* intact), the temporary directory of a stage, the Windows lock, and the  *)
(* record states no caller requests (denied, expired, invalidated).        *)
(***************************************************************************)
EXTENDS Naturals

CONSTANTS
  Changes,      \* reviewed changes; one activation id and one slot each
  Workers,      \* runs of "honeyos builder activate"
  NULL,         \* no pointer, no worker; the bundled source tree
  Down          \* no service process

ASSUME BuilderAssumption ==
  /\ NULL \notin Changes /\ NULL \notin Workers
  /\ Down \notin Changes /\ Down # NULL

VARIABLES
  slot,       \* slots/<id> is published
  receipt,    \* slots/<id>/preflight.json
  record,     \* activations/<id>.json: state
  journal,    \* journals/<id>.json
  current,    \* current-slot.json
  previous,   \* previous-slot.json
  service,    \* the source tree the service process runs from
  ran,        \* history: slots the service has run from
  lock,       \* holder of .activation.lock
  worker,     \* the runs of the command
  overlap     \* history: has a run begun while another was alive

durable == <<slot, receipt, record, journal, current, previous>>
vars    == <<durable, service, ran, lock, worker, overlap>>

Pointers == Changes \cup {NULL}

States == {"none", "staged", "awaiting_confirmation", "switching", "healthy",
           "rolling_back", "rolled_back", "recovery_required"}

NoJournal        == [state |-> "none"]
Staging(payload) == [state |-> "staging", payload |-> payload]
Switching(prev)  == [state |-> "switching", prev |-> prev]
Journal == {NoJournal} \cup {Staging(p) : p \in BOOLEAN} \cup {Switching(p) : p \in Pointers}

IsStaging(c)   == journal[c].state = "staging"
IsSwitching(c) == journal[c].state = "switching"

Labels ==
  {"idle", "opening", "opened", "staging", "journaled", "prepared", "published",
   "recorded", "cleaning", "staged", "checked", "confirmed", "saved", "marked",
   "armed", "switched", "restarted", "judged", "accepted", "refused", "restored",
   "restoredUp", "closing", "over", "dead"}

(* "at" is the journal a worker is reconciling, "prev" the pointer it read *)
(* before its switch, "good" what its restart or health check told it.     *)
Worker ==
  [pc: Labels, change: Pointers, at: Pointers, prev: Pointers, good: BOOLEAN]

TypeOK ==
  /\ slot \in [Changes -> BOOLEAN]
  /\ receipt \in [Changes -> {"none", "passed", "failed"}]
  /\ record \in [Changes -> States]
  /\ journal \in [Changes -> Journal]
  /\ current \in Pointers /\ previous \in Pointers
  /\ service \in Pointers \cup {Down} /\ ran \subseteq Changes
  /\ lock \in Workers \cup {NULL}
  /\ worker \in [Workers -> Worker]
  /\ overlap \in BOOLEAN

Init ==
  /\ slot = [c \in Changes |-> FALSE]
  /\ receipt = [c \in Changes |-> "none"]
  /\ record = [c \in Changes |-> "none"]
  /\ journal = [c \in Changes |-> NoJournal]
  /\ current = NULL /\ previous = NULL
  /\ service = NULL /\ ran = {}
  /\ lock = NULL
  /\ worker = [w \in Workers |-> [pc |-> "idle", change |-> NULL, at |-> NULL,
                                  prev |-> NULL, good |-> FALSE]]
  /\ overlap = FALSE

----------------------------------------------------------------------------
(* Control.                                                                *)

Ended == {"over", "dead"}

(* A command that has ended keeps nothing but what it was about.           *)
Goto(w, pc) ==
  worker' = [worker EXCEPT ![w] =
    IF pc \in Ended THEN [pc |-> pc, change |-> @.change, at |-> NULL, prev |-> NULL, good |-> FALSE]
    ELSE [@ EXCEPT !.pc = pc]]

(* From one label to the next inside a locked section, into one, out of    *)
(* one, and through a section of a single write.                           *)
Inside(w, from, to) == worker[w].pc = from /\ Goto(w, to) /\ UNCHANGED lock
Enter(w, from, to)  == worker[w].pc = from /\ lock = NULL /\ Goto(w, to) /\ lock' = w
Leave(w, from, to)  == worker[w].pc = from /\ Goto(w, to) /\ lock' = NULL
Whole(w, from, to)  == worker[w].pc = from /\ lock = NULL /\ Goto(w, to) /\ UNCHANGED lock

Alive(w) == worker[w].pc \notin {"idle"} \cup Ended

----------------------------------------------------------------------------
(* ActivationStore(): the constructor takes the lock and reconciles.       *)
Open(w, c) ==
  /\ worker[w].pc = "idle" /\ lock = NULL
  /\ worker' = [worker EXCEPT ![w].pc = "opening", ![w].change = c]
  /\ overlap' = (overlap \/ \E v \in Workers : Alive(v))
  /\ lock' = w
  /\ UNCHANGED <<durable, service, ran>>

Opened(w) ==
  /\ \A c \in Changes : journal[c] = NoJournal
  /\ Leave(w, "opening", "opened")
  /\ UNCHANGED <<durable, service, ran>>

(* stage reconciles again under its own lock.                              *)
Stage(w) ==
  /\ Enter(w, "opened", "staging")
  /\ UNCHANGED <<durable, service, ran>>

Reconciling(w, c) ==
  /\ worker[w].pc \in {"opening", "staging"}
  /\ worker[w].at \in {NULL, c}
  /\ journal[c] # NoJournal

Reconciled(w, c) == worker' = [worker EXCEPT ![w].at = c]

(* _reconcile_unlocked, a stage cut short: a slot without a record gets    *)
(* the record kept in the journal, or goes; a record without a slot goes.  *)
Mend(w, c) ==
  /\ Reconciling(w, c) /\ IsStaging(c)
  /\ slot[c] # (record[c] # "none")
  /\ LET whole == slot[c] /\ journal[c].payload
     IN  /\ record' = [record EXCEPT ![c] = IF whole THEN "staged" ELSE "none"]
         /\ slot' = [slot EXCEPT ![c] = whole]
  /\ Reconciled(w, c)
  /\ UNCHANGED <<receipt, journal, current, previous, service, ran, lock>>

(* _reconcile_interrupted_switch_unlocked: the pointer goes back, then a   *)
(* record still in transit is marked.                                      *)
RestoreJournalled(w, c) ==
  /\ Reconciling(w, c) /\ IsSwitching(c)
  /\ current # journal[c].prev
  /\ current' = journal[c].prev
  /\ Reconciled(w, c)
  /\ UNCHANGED <<slot, receipt, record, journal, previous, service, ran, lock>>

MarkRecovery(w, c) ==
  /\ Reconciling(w, c) /\ IsSwitching(c)
  /\ current = journal[c].prev
  /\ record[c] \in {"switching", "rolling_back"}
  /\ record' = [record EXCEPT ![c] = "recovery_required"]
  /\ Reconciled(w, c)
  /\ UNCHANGED <<slot, receipt, journal, current, previous, service, ran, lock>>

\* Mutant: the journal of a stage goes before slot and record agree.
DropJournalEarly(w, c) ==
  /\ Reconciling(w, c)
  /\ IsSwitching(c) => current = journal[c].prev /\ record[c] \notin {"switching", "rolling_back"}
  /\ journal' = [journal EXCEPT ![c] = NoJournal]
  /\ worker' = [worker EXCEPT ![w].at = NULL]
  /\ UNCHANGED <<slot, receipt, record, current, previous, service, ran, lock>>

(* Both end by removing the journal.                                       *)
DropJournal(w, c) ==
  /\ Reconciling(w, c)
  /\ IsStaging(c) => slot[c] = (record[c] # "none")
  /\ IsSwitching(c) => current = journal[c].prev /\ record[c] \notin {"switching", "rolling_back"}
  /\ journal' = [journal EXCEPT ![c] = NoJournal]
  /\ worker' = [worker EXCEPT ![w].at = NULL]
  /\ UNCHANGED <<slot, receipt, record, current, previous, service, ran, lock>>

----------------------------------------------------------------------------
(* stage, in the order of its writes.                                      *)

(* A change that already has a slot or a record is refused.                *)
JournalStage(w) ==
  LET c == worker[w].change
  IN  /\ worker[w].pc = "staging"
      /\ \A d \in Changes : journal[d] = NoJournal
      /\ IF slot[c] \/ record[c] # "none"
         THEN Leave(w, "staging", "over") /\ UNCHANGED journal
         ELSE /\ Inside(w, "staging", "journaled")
              /\ journal' = [journal EXCEPT ![c] = Staging(FALSE)]
      /\ UNCHANGED <<slot, receipt, record, current, previous, service, ran>>

JournalPayload(w) ==
  /\ Inside(w, "journaled", "prepared")
  /\ journal' = [journal EXCEPT ![worker[w].change] = Staging(TRUE)]
  /\ UNCHANGED <<slot, receipt, record, current, previous, service, ran>>

PublishSlot(w) ==
  /\ Inside(w, "prepared", "published")
  /\ slot' = [slot EXCEPT ![worker[w].change] = TRUE]
  /\ UNCHANGED <<receipt, record, journal, current, previous, service, ran>>

RecordStaged(w) ==
  /\ Inside(w, "published", "recorded")
  /\ record' = [record EXCEPT ![worker[w].change] = "staged"]
  /\ UNCHANGED <<slot, receipt, journal, current, previous, service, ran>>

FinishStage(w) ==
  /\ Leave(w, "recorded", "staged")
  /\ journal' = [journal EXCEPT ![worker[w].change] = NoJournal]
  /\ UNCHANGED <<slot, receipt, record, current, previous, service, ran>>

(* An exception while staging: slot, record and journal go, in that order. *)
StageFails(w) ==
  /\ worker[w].pc \in {"journaled", "prepared", "published", "recorded"}
  /\ Goto(w, "cleaning")
  /\ UNCHANGED <<durable, service, ran, lock>>

CleanUp(w) ==
  LET c == worker[w].change
  IN  /\ worker[w].pc = "cleaning"
      /\ slot' = [slot EXCEPT ![c] = FALSE]
      /\ record' = [record EXCEPT ![c] = IF slot[c] THEN @ ELSE "none"]
      /\ IF slot[c] \/ record[c] # "none"
         THEN UNCHANGED <<journal, lock, worker>>
         ELSE journal' = [journal EXCEPT ![c] = NoJournal] /\ Leave(w, "cleaning", "over")
      /\ UNCHANGED <<receipt, current, previous, service, ran>>

----------------------------------------------------------------------------
(* preflight and transition(staged -> awaiting_confirmation).              *)

(* The static checks pass or fail; a failed receipt ends the command.      *)
Preflight(w) ==
  LET c == worker[w].change
  IN  /\ worker[w].pc = "staged" /\ record[c] = "staged"
      /\ \/ /\ Whole(w, "staged", "checked")
            /\ receipt' = [receipt EXCEPT ![c] = "passed"]
         \/ /\ Whole(w, "staged", "over")
            /\ receipt' = [receipt EXCEPT ![c] = "failed"]
      /\ UNCHANGED <<slot, record, journal, current, previous, service, ran>>

Confirm(w) ==
  LET c == worker[w].change
  IN  /\ worker[w].pc = "checked"
      /\ record[c] = "staged" /\ slot[c] /\ receipt[c] = "passed"
      /\ Whole(w, "checked", "confirmed")
      /\ record' = [record EXCEPT ![c] = "awaiting_confirmation"]
      /\ UNCHANGED <<slot, receipt, journal, current, previous, service, ran>>

----------------------------------------------------------------------------
(* activate_confirmed, in the order of its writes.                         *)

\* Mutant: the pointer is saved as it will be, not as it was.
SavePreviousLate(w) ==
  LET c == worker[w].change
  IN  /\ worker[w].pc = "confirmed" /\ lock = NULL
      /\ record[c] = "awaiting_confirmation" /\ slot[c] /\ receipt[c] = "passed"
      /\ previous' = c
      /\ worker' = [worker EXCEPT ![w].pc = "saved", ![w].prev = c]
      /\ lock' = w
      /\ UNCHANGED <<slot, receipt, record, journal, current, service, ran>>

SavePrevious(w) ==
  LET c == worker[w].change
  IN  /\ worker[w].pc = "confirmed" /\ lock = NULL
      /\ record[c] = "awaiting_confirmation" /\ slot[c] /\ receipt[c] = "passed"
      /\ previous' = current
      /\ worker' = [worker EXCEPT ![w].pc = "saved", ![w].prev = current]
      /\ lock' = w
      /\ UNCHANGED <<slot, receipt, record, journal, current, service, ran>>

\* Mutant: the switch is not journalled.
MarkSwitchingOnly(w) ==
  /\ Inside(w, "saved", "armed")
  /\ record' = [record EXCEPT ![worker[w].change] = "switching"]
  /\ UNCHANGED <<slot, receipt, journal, current, previous, service, ran>>

MarkSwitching(w) ==
  /\ Inside(w, "saved", "marked")
  /\ record' = [record EXCEPT ![worker[w].change] = "switching"]
  /\ UNCHANGED <<slot, receipt, journal, current, previous, service, ran>>

JournalSwitch(w) ==
  /\ Inside(w, "marked", "armed")
  /\ journal' = [journal EXCEPT ![worker[w].change] = Switching(worker[w].prev)]
  /\ UNCHANGED <<slot, receipt, record, current, previous, service, ran>>

SwitchPointer(w) ==
  /\ Leave(w, "armed", "switched")
  /\ current' = worker[w].change
  /\ UNCHANGED <<slot, receipt, record, journal, previous, service, ran>>

(* restart_service, outside the lock: it may report failure, and a service *)
(* it did start runs from the slot that is current now, or dies at once.   *)
Restart(w, from, to) ==
  /\ worker[w].pc = from
  /\ \E ok \in BOOLEAN, up \in {current, Down} \cup {service} :
       /\ ok => up \in {current, Down}
       /\ worker' = [worker EXCEPT ![w].pc = to, ![w].good = ok]
       /\ service' = up
       /\ ran' = ran \cup ({up} \cap Changes)
  /\ UNCHANGED <<durable, lock>>

RestartNew(w) == Restart(w, "switched", "restarted")
RestartOld(w) == Restart(w, "restored", "restoredUp")

\* Mutant: the service manager's word is enough.
JudgeRestartOnly(w) ==
  /\ worker[w].pc = "restarted"
  /\ Goto(w, "judged")
  /\ UNCHANGED <<durable, service, ran, lock>>

(* service_health_check compares the running source with the current       *)
(* pointer; the deadline may pass before it is seen healthy.               *)
Judge(w) ==
  /\ worker[w].pc = "restarted"
  /\ \E healthy \in BOOLEAN :
       /\ healthy => worker[w].good /\ current # NULL /\ service = current
       /\ worker' = [worker EXCEPT ![w].pc = "judged", ![w].good = healthy]
  /\ UNCHANGED <<durable, service, ran, lock>>

\* Mutant: the record is not compared before it is written.
SettleBlindly(w) ==
  LET c == worker[w].change
  IN  /\ \/ /\ worker[w].good
            /\ Enter(w, "judged", "accepted")
            /\ record' = [record EXCEPT ![c] = "healthy"]
         \/ /\ ~worker[w].good
            /\ Enter(w, "judged", "refused")
            /\ record' = [record EXCEPT ![c] = "rolling_back"]
      /\ UNCHANGED <<slot, receipt, journal, current, previous, service, ran>>

(* Back under the lock; a record that is no longer "switching" ends the    *)
(* command with a conflict.                                                *)
Settle(w) ==
  LET c == worker[w].change
  IN  /\ worker[w].pc = "judged"
      /\ \/ /\ record[c] = "switching" /\ worker[w].good
            /\ Enter(w, "judged", "accepted")
            /\ record' = [record EXCEPT ![c] = "healthy"]
         \/ /\ record[c] = "switching" /\ ~worker[w].good
            /\ Enter(w, "judged", "refused")
            /\ record' = [record EXCEPT ![c] = "rolling_back"]
         \/ /\ record[c] # "switching"
            /\ Whole(w, "judged", "over")
            /\ UNCHANGED record
      /\ UNCHANGED <<slot, receipt, journal, current, previous, service, ran>>

(* A healthy switch ends by removing its journal.                          *)
FinishSwitch(w) ==
  /\ Leave(w, "accepted", "over")
  /\ journal' = [journal EXCEPT ![worker[w].change] = NoJournal]
  /\ UNCHANGED <<slot, receipt, record, current, previous, service, ran>>

\* Mutant: the pointer stays.
RestorePointerNot(w) ==
  /\ Leave(w, "refused", "restored")
  /\ UNCHANGED <<durable, service, ran>>

(* Rollback: the pointer goes back to what previous-slot.json says now.    *)
RestorePointer(w) ==
  /\ Leave(w, "refused", "restored")
  /\ current' = previous
  /\ UNCHANGED <<slot, receipt, record, journal, previous, service, ran>>

\* Mutant: the outcome of the rollback is not written.
SettleRollbackUnwritten(w) ==
  /\ Enter(w, "restoredUp", "closing")
  /\ UNCHANGED <<durable, service, ran>>

SettleRollback(w) ==
  LET c == worker[w].change
  IN  /\ worker[w].pc = "restoredUp"
      /\ \/ /\ record[c] = "rolling_back"
            /\ Enter(w, "restoredUp", "closing")
            /\ record' = [record EXCEPT ![c] = IF worker[w].good THEN "rolled_back"
                                               ELSE "recovery_required"]
         \/ /\ record[c] # "rolling_back"
            /\ Whole(w, "restoredUp", "over")
            /\ UNCHANGED record
      /\ UNCHANGED <<slot, receipt, journal, current, previous, service, ran>>

FinishRollback(w) ==
  /\ Leave(w, "closing", "over")
  /\ journal' = [journal EXCEPT ![worker[w].change] = NoJournal]
  /\ UNCHANGED <<slot, receipt, record, current, previous, service, ran>>

----------------------------------------------------------------------------
(* The process is killed, or raises; the lock goes with it.                *)
Die(w) ==
  /\ Alive(w)
  /\ Goto(w, "dead")
  /\ lock' = IF lock = w THEN NULL ELSE lock
  /\ UNCHANGED <<durable, service, ran>>

Step(w) ==
  \/ Opened(w) \/ Stage(w)
  \/ \E c \in Changes :
       Mend(w, c) \/ RestoreJournalled(w, c) \/ MarkRecovery(w, c) \/ DropJournal(w, c)
  \/ JournalStage(w) \/ JournalPayload(w) \/ PublishSlot(w) \/ RecordStaged(w) \/ FinishStage(w)
  \/ StageFails(w) \/ CleanUp(w)
  \/ Preflight(w) \/ Confirm(w)
  \/ SavePrevious(w) \/ MarkSwitching(w) \/ JournalSwitch(w) \/ SwitchPointer(w)
  \/ RestartNew(w) \/ Judge(w) \/ Settle(w) \/ FinishSwitch(w)
  \/ RestorePointer(w) \/ RestartOld(w) \/ SettleRollback(w) \/ FinishRollback(w)

Next ==
  \/ \E w \in Workers, c \in Changes : Open(w, c)
  \/ \E w \in Workers : (Step(w) \/ Die(w)) /\ UNCHANGED overlap

Spec == Init /\ [][Next]_vars

(* A command that is not killed runs on; nobody has to start one.          *)
FairSpec == Spec /\ \A w \in Workers : WF_vars(Step(w) /\ UNCHANGED overlap)

----------------------------------------------------------------------------
(* Safety.                                                                 *)

(* The pointers, and the pointers a recovery or a rollback would restore,  *)
(* only ever name a complete slot that passed its checks and was confirmed:*)
(* the service is never sent to half a slot.                               *)
Restorable == {current, previous} \cup {journal[c].prev : c \in {d \in Changes : IsSwitching(d)}}

PointsToConfirmed ==
  \A c \in Restorable \ {NULL} :
    /\ slot[c] /\ receipt[c] = "passed"
    /\ record[c] \notin {"none", "staged", "awaiting_confirmation"}

(* Outside a stage in progress, or one the next Store will mend, a slot    *)
(* has a record and a record has a slot.                                   *)
NoOrphans == \A c \in Changes : IsStaging(c) \/ slot[c] = (record[c] # "none")

(* While the pointer names a slot that is not settled, the journal that    *)
(* undoes the switch is on disk.                                           *)
SwitchIsJournalled ==
  \A c \in Changes :
    current = c /\ record[c] \in {"switching", "rolling_back"} => IsSwitching(c)

(* Records move along _TRANSITIONS (and back to nothing when a stage is    *)
(* undone): a change is switched at most once, and a late verdict never    *)
(* overwrites what a recovery has settled.                                 *)
Transitions ==
  {<<"none", "staged">>, <<"staged", "none">>, <<"staged", "awaiting_confirmation">>,
   <<"awaiting_confirmation", "switching">>, <<"switching", "healthy">>,
   <<"switching", "rolling_back">>, <<"switching", "recovery_required">>,
   <<"rolling_back", "rolled_back">>, <<"rolling_back", "recovery_required">>}

OnlyTransitions ==
  [][\A c \in Changes : record'[c] = record[c] \/ <<record[c], record'[c]>> \in Transitions]_vars

(* While commands run one at a time, deaths included, a change that failed *)
(* is not the one the service is told to run.                              *)
FailedIsNotCurrent ==
  \A c \in Changes : record[c] \in {"rolled_back", "recovery_required"} =>
    current # c \/ overlap

(* While commands run one at a time, a change is called healthy only after *)
(* the service ran from its slot.                                          *)
HealthyRan == \A c \in Changes : record[c] = "healthy" => c \in ran \/ overlap

(* While commands run one at a time, a switch is atomic through crashes,   *)
(* recoveries and rollbacks: the slot the next recovery would leave the    *)
(* service with only ever changes to one that is healthy and has been run. *)
Effective ==
  IF \E c \in Changes : IsSwitching(c)
  THEN journal[CHOOSE c \in Changes : IsSwitching(c)].prev ELSE current

SwitchIsAtomic ==
  [][~overlap' /\ Effective' # Effective =>
       \E c \in ran : Effective' = c /\ record[c] = "healthy"]_vars

(* Liveness: a switch settles, unless a worker that had the change in hand *)
(* died.                                                                   *)
SwitchSettles ==
  \A c \in Changes :
    record[c] \in {"switching", "rolling_back"}
      ~> \/ record[c] \in {"healthy", "rolled_back", "recovery_required"}
         \/ \E w \in Workers : worker[w].pc = "dead" /\ worker[w].change = c

----------------------------------------------------------------------------
(* What the design document says and the code does not keep.               *)

(* "an interrupted switch is recovered to recovery_required the next time  *)
(* the Store opens"; read where commands run one at a time.                *)
OpenRecovers ==
  \A w \in Workers : worker[w].pc = "opened" /\ ~overlap =>
    \A c \in Changes : record[c] \notin {"switching", "rolling_back"}
============================================================================
