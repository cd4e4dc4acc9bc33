----------------------------- MODULE RunHistory -----------------------------
(***************************************************************************)
(* The history a board promises of its tasks' runs, with no claims, pids,  *)
(* sweeps or pointers.  A run is written when its task begins to run and   *)
(* stays: its task never changes, and once it has ended its end does not   *)
(* either.  A task that runs has a run that is open.  A task that stops    *)
(* may leave its run open for a while, at the latest until it runs again:  *)
(* no task ever has two.                                                   *)
(***************************************************************************)
EXTENDS Naturals, Sequences

CONSTANTS Tasks, Ends     \* "open" is one of the ends: there is none yet

VARIABLES
  history,    \* the runs, in the order they were written: task and end
  working     \* the tasks that run

Init == history = <<>> /\ working = {}

IsOpen(i) == history[i].end = "open"

(* The open runs of some tasks end, each task's in its own way.            *)
Closed(T, how) ==
  [i \in DOMAIN history |->
     IF history[i].task \in T /\ IsOpen(i) THEN [history[i] EXCEPT !.end = how[history[i].task]]
     ELSE history[i]]

Begin(t) ==
  /\ t \notin working
  /\ working' = working \cup {t}
  /\ history' = Append(Closed({t}, [u \in {t} |-> "reclaimed"]), [task |-> t, end |-> "open"])

Finish(T) ==
  /\ working' = working \ T
  /\ \E how \in [T -> Ends \ {"open"}] : history' = Closed(T, how)

(* A task that has no run at all gets one that is over, to say why.        *)
Note(t) ==
  /\ t \notin working
  /\ UNCHANGED working
  /\ \A i \in DOMAIN history : history[i].task = t => ~IsOpen(i)
  /\ \E end \in Ends \ {"open"} : history' = Append(history, [task |-> t, end |-> end])

Stop(t) ==
  /\ t \in working
  /\ working' = working \ {t}
  /\ UNCHANGED history

Next ==
  \/ \E T \in SUBSET Tasks : Finish(T)
  \/ \E t \in Tasks : Begin(t) \/ Note(t) \/ Stop(t)

Spec == Init /\ [][Next]_<<history, working>>
=============================================================================
