------------------------------- MODULE Inbox -------------------------------
(***************************************************************************)
(* What the queue of a session promises its events, with no slot, overflow *)
(* list, tasks or guard.  An event is taken in once; it waits, or has the  *)
(* turn at once when nobody has it; it has one turn, and the turn goes     *)
(* from one event to the next with nothing between.  An event that waits   *)
(* is given up only behind another one that waits, while a turn goes on.   *)
(***************************************************************************)
CONSTANT Events

VARIABLE phase    \* event -> "new", "waiting", "turn", "done" or "lost"

Init == phase = [e \in Events |-> "new"]

At(p) == {e \in Events : phase[e] = p}

Arrive(e) ==
  /\ phase[e] = "new"
  /\ \/ phase' = [phase EXCEPT ![e] = "waiting"]
     \/ At("turn") = {} /\ phase' = [phase EXCEPT ![e] = "turn"]

(* The event whose turn it was, if any, is done.                           *)
Serve(e) ==
  /\ phase[e] = "waiting"
  /\ phase' = [x \in Events |-> IF x = e THEN "turn"
                                ELSE IF x \in At("turn") THEN "done" ELSE phase[x]]

End(e) ==
  /\ phase[e] = "turn"
  /\ phase' = [phase EXCEPT ![e] = "done"]

GiveUp(e) ==
  /\ phase[e] = "waiting"
  /\ At("waiting") # {e} /\ At("turn") # {}
  /\ phase' = [phase EXCEPT ![e] = "lost"]

Next == \E e \in Events : Arrive(e) \/ Serve(e) \/ End(e) \/ GiveUp(e)

Spec == Init /\ [][Next]_phase
=============================================================================
