------------------------------ MODULE MCKanban ------------------------------
(* Small instances of Kanban.                                              *)
EXTENDS Kanban, TLC

CONSTANT MaxHappenings

(* Bound: runs, operators' moves and faults together; one more as long as  *)
(* only one task has been run.                                             *)
Happenings == Len(runs) + moves + faults

FewHappenings ==
  \/ Happenings <= MaxHappenings
  \/ Happenings = MaxHappenings + 1 /\ Cardinality({runs[r].task : r \in DOMAIN runs}) <= 1

Interchange == Permutations(Tasks)
=============================================================================
