--------------------------- MODULE MCDistillation ---------------------------
(* Small instances of Distillation.                                        *)
EXTENDS Distillation, TLC

(* Bound: the second session stays empty.                                  *)
OneSession == \A i \in DOMAIN rows : rows[i] = 1

Interchange == Permutations(Reviewers) \cup Permutations(Facts)
=============================================================================
