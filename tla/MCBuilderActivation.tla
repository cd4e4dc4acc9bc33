------------------------ MODULE MCBuilderActivation ------------------------
(* Small instances of BuilderActivation.  Changes and workers are          *)
(* interchangeable; where a liveness property is checked and TLC's         *)
(* symmetry may not be used, an order on them does the same.               *)
EXTENDS BuilderActivation, TLC

CONSTANTS c1, c2, w1, w2, w3

Interchange == Permutations(Changes) \cup Permutations(Workers)

Begun(w) == worker[w].pc # "idle"

(* Bound: three commands, at most two of them at a time.                   *)
InOrder ==
  /\ Begun(w2) => Begun(w1)
  /\ Begun(w3) => Begun(w2)
  /\ worker[w1].change # c2
  /\ \E w \in Workers : ~Alive(w)
============================================================================
