-------------------------- MODULE MCSessionQueue --------------------------
(* Small instances of SessionQueue.  Events are interchangeable within     *)
(* their kind: histories only compare them for equality.                   *)
EXTENDS SessionQueue, TLC

Interchange == Permutations(UserEvents) \cup Permutations(PushEvents)
============================================================================
