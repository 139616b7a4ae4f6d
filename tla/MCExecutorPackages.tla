------------------------- MODULE MCExecutorPackages -------------------------
(* Instances of ExecutorPackages for TLC. *)
EXTENDS ExecutorPackages, TLC

CONSTANTS c1, c2, c3, v1, v2, d1, d2

\* Two Creates on one machine and one on another, or one on each.
TwoAndOne   == [c \in {c1, c2, c3} |-> IF c = c3 THEN v2 ELSE v1]
TwoMachines == [c \in {c1, c2} |-> IF c = c1 THEN v1 ELSE v2]

\* Of TwoAndOne: the Creates on one machine may be exchanged, and the Deletes.
Interchangeable == Permutations({c1, c2}) \cup Permutations({d1, d2})
=============================================================================
