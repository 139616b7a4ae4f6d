------------------------ MODULE MCMutexDistributor ------------------------
(* Instances of MutexDistributor for TLC. *)
EXTENDS MutexDistributor

CONSTANTS c1, c2, c3, c4, x1, x2, v1, v2, a1, a2, a3

\* One executor and one machine: c1, the Stream of a condition, and c2, its Delete,
\* share an action, c3 and c4 have their own.
OneHost   == [c \in {c1, c2, c3, c4} |-> x1]
SameVm1   == [c \in {c1, c2, c3, c4} |-> v1]
Condition == [c \in {c1, c2, c3, c4} |->
                CASE c = c3 -> a2 [] c = c4 -> a3 [] OTHER -> a1]

\* Two executors on one machine; c1 and c2 run the same action on x1, c3 runs
\* another one there, c4 runs on x2.
TwoHosts  == [c \in {c1, c2, c3, c4} |-> IF c = c4 THEN x2 ELSE x1]
OneShared == [c \in {c1, c2, c3, c4} |-> IF c = c3 THEN a2 ELSE a1]
=============================================================================
