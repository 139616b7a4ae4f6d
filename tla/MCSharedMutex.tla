--------------------------- MODULE MCSharedMutex ---------------------------
(* Two goroutines of one executor and one of another, sharing one Redis. *)
EXTENDS SharedMutex

CONSTANTS g1, g2, g3, p1, p2

TwoAndOne == [g \in {g1, g2, g3} |-> IF g = g3 THEN p2 ELSE p1]
=============================================================================
