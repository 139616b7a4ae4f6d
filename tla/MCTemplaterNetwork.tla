------------------------- MODULE MCTemplaterNetwork -------------------------
(* Two calls for one package and one for another, both with networks. *)
EXTENDS TemplaterNetwork

CONSTANTS c1, c2, c3, t1, t2

TwoForOne == [c \in {c1, c2, c3} |-> IF c = c3 THEN t2 ELSE t1]
=============================================================================
