----------------------------- MODULE MCSwitcher -----------------------------
(* Two Creates and two Deletes of one segment, and a Delete of another. *)
EXTENDS Switcher

CONSTANTS c1, c2, d1, d2, d3

Segment == [c \in Creates \cup Deletes |-> IF c = d3 THEN "other" ELSE "switch"]
=============================================================================
