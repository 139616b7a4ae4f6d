----------------------------- MODULE MCMachiner -----------------------------
(* Creates of one exercise: c1 and c2 for one path, c3 for another deployment. *)
EXTENDS Machiner

CONSTANTS c1, c2, c3, r1, r2

OneExercise    == [c \in Calls |-> "exercise"]
TwoDeployments == [c \in Calls |-> IF c = c3 THEN "deployment 2" ELSE "deployment 1"]
OneName        == [c \in Calls |-> "vm"]
=============================================================================
