---------------------------- MODULE GuestAccess ----------------------------
(***************************************************************************)
(* What the executor's mutex distributor promises its callers: the calls   *)
(* that work inside a virtual machine's guest system do so one at a time   *)
(* for each virtual machine, while different machines are independent.     *)
(***************************************************************************)
CONSTANTS
    Calls,      \* the handler calls that may ask for a guest
    VmId        \* VmId[c]: the virtual machine call c works on

VARIABLE
    inGuest     \* the calls now working in a guest

Init == inGuest = {}

\* A call is let in when nobody works on its virtual machine.
Enter(c) ==
    /\ c \notin inGuest
    /\ \A d \in inGuest : VmId[d] # VmId[c]
    /\ inGuest' = inGuest \cup {c}

\* Calls leave, one when it is done, several when their process dies.
Leave(C) ==
    /\ C \in SUBSET inGuest
    /\ inGuest' = inGuest \ C

Next ==
    \/ \E c \in Calls : Enter(c)
    \/ \E C \in SUBSET Calls : Leave(C)

Spec == Init /\ [][Next]_inGuest
=============================================================================
