--------------------------- MODULE SegmentRegister ---------------------------
(***************************************************************************)
(* What the switcher promises about segments: each call takes effect at    *)
(* one moment, once at most.  A call answered well has taken effect        *)
(* between its invocation and its answer; a Delete answered with "not      *)
(* found" never does, and the segment was missing at some moment of the    *)
(* call; of a call answered with another error, or not answered at all, a  *)
(* client cannot tell whether and when it will.                            *)
(***************************************************************************)
CONSTANTS
    Creates,    \* calls that put a segment
    Deletes,    \* calls that remove one
    SegmentOf   \* SegmentOf[c]: the segment call c is about

Calls == Creates \cup Deletes

VARIABLES
    present,    \* the segments there are
    status,     \* status[c]: what the client of call c knows
    effective   \* the calls that have taken effect

vars == <<present, status, effective>>

StatusValues == {"idle", "open", "done", "absent", "failed"}

Init ==
    /\ present \subseteq {SegmentOf[c] : c \in Calls}
    /\ status = [c \in Calls |-> "idle"]
    /\ effective = {}

Invoke(c) ==
    /\ status[c] = "idle"
    /\ status' = [status EXCEPT ![c] = "open"]
    /\ UNCHANGED <<present, effective>>

TakeEffect(c) ==
    /\ status[c] \in {"open", "failed"}
    /\ c \notin effective
    /\ effective' = effective \cup {c}
    /\ present' = IF c \in Creates THEN present \cup {SegmentOf[c]}
                                   ELSE present \ {SegmentOf[c]}
    /\ UNCHANGED status

Answer(c) ==
    /\ status[c] = "open"
    /\ c \in effective
    /\ status' = [status EXCEPT ![c] = "done"]
    /\ UNCHANGED <<present, effective>>

NotFound(c) ==
    /\ status[c] = "open"
    /\ c \in Deletes \ effective
    /\ SegmentOf[c] \notin present
    /\ status' = [status EXCEPT ![c] = "absent"]
    /\ UNCHANGED <<present, effective>>

\* One call fails, or all that are open at once.
Fail(C) ==
    /\ \A c \in C : status[c] = "open"
    /\ status' = [c \in Calls |-> IF c \in C THEN "failed" ELSE status[c]]
    /\ UNCHANGED <<present, effective>>

Next ==
    \/ \E c \in Calls : Invoke(c) \/ TakeEffect(c) \/ Answer(c) \/ NotFound(c)
    \/ \E C \in SUBSET Calls : Fail(C)

Spec == Init /\ [][Next]_vars
=============================================================================
