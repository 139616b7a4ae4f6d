------------------------------ MODULE Switcher ------------------------------
(***************************************************************************)
(* The switcher (switcher/switcher.go): Create puts a segment into NSX-T   *)
(* under a name made from exercise, deployment and switch, replacing one   *)
(* of that name; Delete reads the segment, deletes it by force and reads   *)
(* it again.  Calls run concurrently, those for one segment too, and       *)
(* nothing keeps them apart.                                               *)
(*                                                                         *)
(* A request to NSX may be answered with an error or get no response at    *)
(* all, and then NSX may carry it out all the same, at once or later.  A   *)
(* response that never came is nil; Delete's helpers read its status code  *)
(* nevertheless, and the panic ends the process with every call in it.     *)
(* The service is started again and takes the calls that come.             *)
(***************************************************************************)
CONSTANTS
    Creates,    \* Create calls
    Deletes,    \* Delete calls
    SegmentOf,  \* SegmentOf[c]: the identifier of the segment of call c
    Unlucky     \* the calls of which any request may fail

ASSUME SwitcherAssumption ==
    /\ Creates \cap Deletes = {}
    /\ Unlucky \subseteq Creates \cup Deletes

Calls == Creates \cup Deletes

VARIABLES
    hasClient,  \* the configuration was valid: createAPIClient made a client
    pc,         \* pc[c]: where call c is
    present,    \* the segments in NSX
    late,       \* the requests NSX has yet to carry out for calls that have ended
    effective,  \* history: the calls whose PUT or DELETE NSX has carried out
    recreated   \* history: the Deletes whose segment was put again after their DELETE

vars == <<hasClient, pc, present, late, effective, recreated>>

Waiting == {"zone", "put", "created", "check", "delete", "verify"}
Over    == {"done", "notFound", "failed", "died"}

\* A request is carried out once: none is late of a call that has had its effect.
TypeOK ==
    /\ hasClient \in BOOLEAN
    /\ pc \in [Calls -> {"idle"} \cup Waiting \cup Over]
    /\ present \subseteq {SegmentOf[c] : c \in Calls}
    /\ late \subseteq Calls \ effective
    /\ effective \subseteq Calls
    /\ recreated \subseteq Deletes \cap effective

Init ==
    /\ hasClient \in BOOLEAN
    /\ pc = [c \in Calls |-> "idle"]
    /\ present \in SUBSET {SegmentOf[c] : c \in Calls}
    /\ late = {}
    /\ effective = {}
    /\ recreated = {}

\* hasClient is set once, when the service starts.
Goes(c, from, to) ==
    /\ pc[c] = from
    /\ pc' = [pc EXCEPT ![c] = to]
    /\ UNCHANGED hasClient

InFlight == {c \in Calls : pc[c] \in Waiting}

NothingSent == UNCHANGED <<present, late, effective, recreated>>

\* NSX carries out the PUT or the DELETE of call c.
CarriedOut(c) ==
    /\ effective' = effective \cup {c}
    /\ IF c \in Creates
       THEN /\ present' = present \cup {SegmentOf[c]}
            /\ recreated' = recreated \cup
                  {d \in Deletes \cap effective : SegmentOf[d] = SegmentOf[c]}
       ELSE /\ present' = present \ {SegmentOf[c]}
            /\ UNCHANGED recreated

\* A request without effect on segments is answered with an error.
Refused(c, from) == c \in Unlucky /\ Goes(c, from, "failed") /\ NothingSent

\* The PUT or DELETE is answered with an error, or call c has stopped waiting for
\* it: NSX may still carry it out.
Uncertain(c, from) ==
    /\ c \in Unlucky
    /\ Goes(c, from, "failed")
    /\ late' \in {late, late \cup {c}}
    /\ UNCHANGED <<present, effective, recreated>>

\* The process ends under its calls; of those that had a PUT or a DELETE on the
\* way, NSX may still carry it out.
Panic ==
    /\ pc' = [c \in Calls |-> IF c \in InFlight THEN "died" ELSE pc[c]]
    /\ \E L \in SUBSET {c \in Calls : pc[c] \in {"put", "delete"}} : late' = late \cup L
    /\ UNCHANGED <<hasClient, present, effective, recreated>>

\* No response: httpResponse is nil, and its StatusCode is read all the same.
NoResponse(c, from) == pc[c] = from /\ c \in Unlucky /\ Panic

-----------------------------------------------------------------------------
Begin(c) ==
    /\ Goes(c, "idle", IF c \in Creates THEN "zone" ELSE "check")
    /\ NothingSent

\* Without a client the first request of a call is through a nil pointer.
NoClient(c) == ~hasClient /\ pc[c] \in {"zone", "check"} /\ Panic

\* getTransportZone: an error, or no zone of the configured name.
FindZone(c) ==
    /\ hasClient
    /\ \/ Goes(c, "zone", "put") /\ NothingSent
       \/ Refused(c, "zone")

\* Mutants of PutSegment: a request without response is sent again; its status
\* is read before its error.
PutRetrying(c) ==
    \/ Goes(c, "put", "created") /\ CarriedOut(c) /\ UNCHANGED late
    \/ c \in Unlucky /\ Goes(c, "put", "put") /\ late' = late \cup {c}
       /\ UNCHANGED <<present, effective, recreated>>

PutReadingStatus(c) ==
    \/ Goes(c, "put", "created") /\ CarriedOut(c) /\ UNCHANGED late
    \/ NoResponse(c, "put")

\* createNetworkSegment: CreateOrReplaceInfraSegment looks at the error first, so
\* that a missing response is an error like others.
PutSegment(c) ==
    \/ Goes(c, "put", "created") /\ CarriedOut(c) /\ UNCHANGED late
    \/ Uncertain(c, "put")

\* Create answers with the segment's identifier.
AnswerCreate(c) == Goes(c, "created", "done") /\ NothingSent

\* A mutant of Check: of an error nothing but "does not exist" is left.
CheckSwallowing(c) ==
    /\ hasClient
    /\ \/ SegmentOf[c] \in present /\ Goes(c, "check", "delete")
       \/ /\ SegmentOf[c] \notin present \/ c \in Unlucky
          /\ Goes(c, "check", "notFound")
    /\ NothingSent

\* segmentExists for the first time; a 404 is no error here.
Check(c) ==
    /\ hasClient
    /\ \/ /\ \/ SegmentOf[c] \in present /\ Goes(c, "check", "delete")
             \/ SegmentOf[c] \notin present /\ Goes(c, "check", "notFound")
          /\ NothingSent
       \/ Refused(c, "check")
       \/ NoResponse(c, "check")

\* Mutants of DeleteSegment: a 404 is an error; errors are left to the check
\* that follows.
DeleteFindingNothing(c) ==
    \/ /\ SegmentOf[c] \in present
       /\ Goes(c, "delete", "verify") /\ CarriedOut(c)
       /\ UNCHANGED late
    \/ SegmentOf[c] \notin present /\ Goes(c, "delete", "failed")
       /\ NothingSent
    \/ Uncertain(c, "delete")
    \/ NoResponse(c, "delete")

DeleteTrusting(c) ==
    \/ Goes(c, "delete", "verify") /\ CarriedOut(c) /\ UNCHANGED late
    \/ /\ c \in Unlucky
       /\ Goes(c, "delete", "verify")
       /\ late' \in {late, late \cup {c}}
       /\ UNCHANGED <<present, effective, recreated>>

\* deleteInfraSegment: a 404, when another Delete was faster, is no error, and
\* whether the status was 200 is not looked at.
DeleteSegment(c) ==
    \/ Goes(c, "delete", "verify") /\ CarriedOut(c) /\ UNCHANGED late
    \/ Uncertain(c, "delete")
    \/ NoResponse(c, "delete")

\* segmentExists again: "was not deleted", or the answer.
Verify(c) ==
    \/ /\ \/ SegmentOf[c] \notin present /\ Goes(c, "verify", "done")
          \/ SegmentOf[c] \in present /\ Goes(c, "verify", "failed")
       /\ NothingSent
    \/ Refused(c, "verify")
    \/ NoResponse(c, "verify")

\* NSX carries out a request whose call has ended.
CarryOutLate(c) ==
    /\ c \in late
    /\ late' = late \ {c}
    /\ CarriedOut(c)
    /\ UNCHANGED <<hasClient, pc>>

CreateStep(c) == NoClient(c) \/ FindZone(c) \/ PutSegment(c) \/ AnswerCreate(c)

DeleteStep(c) == NoClient(c) \/ Check(c) \/ DeleteSegment(c) \/ Verify(c)

Next ==
    \/ \E c \in Calls : Begin(c) \/ CarryOutLate(c)
    \/ \E c \in Creates : CreateStep(c)
    \/ \E c \in Deletes : DeleteStep(c)

Spec == Init /\ [][Next]_vars

-----------------------------------------------------------------------------
\* Deletes that race never make each other fail once they have found the segment:
\* a Delete of which NSX fails no request ends in an error only when the segment
\* was put again behind its DELETE (deleteAndVerifyInfraSegment).
DeleteFailsForCause ==
    \A d \in Deletes \ Unlucky : pc[d] = "failed" => d \in recreated

\* With a valid configuration the process dies of nothing but a Delete's request
\* that got no response; Creates never end it.
KilledByDelete ==
    hasClient /\ (\E c \in Calls : pc[c] = "died")
        => \E d \in Deletes \cap Unlucky : pc[d] = "died"

\* Each call takes effect at one moment, within the call if it was answered.
status == [c \in Calls |->
    CASE pc[c] = "idle"               -> "idle"
      [] pc[c] \in Waiting            -> "open"
      [] pc[c] = "done"               -> "done"
      [] pc[c] = "notFound"           -> "absent"
      [] pc[c] \in {"failed", "died"} -> "failed"]

Register == INSTANCE SegmentRegister

ImplementsRegister == Register!Spec
=============================================================================
