--------------------------- MODULE Switcher_proofs ---------------------------
(***************************************************************************)
(* Proofs about Switcher, for every set of calls and segments and whatever *)
(* NSX does with the requests of any of them.                              *)
(***************************************************************************)
EXTENDS Switcher, TLAPS

-----------------------------------------------------------------------------
(* Every state is well formed. *)

\* A call's PUT or DELETE has taken effect if the call has gone on from it; it can take
\* effect late only if the call has failed or died over it.
EffectInv ==
    \A c \in Calls :
        /\ pc[c] \in {"created", "verify", "done"} => c \in effective
        /\ pc[c] \in {"idle", "zone", "put", "check", "delete", "notFound"} =>
              c \notin effective
        /\ c \in late => pc[c] \in {"failed", "died"}

\* Creates and Deletes have steps of their own.
KindInv ==
    /\ \A c \in Creates : pc[c] \notin {"check", "delete", "verify", "notFound"}
    /\ \A d \in Deletes : pc[d] \notin {"zone", "put", "created"}

SwitcherInv == TypeOK /\ EffectInv /\ KindInv

\* The end of the process keeps it: who dies had not gone on from its request.
LEMMA PanicKeepsInv ==
    ASSUME SwitcherInv, Panic
    PROVE  SwitcherInv'
<1> USE DEF SwitcherInv, TypeOK, EffectInv, KindInv
<1>1. PICK L \in SUBSET {c \in Calls : pc[c] \in {"put", "delete"}} : late' = late \cup L
  BY DEF Panic
<1>2. /\ UNCHANGED <<hasClient, present, effective, recreated>>
      /\ pc' = [c \in Calls |-> IF c \in InFlight THEN "died" ELSE pc[c]]
  BY DEF Panic
<1>3. L \subseteq InFlight /\ L \cap effective = {}
  BY <1>1 DEF InFlight, Waiting
<1>4. TypeOK'
  BY <1>1, <1>2, <1>3 DEF Over
<1>5. EffectInv' /\ KindInv'
  BY <1>1, <1>2, <1>3, SwitcherAssumption DEF InFlight, Waiting, Calls
<1>6. QED
  BY <1>4, <1>5

\* So do the steps of a Create,
LEMMA CreateKeepsInv ==
    ASSUME SwitcherInv, NEW c \in Creates, CreateStep(c)
    PROVE  SwitcherInv'
<1> USE SwitcherAssumption
    DEF SwitcherInv, TypeOK, EffectInv, KindInv, Calls, Goes, NothingSent, Waiting, Over
<1>1. CASE NoClient(c)
  BY <1>1, PanicKeepsInv DEF NoClient
<1>2. CASE FindZone(c)
  BY <1>2 DEF FindZone, Refused
<1>3. CASE PutSegment(c)
  BY <1>3 DEF PutSegment, Uncertain, CarriedOut
<1>4. CASE AnswerCreate(c)
  BY <1>4 DEF AnswerCreate
<1>5. QED
  BY <1>1, <1>2, <1>3, <1>4 DEF CreateStep

\* those of a Delete,
LEMMA DeleteKeepsInv ==
    ASSUME SwitcherInv, NEW d \in Deletes, DeleteStep(d)
    PROVE  SwitcherInv'
<1> USE SwitcherAssumption
    DEF SwitcherInv, TypeOK, EffectInv, KindInv, Calls, Goes, NothingSent, Waiting, Over
<1>1. CASE NoClient(d) \/ \E from \in Waiting : NoResponse(d, from)
  BY <1>1, PanicKeepsInv DEF NoClient, NoResponse
<1>2. CASE Check(d) /\ ~NoResponse(d, "check")
  <2>1. /\ NothingSent /\ UNCHANGED hasClient /\ pc[d] = "check"
        /\ \E to \in {"delete", "notFound", "failed"} : pc' = [pc EXCEPT ![d] = to]
    BY <1>2 DEF Check, Refused
  <2>2. QED
    BY <2>1
<1>3. CASE DeleteSegment(d) /\ ~NoResponse(d, "delete")
  <2>1. CASE Goes(d, "delete", "verify") /\ CarriedOut(d) /\ UNCHANGED late
    BY <2>1 DEF CarriedOut
  <2>2. CASE Uncertain(d, "delete")
    BY <2>2 DEF Uncertain
  <2>3. QED
    BY <1>3, <2>1, <2>2 DEF DeleteSegment
<1>4. CASE Verify(d) /\ ~NoResponse(d, "verify")
  <2>1. /\ NothingSent /\ UNCHANGED hasClient /\ pc[d] = "verify"
        /\ \E to \in {"done", "failed"} : pc' = [pc EXCEPT ![d] = to]
    BY <1>4 DEF Verify, Refused
  <2>2. QED
    BY <2>1
<1>5. QED
  BY <1>1, <1>2, <1>3, <1>4 DEF DeleteStep

\* and the effects that come late.
LEMMA LateKeepsInv ==
    ASSUME SwitcherInv, NEW c \in Calls, CarryOutLate(c)
    PROVE  SwitcherInv'
<1> USE DEF SwitcherInv, TypeOK, EffectInv, KindInv, Calls
<1>1. QED
  BY SwitcherAssumption DEF CarryOutLate, CarriedOut

LEMMA Invariance == Spec => []SwitcherInv
<1>1. Init => SwitcherInv
  BY SwitcherAssumption
     DEF Init, SwitcherInv, TypeOK, EffectInv, KindInv, Calls
<1>2. SwitcherInv /\ [Next]_vars => SwitcherInv'
  <2> SUFFICES ASSUME SwitcherInv, [Next]_vars PROVE SwitcherInv'
    OBVIOUS
  <2>1. ASSUME NEW c \in Calls, Begin(c) PROVE SwitcherInv'
    BY <2>1, SwitcherAssumption
       DEF Begin, SwitcherInv, TypeOK, EffectInv, KindInv, Calls, Goes, NothingSent,
           Waiting, Over
  <2>2. CASE UNCHANGED vars
    BY <2>2 DEF vars, SwitcherInv, TypeOK, EffectInv, KindInv
  <2>3. QED
    BY <2>1, <2>2, CreateKeepsInv, DeleteKeepsInv, LateKeepsInv DEF Next
<1>3. QED
  BY <1>1, <1>2, PTL DEF Spec

\* Every reachable state is well formed; no request takes effect twice.
THEOREM TypeCorrect == Spec => []TypeOK
<1>1. SwitcherInv => TypeOK
  BY DEF SwitcherInv
<1>2. QED
  BY <1>1, Invariance, PTL

-----------------------------------------------------------------------------
(* Racing Deletes do not make each other fail. *)

\* A segment that is there after a Delete of it has taken effect was put again.
PutAgain ==
    \A d \in Deletes \cap effective : SegmentOf[d] \in present => d \in recreated

\* The last look of a Delete finds a segment that was put again.
DeleteInv == PutAgain /\ DeleteFailsForCause

\* An effect, in time or late, keeps PutAgain, and nothing leaves recreated.
LEMMA EffectKeepsPutAgain ==
    ASSUME SwitcherInv, PutAgain, NEW c \in Calls, CarriedOut(c)
    PROVE  PutAgain' /\ recreated \subseteq recreated'
<1>1. CASE c \in Creates
  BY <1>1, SwitcherAssumption DEF CarriedOut, PutAgain
<1>2. CASE c \in Deletes
  BY <1>2, SwitcherAssumption DEF CarriedOut, PutAgain
<1>3. QED
  BY <1>1, <1>2 DEF Calls

\* However many Deletes race over a segment, one of which NSX fails no request ends in an
\* error only if a Create put the segment again.
THEOREM DeletesDoNotCollide == Spec => []DeleteFailsForCause
<1>1. Init => DeleteInv
  BY DEF Init, DeleteInv, PutAgain, DeleteFailsForCause, Calls
<1>2. SwitcherInv /\ DeleteInv /\ [Next]_vars => DeleteInv'
  <2> SUFFICES ASSUME SwitcherInv, DeleteInv, [Next]_vars PROVE DeleteInv'
    OBVIOUS
  <2> USE SwitcherAssumption
      DEF DeleteInv, DeleteFailsForCause, SwitcherInv, TypeOK, Calls, Goes, NothingSent
  <2>1. ASSUME NEW c \in Calls, Begin(c) PROVE DeleteInv'
    BY <2>1 DEF Begin, PutAgain
  <2>2. ASSUME NEW c \in Calls, CarryOutLate(c) PROVE DeleteInv'
    BY <2>2, EffectKeepsPutAgain DEF CarryOutLate
  <2>3. CASE Panic
    BY <2>3 DEF Panic, PutAgain
  <2>4. ASSUME NEW c \in Creates, CreateStep(c), ~Panic PROVE DeleteInv'
    <3>1. CASE CarriedOut(c) /\ Goes(c, "put", "created")
      BY <3>1, EffectKeepsPutAgain
    <3>2. CASE UNCHANGED <<present, effective, recreated>>
      BY <2>4, <3>2
         DEF CreateStep, NoClient, FindZone, Refused, PutSegment, Uncertain, AnswerCreate,
             PutAgain
    <3>3. QED
      BY <2>4, <3>1, <3>2
         DEF CreateStep, NoClient, FindZone, Refused, PutSegment, Uncertain, AnswerCreate
  <2>5. ASSUME NEW d \in Deletes, Check(d), ~Panic PROVE DeleteInv'
    BY <2>5 DEF Check, Refused, NoResponse, PutAgain
  <2>6. ASSUME NEW d \in Deletes, DeleteSegment(d), ~Panic PROVE DeleteInv'
    <3>1. CASE CarriedOut(d) /\ Goes(d, "delete", "verify")
      BY <3>1, EffectKeepsPutAgain
    <3>2. CASE Uncertain(d, "delete")
      BY <3>2 DEF Uncertain, PutAgain
    <3>3. QED
      BY <2>6, <3>1, <3>2 DEF DeleteSegment, NoResponse
  <2>7. ASSUME NEW d \in Deletes, Verify(d), ~Panic PROVE DeleteInv'
    <3>1. pc[d] = "verify" /\ d \in effective
      BY <2>7 DEF Verify, Refused, NoResponse, EffectInv
    <3>2. QED
      BY <2>7, <3>1 DEF Verify, Refused, NoResponse, PutAgain
  <2>8. CASE UNCHANGED vars
    BY <2>8 DEF vars, PutAgain
  <2>9. QED
    BY <2>1, <2>2, <2>3, <2>4, <2>5, <2>6, <2>7, <2>8 DEF Next, DeleteStep, NoClient
<1>3. DeleteInv => DeleteFailsForCause
  BY DEF DeleteInv
<1>4. QED
  BY <1>1, <1>2, <1>3, Invariance, PTL DEF Spec

-----------------------------------------------------------------------------
(* What ends the process. *)

\* With a client nothing ends the process but a Delete's missing response.
THEOREM OnlyDeletesKill == Spec => []KilledByDelete
<1>1. Init => KilledByDelete
  BY DEF Init, KilledByDelete, Calls
<1>2. SwitcherInv /\ KilledByDelete /\ [Next]_vars => KilledByDelete'
  <2> SUFFICES ASSUME SwitcherInv, KilledByDelete, [Next]_vars PROVE KilledByDelete'
    OBVIOUS
  <2> USE SwitcherAssumption
      DEF KilledByDelete, SwitcherInv, TypeOK, Calls, Goes
  <2>1. ASSUME NEW c \in Calls, Begin(c) \/ CarryOutLate(c) PROVE KilledByDelete'
    BY <2>1 DEF Begin, CarryOutLate
  <2>2. ASSUME NEW c \in Calls, NoClient(c) PROVE KilledByDelete'
    BY <2>2 DEF NoClient, Panic
  <2>3. ASSUME NEW d \in Deletes, NEW from \in Waiting, NoResponse(d, from)
        PROVE  KilledByDelete'
    BY <2>3 DEF NoResponse, Panic, InFlight
  <2>4. ASSUME NEW c \in Creates, FindZone(c) \/ PutSegment(c) \/ AnswerCreate(c)
        PROVE  KilledByDelete'
    BY <2>4 DEF FindZone, Refused, PutSegment, Uncertain, AnswerCreate
  <2>5. ASSUME NEW d \in Deletes, Check(d) \/ DeleteSegment(d) \/ Verify(d),
               \A from \in Waiting : ~NoResponse(d, from)
        PROVE  KilledByDelete'
    BY <2>5 DEF Check, DeleteSegment, Verify, Refused, Uncertain, Waiting
  <2>6. CASE UNCHANGED vars
    BY <2>6 DEF vars
  <2>7. QED
    BY <2>1, <2>2, <2>3, <2>4, <2>5, <2>6 DEF Next, CreateStep, DeleteStep
<1>3. QED
  BY <1>1, <1>2, Invariance, PTL DEF Spec

-----------------------------------------------------------------------------
(* The switcher implements SegmentRegister. *)

\* What the client of a call at place p knows: the cases of status.
Told(p) ==
    CASE p = "idle"               -> "idle"
      [] p \in Waiting            -> "open"
      [] p = "done"               -> "done"
      [] p = "notFound"           -> "absent"
      [] p \in {"failed", "died"} -> "failed"

LEMMA ToldAtPlaces ==
    /\ Told("idle") = "idle" /\ Told("done") = "done" /\ Told("notFound") = "absent"
    /\ Told("failed") = "failed" /\ Told("died") = "failed"
    /\ \A p \in Waiting : Told(p) = "open"
<1>1. /\ Told("idle") = "idle" /\ Told("done") = "done" /\ Told("notFound") = "absent"
      /\ Told("failed") = "failed" /\ Told("died") = "failed"
  BY DEF Told, Waiting
<1>2. ASSUME NEW p \in Waiting PROVE Told(p) = "open"
  <2>1. p \notin {"idle", "done", "notFound", "failed", "died"}
    BY DEF Waiting
  <2>2. QED
    BY <2>1 DEF Told
<1>3. QED
  BY <1>1, <1>2

LEMMA StatusIsTold ==
    /\ status = [c \in Calls |-> Told(pc[c])]
    /\ status' = [c \in Calls |-> Told(pc'[c])]
BY DEF status, Told

\* What a step of one call does to what its client knows.
LEMMA StatusOfStep ==
    ASSUME SwitcherInv, NEW c \in Calls, NEW from, NEW to, Goes(c, from, to)
    PROVE  status[c] = Told(from) /\ status' = [status EXCEPT ![c] = Told(to)]
  BY StatusIsTold DEF Goes, SwitcherInv, TypeOK

\* A step that leaves pc alone, or moves a call within those under way, is not seen.
LEMMA StatusStays ==
    ASSUME SwitcherInv,
           \/ UNCHANGED pc
           \/ \E c \in Calls, from \in Waiting, to \in Waiting : Goes(c, from, to)
    PROVE  UNCHANGED status
<1>1. CASE UNCHANGED pc
  BY <1>1, StatusIsTold
<1>2. ASSUME NEW c \in Calls, NEW from \in Waiting, NEW to \in Waiting, Goes(c, from, to)
      PROVE  UNCHANGED status
  <2>1. status[c] = "open" /\ status' = [status EXCEPT ![c] = "open"]
    BY <1>2, StatusOfStep, ToldAtPlaces
  <2>2. QED
    BY <2>1, StatusIsTold
<1>3. QED
  BY <1>1, <1>2

\* A call that fails on its own changes nothing else that a client can tell.
LEMMA FailingStep ==
    ASSUME SwitcherInv, NEW c \in Calls, NEW from \in Waiting,
           Goes(c, from, "failed"), UNCHANGED <<present, effective>>
    PROVE  Register!Next
<1>1. status[c] = "open" /\ status' = [status EXCEPT ![c] = "failed"]
  BY StatusOfStep, ToldAtPlaces
<1>2. status' = [d \in Calls |-> IF d \in {c} THEN "failed" ELSE status[d]]
  BY <1>1, StatusIsTold
<1>3. Register!Fail({c})
  BY <1>1, <1>2 DEF Register!Fail, Register!Calls, Calls
<1>4. {c} \in SUBSET Calls
  OBVIOUS
<1>5. QED
  BY <1>3, <1>4 DEF Register!Next, Register!Calls, Calls

\* The end of the process is the failure of all calls under way.
LEMMA PanicFailsAll ==
    ASSUME SwitcherInv, Panic
    PROVE  Register!Next
<1>1. /\ pc' = [c \in Calls |-> IF c \in InFlight THEN "died" ELSE pc[c]]
      /\ UNCHANGED <<present, effective>>
  BY DEF Panic
<1>2. \A c \in InFlight : status[c] = "open"
  BY StatusIsTold, ToldAtPlaces DEF InFlight
<1>3. status' = [c \in Calls |-> IF c \in InFlight THEN "failed" ELSE status[c]]
  <2>1. \A c \in Calls : Told(pc'[c]) = IF c \in InFlight THEN "failed" ELSE Told(pc[c])
    BY <1>1, ToldAtPlaces
  <2>2. QED
    BY <2>1, StatusIsTold
<1>4. Register!Fail(InFlight) /\ InFlight \in SUBSET Calls
  BY <1>1, <1>2, <1>3 DEF Register!Fail, Register!Calls, Calls, InFlight
<1>5. QED
  BY <1>4 DEF Register!Next, Register!Calls, Calls

\* A PUT or DELETE that NSX carries out, in time or late, is the moment of effect.
LEMMA EffectIsMoment ==
    ASSUME SwitcherInv, NEW c \in Calls, CarriedOut(c), UNCHANGED status,
           status[c] \in {"open", "failed"}, c \notin effective
    PROVE  Register!Next
<1>1. Register!TakeEffect(c)
  BY SwitcherAssumption DEF Register!TakeEffect, CarriedOut, Calls
<1>2. QED
  BY <1>1 DEF Register!Next, Register!Calls, Calls

\* Steps between one request and the next are not seen.
LEMMA UnseenStep ==
    ASSUME SwitcherInv, NEW c \in Calls, NEW from \in Waiting, NEW to \in Waiting,
           Goes(c, from, to), UNCHANGED <<present, effective>>
    PROVE  UNCHANGED Register!vars
  BY StatusStays DEF Register!vars

\* A call that is answered well has taken effect before.
LEMMA AnsweringStep ==
    ASSUME SwitcherInv, NEW c \in Calls, NEW from \in {"created", "verify"},
           Goes(c, from, "done"), UNCHANGED <<present, effective>>
    PROVE  Register!Next
<1>1. status[c] = "open" /\ status' = [status EXCEPT ![c] = "done"]
  BY StatusOfStep, ToldAtPlaces DEF Waiting
<1>2. c \in effective
  BY DEF SwitcherInv, EffectInv, Goes
<1>3. Register!Answer(c)
  BY <1>1, <1>2 DEF Register!Answer
<1>4. QED
  BY <1>3 DEF Register!Next, Register!Calls, Calls

LEMMA CreateImplements ==
    ASSUME SwitcherInv, NEW c \in Creates, CreateStep(c)
    PROVE  [Register!Next]_Register!vars
<1> USE DEF Calls, NothingSent
<1>1. CASE NoClient(c)
  BY <1>1, PanicFailsAll DEF NoClient
<1>2. CASE FindZone(c)
  BY <1>2, UnseenStep, FailingStep DEF FindZone, Refused, Waiting
<1>3. CASE PutSegment(c)
  <2>1. CASE Goes(c, "put", "created") /\ CarriedOut(c)
    <3>1. status[c] = "open"
      BY <2>1, StatusOfStep, ToldAtPlaces DEF Waiting
    <3>2. UNCHANGED status
      BY <2>1, StatusStays DEF Waiting
    <3>3. c \notin effective
      BY <2>1 DEF Goes, SwitcherInv, EffectInv
    <3>4. QED
      BY <2>1, <3>1, <3>2, <3>3, EffectIsMoment
  <2>2. CASE Uncertain(c, "put")
    BY <2>2, FailingStep DEF Uncertain, Waiting
  <2>3. QED
    BY <1>3, <2>1, <2>2 DEF PutSegment
<1>4. CASE AnswerCreate(c)
  BY <1>4, AnsweringStep DEF AnswerCreate
<1>5. QED
  BY <1>1, <1>2, <1>3, <1>4 DEF CreateStep

LEMMA DeleteImplements ==
    ASSUME SwitcherInv, NEW d \in Deletes, DeleteStep(d)
    PROVE  [Register!Next]_Register!vars
<1> USE DEF Calls, NothingSent
<1>1. CASE Panic
  BY <1>1, PanicFailsAll
<1>2. CASE Check(d) /\ ~Panic
  <2>1. CASE SegmentOf[d] \notin present /\ Goes(d, "check", "notFound") /\ NothingSent
    <3>1. status[d] = "open" /\ status' = [status EXCEPT ![d] = "absent"]
      BY <2>1, StatusOfStep, ToldAtPlaces DEF Waiting
    <3>2. d \notin effective
      BY <2>1 DEF Goes, SwitcherInv, EffectInv
    <3>3. Register!NotFound(d)
      BY <2>1, <3>1, <3>2 DEF Register!NotFound
    <3>4. QED
      BY <3>3 DEF Register!Next, Register!Calls
  <2>2. QED
    BY <1>2, <2>1, UnseenStep, FailingStep DEF Check, Refused, NoResponse, Waiting
<1>3. CASE DeleteSegment(d) /\ ~Panic
  <2>1. CASE Goes(d, "delete", "verify") /\ CarriedOut(d)
    <3>1. status[d] = "open"
      BY <2>1, StatusOfStep, ToldAtPlaces DEF Waiting
    <3>2. UNCHANGED status
      BY <2>1, StatusStays DEF Waiting
    <3>3. d \notin effective
      BY <2>1 DEF Goes, SwitcherInv, EffectInv
    <3>4. QED
      BY <2>1, <3>1, <3>2, <3>3, EffectIsMoment
  <2>2. QED
    BY <1>3, <2>1, FailingStep DEF DeleteSegment, Uncertain, NoResponse, Waiting
<1>4. CASE Verify(d) /\ ~Panic
  BY <1>4, AnsweringStep, FailingStep DEF Verify, Refused, NoResponse, Waiting
<1>5. QED
  BY <1>1, <1>2, <1>3, <1>4 DEF DeleteStep, NoClient

\* Each call of the switcher takes effect at one moment, as SegmentRegister promises.
THEOREM Implementation == Spec => ImplementsRegister
<1>1. Init => Register!Init
  BY StatusIsTold, ToldAtPlaces DEF Init, Register!Init, Register!Calls, Calls
<1>2. SwitcherInv /\ [Next]_vars => [Register!Next]_Register!vars
  <2> SUFFICES ASSUME SwitcherInv, [Next]_vars PROVE [Register!Next]_Register!vars
    OBVIOUS
  <2>1. ASSUME NEW c \in Calls, Begin(c) PROVE Register!Next
    <3>1. PICK to \in {"zone", "check"} : Goes(c, "idle", to)
      BY <2>1 DEF Begin
    <3>2. status[c] = "idle" /\ status' = [status EXCEPT ![c] = "open"]
      BY <3>1, StatusOfStep, ToldAtPlaces DEF Waiting
    <3>3. Register!Invoke(c)
      BY <2>1, <3>2 DEF Register!Invoke, Begin, NothingSent
    <3>4. QED
      BY <3>3 DEF Register!Next, Register!Calls, Calls
  <2>2. ASSUME NEW c \in Calls, CarryOutLate(c) PROVE Register!Next
    <3>1. status[c] = "failed" /\ c \notin effective
      BY <2>2, StatusIsTold, ToldAtPlaces DEF CarryOutLate, SwitcherInv, TypeOK, EffectInv
    <3>2. CarriedOut(c) /\ UNCHANGED status
      BY <2>2, StatusStays DEF CarryOutLate
    <3>3. QED
      BY <3>1, <3>2, EffectIsMoment
  <2>3. CASE UNCHANGED vars
    BY <2>3, StatusStays DEF vars, Register!vars
  <2>4. QED
    BY <2>1, <2>2, <2>3, CreateImplements, DeleteImplements DEF Next
<1>3. QED
  BY <1>1, <1>2, Invariance, PTL DEF Spec, ImplementsRegister, Register!Spec
=============================================================================
