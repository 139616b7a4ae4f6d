------------------------ MODULE VSphereSession_proofs ------------------------
(***************************************************************************)
(* Proofs about VSphereSession, for every set of calls and keep-alives and *)
(* whatever vSphere does to any of them.                                   *)
(***************************************************************************)
EXTENDS VSphereSession, TLAPS

-----------------------------------------------------------------------------
(* Every state is well formed. *)

\* A session is known to vSphere, or was ended by it, only after its actor's Login
\* was answered.
NamedAfterLogin ==
    \A a \in Actors :
        pc[a] \in {"start", "logout", "login", "answer"} => a \notin live \cup lost

TypeInv == TypeOK /\ NamedAfterLogin

\* A step of NewVMWareClient or of the handler that follows it keeps TypeInv.
LEMMA CallType ==
    ASSUME TypeInv, NEW c \in Calls,
           \/ CheckSession(c) \/ Logout(c) \/ SendLogin(c) \/ AnswerLogin(c)
           \/ RetrieveProperties(c) \/ Work(c)
    PROVE  TypeInv'
<1> USE SessionAssumption
    DEF TypeInv, TypeOK, NamedAfterLogin, Actors, Sessions, Relogin, Over, Goes
<1>1. CASE CheckSession(c)
  BY <1>1 DEF CheckSession, Meets, MeetsLoggingIn, LoggingIn, AtWork
<1>2. CASE Logout(c)
  BY <1>2 DEF Logout
<1>3. CASE SendLogin(c)
  BY <1>3 DEF SendLogin
<1>4. CASE AnswerLogin(c)
  BY <1>4 DEF AnswerLogin, LoginSucceeds, LoginFails
<1>5. CASE RetrieveProperties(c) \/ Work(c)
  BY <1>5 DEF RetrieveProperties, Work, Request
<1>6. QED
  BY <1>1, <1>2, <1>3, <1>4, <1>5

\* So does a step of a keep-alive.
LEMMA KeepAliveType ==
    ASSUME TypeInv, NEW k \in Ticks, KeepAlive(k) \/ SendLogin(k) \/ Reauthenticate(k)
    PROVE  TypeInv'
<1> USE SessionAssumption
    DEF TypeInv, TypeOK, NamedAfterLogin, Actors, Sessions, Relogin, Over, Goes
<1>1. CASE KeepAlive(k)
  BY <1>1 DEF KeepAlive, Meets, MeetsLoggingIn, LoggingIn, AtWork
<1>2. CASE SendLogin(k)
  BY <1>2 DEF SendLogin
<1>3. CASE Reauthenticate(k)
  BY <1>3 DEF Reauthenticate, LoginSucceeds, LoginFails
<1>4. QED
  BY <1>1, <1>2, <1>3

LEMMA TypeInvariance == Spec => []TypeInv
<1>1. Init => TypeInv
  BY SessionAssumption
     DEF Init, TypeInv, TypeOK, NamedAfterLogin, Actors, Sessions, Relogin, Over
<1>2. TypeInv /\ [Next]_vars => TypeInv'
  <2> SUFFICES ASSUME TypeInv, [Next]_vars PROVE TypeInv'
    OBVIOUS
  <2>1. ASSUME NEW s \in Sessions, LoseSession(s) PROVE TypeInv'
    BY <2>1, SessionAssumption
       DEF LoseSession, TypeInv, TypeOK, NamedAfterLogin, Sessions, Relogin, Over, AtWork
  <2>2. CASE UNCHANGED vars
    BY <2>2 DEF vars, TypeInv, TypeOK, NamedAfterLogin, Actors, Sessions
  <2>3. QED
    BY <2>1, <2>2, CallType, KeepAliveType DEF Next
<1>3. QED
  BY <1>1, <1>2, PTL DEF Spec

\* Every reachable state is well formed; no session that vSphere has ended comes back.
THEOREM TypeCorrect == Spec => []TypeOK
<1>1. TypeInv => TypeOK
  BY DEF TypeInv
<1>2. QED
  BY <1>1, TypeInvariance, PTL

-----------------------------------------------------------------------------
(* Failures have a cause. *)

\* Who is at work, and was neither met by a log-in of another nor by the end of a
\* session, is the only one who logs in, and every step it has made holds: the
\* session it found or opened is alive, the cookie it logs in with is not.
Undisturbed(a) == a \notin Unlucky \cup disturbed

AloneInv ==
    \A a \in Actors : Undisturbed(a) =>
        /\ a \in AtWork => LoggingIn \subseteq {a}
        /\ pc[a] \in {"retrieve", "work"} => cookie \in live
        /\ pc[a] = "login" => cookie \notin live
        /\ pc[a] = "answer" => sent[a] \notin live
        /\ pc[a] \notin {"error", "died"}

\* A step outside of the log-in that changes neither session nor cookie.
LEMMA QuietStep ==
    ASSUME TypeInv, AloneInv, NEW a \in Actors,
           pc[a] \in {"start", "retrieve", "work"},
           pc' = [pc EXCEPT ![a] = pc'[a]], pc'[a] \in {"retrieve", "work", "done", "error"},
           UNCHANGED <<live, cookie, sent>>,
           disturbed \subseteq disturbed',
           Undisturbed(a)' => /\ LoggingIn = {}  \/ pc[a] # "start"
                              /\ pc'[a] \in {"retrieve", "work"} => cookie \in live
                              /\ pc'[a] # "error"
    PROVE  AloneInv'
BY SessionAssumption
   DEF TypeInv, TypeOK, AloneInv, Undisturbed, AtWork, LoggingIn, Relogin, Over, Actors

\* CheckSession or KeepAlive finds no session and begins to log in.
LEMMA BeginLogin ==
    ASSUME TypeInv, AloneInv, NEW a \in Actors, NEW to \in {"logout", "login"},
           Goes(a, "start", to), MeetsLoggingIn(a), cookie \notin live,
           UNCHANGED <<live, cookie, sent, lost>>
    PROVE  AloneInv'
BY DEF TypeInv, TypeOK, AloneInv, Undisturbed, AtWork, LoggingIn, Relogin, Over, Goes,
       MeetsLoggingIn

\* A step of a log-in under way: everybody else at work is disturbed.
LEMMA LoginStep ==
    ASSUME TypeInv, AloneInv, NEW a \in Actors, pc[a] \in Relogin,
           pc'[a] \in {"login", "answer", "retrieve", "done", "error"},
           \A b \in Actors \ {a} : pc'[b] = pc[b] /\ sent'[b] = sent[b],
           disturbed \subseteq disturbed',
           Undisturbed(a)' => /\ pc'[a] = "retrieve" => cookie' \in live'
                              /\ pc'[a] = "login" => cookie' \notin live'
                              /\ pc'[a] = "answer" => sent'[a] \notin live'
                              /\ pc'[a] # "error"
    PROVE  AloneInv'
BY DEF TypeInv, TypeOK, AloneInv, Undisturbed, AtWork, LoggingIn, Relogin, Over

\* No order of calls, keep-alives and lost sessions makes one fail that vSphere and the
\* other log-ins have left alone.
THEOREM OnlyForCause == Spec => []FailsForCause
<1>1. Init => AloneInv
  BY DEF Init, AloneInv, AtWork, LoggingIn, Over, Relogin
<1>2. TypeInv /\ AloneInv /\ [Next]_vars => AloneInv'
  <2> SUFFICES ASSUME TypeInv, AloneInv, [Next]_vars PROVE AloneInv'
    OBVIOUS
  <2> USE DEF Actors
  <2>1. ASSUME NEW c \in Calls, CheckSession(c) PROVE AloneInv'
    <3>1. CASE cookie \notin live /\ Goes(c, "start", "logout") /\ MeetsLoggingIn(c)
      BY <2>1, <3>1, BeginLogin DEF CheckSession
    <3>2. CASE /\ Meets(c)
               /\ \/ cookie \in live /\ Goes(c, "start", "retrieve")
                  \/ c \in Unlucky /\ Goes(c, "start", "error")
      BY <2>1, <3>2, QuietStep DEF CheckSession, Goes, Meets, Undisturbed, TypeInv, TypeOK
    <3>3. QED
      BY <2>1, <3>1, <3>2 DEF CheckSession
  <2>2. ASSUME NEW c \in Calls, Logout(c) PROVE AloneInv'
    BY <2>2, LoginStep DEF Logout, Goes, Relogin, Undisturbed, TypeInv, TypeOK
  <2>3. ASSUME NEW a \in Actors, SendLogin(a) PROVE AloneInv'
    <3>1. Undisturbed(a) => cookie \notin live
      BY <2>3 DEF SendLogin, Goes, AloneInv
    <3>2. QED
      BY <2>3, <3>1, LoginStep
         DEF SendLogin, Goes, Relogin, Undisturbed, TypeInv, TypeOK
  <2>4. ASSUME NEW c \in Calls, AnswerLogin(c) PROVE AloneInv'
    <3>1. pc[c] = "answer" /\ (Undisturbed(c) => sent[c] \notin live)
      BY <2>4 DEF AnswerLogin, LoginSucceeds, Goes, AloneInv
    <3>2. QED
      BY <2>4, <3>1, LoginStep
         DEF AnswerLogin, LoginSucceeds, LoginFails, Goes, Relogin, Undisturbed,
             TypeInv, TypeOK
  <2>5. ASSUME NEW c \in Calls, RetrieveProperties(c) \/ Work(c) PROVE AloneInv'
    <3>1. pc[c] \in {"retrieve", "work"} /\ (Undisturbed(c) => cookie \in live)
      BY <2>5 DEF RetrieveProperties, Work, Request, Goes, AloneInv
    <3>2. QED
      BY <2>5, <3>1, QuietStep
         DEF RetrieveProperties, Work, Request, Goes, Undisturbed, TypeInv, TypeOK
  <2>6. ASSUME NEW k \in Ticks, KeepAlive(k) PROVE AloneInv'
    <3>1. CASE cookie \notin live /\ Goes(k, "start", "login") /\ MeetsLoggingIn(k)
      BY <2>6, <3>1, BeginLogin DEF KeepAlive
    <3>2. CASE Goes(k, "start", "done") /\ Meets(k)
      BY <2>6, <3>2, QuietStep DEF KeepAlive, Goes, Meets, Undisturbed, TypeInv, TypeOK
    <3>3. QED
      BY <2>6, <3>1, <3>2 DEF KeepAlive
  <2>7. ASSUME NEW k \in Ticks, Reauthenticate(k) PROVE AloneInv'
    <3>1. pc[k] = "answer" /\ (Undisturbed(k) => sent[k] \notin live)
      BY <2>7 DEF Reauthenticate, LoginSucceeds, Goes, AloneInv
    <3>2. CASE LoginSucceeds(k, "done") /\ UNCHANGED disturbed
      BY <2>7, <3>1, <3>2, LoginStep
         DEF Reauthenticate, LoginSucceeds, Goes, Relogin, Undisturbed, TypeInv, TypeOK
    <3>3. CASE ~(LoginSucceeds(k, "done") /\ UNCHANGED disturbed)
      BY <2>7, <3>1, <3>3
         DEF Reauthenticate, LoginFails, AloneInv, Undisturbed, AtWork, LoggingIn, Over,
             Relogin
    <3>4. QED
      BY <3>2, <3>3
  <2>8. ASSUME NEW s \in Sessions, LoseSession(s) PROVE AloneInv'
    BY <2>8 DEF LoseSession, AloneInv, Undisturbed, AtWork, LoggingIn, Over, Relogin
  <2>9. CASE UNCHANGED vars
    BY <2>9 DEF vars, AloneInv, Undisturbed, AtWork, LoggingIn
  <2>10. QED
    BY <2>1, <2>2, <2>3, <2>4, <2>5, <2>6, <2>7, <2>8, <2>9 DEF Next
<1>3. AloneInv => FailsForCause
  BY DEF AloneInv, FailsForCause, Undisturbed
<1>4. QED
  BY <1>1, <1>2, <1>3, TypeInvariance, PTL DEF Spec

-----------------------------------------------------------------------------
(* The session is restored. *)

\* Who will give the client a session, or fail for cause: it has yet to send its
\* Login, or has sent it with a cookie of no session.
Restores(a) ==
    pc[a] \in {"logout", "login"} \/ (pc[a] = "answer" /\ sent[a] \notin live)

RestoreInv ==
    \/ cookie \in live \cup lost
    \/ \E a \in Actors : Restores(a)
    \/ \E a \in Unlucky : pc[a] = "error"
    \/ \E a \in Actors : pc[a] = "died"

\* When everybody is through who logs in again, the client has a session.
THEOREM Restored == Spec => []RestoredAtRest
<1>1. Init => RestoreInv
  BY DEF Init, RestoreInv
<1>2. TypeInv /\ RestoreInv /\ [Next]_vars => RestoreInv'
  <2> SUFFICES ASSUME TypeInv, RestoreInv, [Next]_vars PROVE RestoreInv'
    OBVIOUS
  <2> USE SessionAssumption DEF Actors, TypeInv, TypeOK, RestoreInv, Restores, Goes
  <2>1. ASSUME NEW c \in Calls, CheckSession(c) PROVE RestoreInv'
    BY <2>1 DEF CheckSession
  <2>2. ASSUME NEW c \in Calls, Logout(c) PROVE RestoreInv'
    BY <2>2 DEF Logout
  <2>3. ASSUME NEW a \in Actors, SendLogin(a) PROVE RestoreInv'
    BY <2>3 DEF SendLogin
  <2>4. ASSUME NEW c \in Calls, AnswerLogin(c) PROVE RestoreInv'
    BY <2>4 DEF AnswerLogin, LoginSucceeds, LoginFails
  <2>5. ASSUME NEW c \in Calls, RetrieveProperties(c) \/ Work(c) PROVE RestoreInv'
    BY <2>5 DEF RetrieveProperties, Work, Request
  <2>6. ASSUME NEW k \in Ticks, KeepAlive(k) PROVE RestoreInv'
    BY <2>6 DEF KeepAlive
  <2>7. ASSUME NEW k \in Ticks, Reauthenticate(k) PROVE RestoreInv'
    BY <2>7 DEF Reauthenticate, LoginSucceeds, LoginFails, Over
  <2>8. ASSUME NEW s \in Sessions, LoseSession(s) PROVE RestoreInv'
    BY <2>8 DEF LoseSession
  <2>9. CASE UNCHANGED vars
    BY <2>9 DEF vars
  <2>10. QED
    BY <2>1, <2>2, <2>3, <2>4, <2>5, <2>6, <2>7, <2>8, <2>9 DEF Next
<1>3. RestoreInv => RestoredAtRest
  BY DEF RestoreInv, Restores, RestoredAtRest, LoggingIn, Relogin
<1>4. QED
  BY <1>1, <1>2, <1>3, TypeInvariance, PTL DEF Spec
=============================================================================
