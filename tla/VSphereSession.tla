--------------------------- MODULE VSphereSession ---------------------------
(***************************************************************************)
(* The vSphere session of a handler process (NewVMWareClient of            *)
(* library/vmware.go, CreateClient of library/configuration.go).  All      *)
(* calls of the process use one client, and so one session cookie.  A call *)
(* begins by asking whether the session is alive; if not, it logs out and  *)
(* in again.  A keep-alive does the same from time to time, without the    *)
(* log-out, and ends the process if it cannot log in.  Nothing keeps them  *)
(* apart.                                                                  *)
(*                                                                         *)
(* vSphere refuses the Login of a session that is logged in, and ends a    *)
(* session when it is restarted or the session was idle for long.  A       *)
(* session is named by who logged it in.                                   *)
(***************************************************************************)
CONSTANTS
    Calls,      \* calls of the process' handlers
    Ticks,      \* keep-alives
    Unlucky     \* the calls of which any request, the ticks whose Login may fail

First == "first"
Actors == Calls \cup Ticks

ASSUME SessionAssumption ==
    /\ Calls \cap Ticks = {}
    /\ First \notin Actors
    /\ Unlucky \subseteq Actors

VARIABLES
    pc,         \* pc[a]: where a call or a keep-alive is
    live,       \* the sessions that vSphere knows
    cookie,     \* the session of the process' client
    sent,       \* sent[a]: the cookie that a's Login is under way with
    lost,       \* history: the sessions that vSphere has ended of its own
    disturbed   \* history: who was at work when vSphere ended a session or
                \* while another logged in again

vars == <<pc, live, cookie, sent, lost, disturbed>>

Sessions == Actors \cup {First}
Relogin  == {"logout", "login", "answer"}
Over     == {"done", "error", "died"}

TypeOK ==
    /\ pc \in [Actors -> {"start", "retrieve", "work"} \cup Relogin \cup Over]
    /\ \A k \in Ticks : pc[k] \notin {"logout", "retrieve", "work", "error"}
    /\ live \subseteq Sessions \ lost
    /\ cookie \in Sessions
    /\ sent \in [Actors -> Sessions]
    /\ lost \subseteq Sessions
    /\ disturbed \subseteq Actors

\* CreateClient has logged in.
Init ==
    /\ pc = [a \in Actors |-> "start"]
    /\ live = {First}
    /\ cookie = First
    /\ sent = [a \in Actors |-> First]
    /\ lost = {}
    /\ disturbed = {}

LoggingIn == {a \in Actors : pc[a] \in Relogin}
AtWork    == {a \in Actors : pc[a] \notin {"start"} \cup Over}

Goes(a, from, to) == pc[a] = from /\ pc' = [pc EXCEPT ![a] = to]

\* History: a begins while others log in; it logs in while others are at work.
Meets(a) == disturbed' = IF LoggingIn = {} THEN disturbed ELSE disturbed \cup {a}

MeetsLoggingIn(a) ==
    disturbed' = disturbed \cup AtWork \cup (IF LoggingIn = {} THEN {} ELSE {a})

-----------------------------------------------------------------------------
\* A mutant of CheckSession: the session is taken to be there.
CheckNot(c) ==
    /\ Goes(c, "start", "retrieve") /\ Meets(c)
    /\ UNCHANGED <<live, cookie, sent, lost>>

\* UserSession: of a session that is not logged in it is nil, without an error.
CheckSession(c) ==
    /\ \/ cookie \in live /\ Goes(c, "start", "retrieve") /\ Meets(c)
       \/ cookie \notin live /\ Goes(c, "start", "logout") /\ MeetsLoggingIn(c)
       \/ c \in Unlucky /\ Goes(c, "start", "error") /\ Meets(c)
    /\ UNCHANGED <<live, cookie, sent, lost>>

\* client.Logout ends whatever session the client has by now; its error is dropped.
Logout(c) ==
    /\ Goes(c, "logout", "login")
    /\ \/ live' = live \ {cookie}
       \/ c \in Unlucky /\ UNCHANGED live
    /\ UNCHANGED <<cookie, sent, lost, disturbed>>

\* client.Login is on its way with the cookie of the moment.
SendLogin(a) ==
    /\ Goes(a, "login", "answer")
    /\ sent' = [sent EXCEPT ![a] = cookie]
    /\ UNCHANGED <<live, cookie, lost, disturbed>>

\* The Login of a succeeds and gives the client a new session, or fails.
LoginSucceeds(a, next) ==
    /\ sent[a] \notin live
    /\ Goes(a, "answer", next)
    /\ live' = live \cup {a}
    /\ cookie' = a

LoginFails(a) ==
    /\ UNCHANGED cookie
    /\ \/ sent[a] \in live /\ UNCHANGED live
       \/ a \in Unlucky /\ live' \in {live, live \cup {a}}

AnswerLogin(c) ==
    /\ \/ LoginSucceeds(c, "retrieve")
       \/ Goes(c, "answer", "error") /\ LoginFails(c)
    /\ sent' = [sent EXCEPT ![c] = First]
    /\ UNCHANGED <<lost, disturbed>>

\* A request of call c, which needs the session.
Request(c, from, next) ==
    /\ \/ cookie \in live /\ Goes(c, from, next)
       \/ /\ cookie \notin live \/ c \in Unlucky
          /\ Goes(c, from, "error")
    /\ UNCHANGED <<live, cookie, sent, lost, disturbed>>

\* The properties of the session manager, at the end of NewVMWareClient.
RetrieveProperties(c) == Request(c, "retrieve", "work")

\* A mutant of Work: a handler logs out when it is done.
WorkAndLogout(c) ==
    /\ Goes(c, "work", IF cookie \in live THEN "done" ELSE "error")
    /\ live' = live \ {cookie}
    /\ UNCHANGED <<cookie, sent, lost, disturbed>>

\* The handler's own requests.
Work(c) == Request(c, "work", "done")

\* Mutants of KeepAlive: it logs out first, as calls do; it logs in again after
\* any error.
KeepAliveLoggingOut(k) ==
    /\ \/ Goes(k, "start", "done") /\ Meets(k)
       \/ cookie \notin live /\ Goes(k, "start", "logout") /\ MeetsLoggingIn(k)
    /\ UNCHANGED <<live, cookie, sent, lost>>

KeepAliveAnyError(k) ==
    /\ \/ Goes(k, "start", "done") /\ Meets(k)
       \/ Goes(k, "start", "login") /\ MeetsLoggingIn(k)
    /\ UNCHANGED <<live, cookie, sent, lost>>

\* GetCurrentTime: only if it is told that it is not authenticated does the
\* keep-alive log in; other errors are logged.
KeepAlive(k) ==
    /\ \/ Goes(k, "start", "done") /\ Meets(k)
       \/ cookie \notin live /\ Goes(k, "start", "login") /\ MeetsLoggingIn(k)
    /\ UNCHANGED <<live, cookie, sent, lost>>

\* Its Login fails: log.Fatalf ends the process with every call in it.
Reauthenticate(k) ==
    /\ \/ LoginSucceeds(k, "done") /\ UNCHANGED disturbed
       \/ /\ pc[k] = "answer" /\ LoginFails(k)
          /\ pc' = [a \in Actors |-> IF pc[a] \in Over THEN pc[a] ELSE "died"]
          /\ disturbed' = disturbed \cup {a \in Actors \ {k} : pc[a] \notin Over}
    /\ sent' = [sent EXCEPT ![k] = First]
    /\ UNCHANGED lost

\* vSphere ends a session.
LoseSession(s) ==
    /\ s \in live
    /\ live' = live \ {s}
    /\ lost' = lost \cup {s}
    /\ disturbed' = disturbed \cup AtWork
    /\ UNCHANGED <<pc, cookie, sent>>

Next ==
    \/ \E c \in Calls :
          \/ CheckSession(c) \/ Logout(c) \/ SendLogin(c) \/ AnswerLogin(c)
          \/ RetrieveProperties(c) \/ Work(c)
    \/ \E k \in Ticks : KeepAlive(k) \/ SendLogin(k) \/ Reauthenticate(k)
    \/ \E s \in Sessions : LoseSession(s)

Spec == Init /\ [][Next]_vars

-----------------------------------------------------------------------------
\* A call fails, and a keep-alive ends the process, only when vSphere fails one of
\* its own requests or ends a session meanwhile, or when another logs in at the
\* same time: whatever state earlier ones have left the session in is recovered
\* from (NewVMWareClient, the keep-alive of CreateClient).
FailsForCause ==
    \A a \in Actors \ Unlucky : pc[a] \in {"error", "died"} => a \in disturbed

\* However calls and keep-alives cross that log in again, and whichever of them
\* fails over it, when they are through the client has a live session, unless
\* vSphere has ended that one or failed a request of theirs.
RestoredAtRest ==
    LoggingIn = {} /\ (\A a \in Actors : pc[a] # "died") =>
        \/ cookie \in live \cup lost
        \/ \E a \in Unlucky : pc[a] = "error"
=============================================================================
