-------------------------- MODULE MutexDistributor --------------------------
(***************************************************************************)
(* The executor's mutex distributor (library/mutex_distributor.go).        *)
(*                                                                         *)
(* Every executor handler that touches a guest system takes a Mutex for    *)
(* its virtual machine.  Lock puts the call into two in-memory queues of   *)
(* its own process, waits until the call's action is at the front of its   *)
(* machine's queue, and then takes a redsync lock on the machine in Redis: *)
(* a lease, kept for eight seconds and never extended.  Unlock gives the   *)
(* lease back and then, as a separate step, leaves the queues.             *)
(*                                                                         *)
(* A call is one handler goroutine.  A section of the code between         *)
(* QueueMutex.Lock and QueueMutex.Unlock is one step: it is that as long   *)
(* as no Lock of QueueMutex gives up and its key does not run out in a     *)
(* section, which module SharedMutex is about.                             *)
(***************************************************************************)
EXTENDS Naturals, Sequences, FiniteSets

CONSTANTS
    Executors,      \* executor processes that share one Redis
    Vms,            \* virtual machines
    Actions,        \* action identifiers (feature, inject, condition names)
    Calls,          \* handler calls
    Streams,        \* the calls that are condition Streams: they lock again and again
    Host,           \* Host[c]: the executor that runs c
    VmId,           \* VmId[c]: its virtual machine
    ActionId,       \* ActionId[c]: its action identifier
    Long,           \* the calls whose work in the guest may outlast a lease,
                    \* or never end
    MaxConnections, \* the configured max_connections
    Faults          \* the failures the environment may inject

NoCall == "none"

\* "queue"  : HLen in addToQueue may fail
\* "lock"   : HExists or redsync's Lock may fail, other than "lock already taken"
\* "unlock" : the Redis calls of Unlock may fail
\* "crash"  : an executor may die and be restarted by systemd
FaultKinds == {"queue", "lock", "unlock", "crash"}

ASSUME ConstantsAssumption ==
    /\ Streams \subseteq Calls /\ Long \subseteq Calls
    /\ Host \in [Calls -> Executors]
    /\ VmId \in [Calls -> Vms]
    /\ ActionId \in [Calls -> Actions]
    /\ MaxConnections \in Nat \ {0}
    /\ Faults \subseteq FaultKinds
    /\ NoCall \notin Calls

VARIABLES
    pc,             \* pc[c]: where call c is
    vmQueue,        \* vmQueue[e][v]: MutexDistributor.VmQueue, a queue of calls
    actionQueue,    \* actionQueue[e][<<v, a>>]: how many entries the heap
                    \* ActionQueue has for the pair; nothing reads its order
    lease,          \* lease[v]: the call whose value the redsync key of v holds
    dropped         \* history: the calls whose last addToQueue failed

vars == <<pc, vmQueue, actionQueue, lease, dropped>>

Idle      == "idle"       \* not in the distributor (a Stream also between rounds)
Queued    == "queued"     \* in waitUntilFrontOfQueue
Locking   == "locking"    \* in Lock's loop, past the queue
Guest     == "guest"      \* Lock returned nil: the handler works in the guest
Leaving   == "leaving"    \* in Unlock, after redsync's Unlock
Done      == "done"       \* the handler returned
Abandoned == "abandoned"  \* Lock returned an error: the handler returned
Dead      == "dead"       \* the executor died under the call

PcValues == {Idle, Queued, Locking, Guest, Leaving, Done, Abandoned, Dead}

TypeOK ==
    /\ pc \in [Calls -> PcValues]
    /\ vmQueue \in [Executors -> [Vms -> Seq(Calls)]]
    /\ actionQueue \in [Executors -> [Vms \X Actions -> Nat]]
    /\ lease \in [Vms -> Calls \cup {NoCall}]
    /\ dropped \subseteq Calls

-----------------------------------------------------------------------------
\* The queue call c waits in, and its entry in the heap.
QueueOf(c) == vmQueue[Host[c]][VmId[c]]
KeyOf(c)   == <<VmId[c], ActionId[c]>>

\* A mutant of AtFront: the whole queue is searched for the action.
AnywhereInQueue(c) == QueueOf(c) # << >> =>
    \E i \in 1..Len(QueueOf(c)) : ActionId[QueueOf(c)[i]] = ActionId[c]

\* waitUntilFrontOfQueue's test: it compares action identifiers, not calls,
\* and an empty queue lets everybody pass.
AtFront(c) == QueueOf(c) # << >> => ActionId[Head(QueueOf(c))] = ActionId[c]

\* The place of the first entry of queue q with action a: a singleton or empty.
FirstWith(q, a) ==
    {i \in 1..Len(q) : ActionId[q[i]] = a /\ \A j \in 1..(i-1) : ActionId[q[j]] # a}

\* A mutant of WithoutFirst: whoever leaves takes out the front.
WithoutFront(q, a) == IF q = << >> THEN q ELSE Tail(q)

\* That entry taken out of the queue (the second loop of Unlock).
WithoutFirst(q, a) ==
    IF FirstWith(q, a) = {}
    THEN q
    ELSE LET i == CHOOSE i \in FirstWith(q, a) : TRUE
         IN  SubSeq(q, 1, i-1) \o SubSeq(q, i+1, Len(q))

\* HLen of the hash named Id, which limits the connections: NewMutexDistributor
\* deletes the hash and no code writes a field of it.
Connections == 0

\* HExists of the lock's name in the same hash.
LockExistsInPool(c) == FALSE

Moves(c, from, to) == pc[c] = from /\ pc' = [pc EXCEPT ![c] = to]

-----------------------------------------------------------------------------
Init ==
    /\ pc = [c \in Calls |-> Idle]
    /\ vmQueue = [e \in Executors |-> [v \in Vms |-> << >>]]
    /\ actionQueue = [e \in Executors |-> [k \in Vms \X Actions |-> 0]]
    /\ lease = [v \in Vms |-> NoCall]
    /\ dropped = {}

\* A mutant of AddToQueue: the new entry goes to the front.
AddToQueueFront(c) ==
    /\ Connections < MaxConnections
    /\ Moves(c, Idle, Queued)
    /\ vmQueue' = [vmQueue EXCEPT ![Host[c]][VmId[c]] = <<c>> \o @]
    /\ actionQueue' = [actionQueue EXCEPT ![Host[c]][KeyOf(c)] = @ + 1]
    /\ dropped' = dropped \ {c}
    /\ UNCHANGED lease

\* Lock calls addToQueue: the call enters both queues of its process.
AddToQueue(c) ==
    /\ Connections < MaxConnections
    /\ Moves(c, Idle, Queued)
    /\ vmQueue' = [vmQueue EXCEPT ![Host[c]][VmId[c]] = Append(@, c)]
    /\ actionQueue' = [actionQueue EXCEPT ![Host[c]][KeyOf(c)] = @ + 1]
    /\ dropped' = dropped \ {c}
    /\ UNCHANGED lease

\* HLen fails: addToQueue returns an error that Lock drops, and the call goes
\* on without an entry.
AddToQueueFails(c) ==
    /\ "queue" \in Faults
    /\ Moves(c, Idle, Queued)
    /\ dropped' = dropped \cup {c}
    /\ UNCHANGED <<vmQueue, actionQueue, lease>>

\* waitUntilFrontOfQueue returns; as long as it does not, the call polls.
PassQueue(c) ==
    /\ AtFront(c)
    /\ Moves(c, Queued, Locking)
    /\ UNCHANGED <<vmQueue, actionQueue, lease, dropped>>

\* redsync's Lock sets the key of the machine if it does not exist; while it
\* does ("lock already taken"), the call sleeps and tries again.
AcquireLease(c) ==
    /\ ~LockExistsInPool(c)
    /\ lease[VmId[c]] = NoCall
    /\ Moves(c, Locking, Guest)
    /\ lease' = [lease EXCEPT ![VmId[c]] = c]
    /\ UNCHANGED <<vmQueue, actionQueue, dropped>>

\* Any other error of Lock: the handler returns it and never calls Unlock, so
\* its queue entries stay.
LockFails(c) ==
    /\ "lock" \in Faults
    /\ Moves(c, Locking, Abandoned)
    /\ UNCHANGED <<vmQueue, actionQueue, lease, dropped>>

\* A mutant of ReleaseLease: the key is deleted whatever value it holds.
ReleaseAnyLease(c) ==
    /\ Moves(c, Guest, Leaving)
    /\ lease' = [lease EXCEPT ![VmId[c]] = NoCall]
    /\ UNCHANGED <<vmQueue, actionQueue, dropped>>

\* The guest work ended, well or not, and Unlock starts: redsync deletes the
\* key if it still holds this call's value.  A failure is ignored.
ReleaseLease(c) ==
    /\ Moves(c, Guest, Leaving)
    /\ \/ lease' = [lease EXCEPT ![VmId[c]] = IF @ = c THEN NoCall ELSE @]
       \/ "unlock" \in Faults /\ UNCHANGED lease
    /\ UNCHANGED <<vmQueue, actionQueue, dropped>>

\* A mutant of LeaveQueue: no entry goes.
LeaveQueueWithEntry(c) ==
    /\ \/ Moves(c, Leaving, Done)
       \/ c \in Streams /\ Moves(c, Leaving, Idle)
    /\ UNCHANGED <<vmQueue, actionQueue, lease, dropped>>

\* A mutant of LeaveQueue: the heap entry goes without a look whether it is there.
LeaveQueueUnmatched(c) ==
    /\ \/ Moves(c, Leaving, Done)
       \/ c \in Streams /\ Moves(c, Leaving, Idle)
    /\ vmQueue' = [vmQueue EXCEPT ![Host[c]][VmId[c]] =
                     WithoutFirst(@, ActionId[c])]
    /\ actionQueue' = [actionQueue EXCEPT ![Host[c]][KeyOf(c)] = @ - 1]
    /\ UNCHANGED <<lease, dropped>>

\* The rest of Unlock: the first entries with this call's action leave the two
\* queues.  A Stream whose action and parsing went well sleeps and locks again;
\* every other handler, and one whose HDel or guest work failed, returns.
LeaveQueue(c) ==
    /\ \/ Moves(c, Leaving, Done)
       \/ c \in Streams /\ Moves(c, Leaving, Idle)
    /\ vmQueue' = [vmQueue EXCEPT ![Host[c]][VmId[c]] =
                     WithoutFirst(@, ActionId[c])]
    /\ actionQueue' = [actionQueue EXCEPT ![Host[c]][KeyOf(c)] =
                         IF @ > 0 THEN @ - 1 ELSE @]
    /\ UNCHANGED <<lease, dropped>>

\* Redis drops the key of v eight seconds after it was set.  A holder at work in
\* the guest meets this only when its work outlasts the lease; a holder that is
\* dead, or whose release got lost, always meets it in the end.
LeaseExpires(v) ==
    /\ lease[v] # NoCall
    /\ lease[v] \in Long \/ pc[lease[v]] # Guest
    /\ lease' = [lease EXCEPT ![v] = NoCall]
    /\ UNCHANGED <<pc, vmQueue, actionQueue, dropped>>

\* Executor e dies with its memory and is started again with empty queues; the
\* leases its calls held stay in Redis.
InProgress(c) == pc[c] \in {Queued, Locking, Guest, Leaving}

Restart(e) ==
    /\ "crash" \in Faults
    /\ \E c \in Calls : Host[c] = e /\ InProgress(c)
    /\ pc' = [c \in Calls |-> IF Host[c] = e /\ InProgress(c) THEN Dead ELSE pc[c]]
    /\ vmQueue' = [vmQueue EXCEPT ![e] = [v \in Vms |-> << >>]]
    /\ actionQueue' = [actionQueue EXCEPT ![e] = [k \in Vms \X Actions |-> 0]]
    /\ UNCHANGED <<lease, dropped>>

CallStep(c) ==
    \/ AddToQueue(c) \/ AddToQueueFails(c)
    \/ PassQueue(c)
    \/ AcquireLease(c) \/ LockFails(c)
    \/ ReleaseLease(c)
    \/ LeaveQueue(c)

Next ==
    \/ \E c \in Calls : CallStep(c)
    \/ \E v \in Vms : LeaseExpires(v)
    \/ \E e \in Executors : Restart(e)

\* A handler past addToQueue keeps polling and retrying, and Redis expires every key.
\* Nothing makes a client call, and nothing ends the guest work of a call in Long:
\* Toolbox.Run has no timeout of its own and Stream gives it no deadline.
Fairness ==
    /\ \A c \in Calls :
          WF_vars(PassQueue(c)) /\ WF_vars(AcquireLease(c)) /\ WF_vars(LeaveQueue(c))
    /\ \A c \in Calls \ Long : WF_vars(ReleaseLease(c))
    /\ \A v \in Vms : WF_vars(LeaseExpires(v))

Spec == Init /\ [][Next]_vars

FairSpec == Spec /\ Fairness

-----------------------------------------------------------------------------
\* Properties.

SameVm(c, d) == VmId[c] = VmId[d]

\* Calls that stay within their lease are never in the guest of one virtual machine
\* together, whatever other calls outlast their leases, whatever else fails or
\* restarts and however many executors share Redis (Mutex.Lock, Mutex.Unlock).
OneInGuest ==
    \A c, d \in Calls :
        c # d /\ SameVm(c, d) /\ pc[c] = Guest /\ pc[d] = Guest
            => c \in Long \/ d \in Long

\* No two calls are ever in the guest of one virtual machine.
GuestExclusive ==
    \A c, d \in Calls :
        c # d /\ SameVm(c, d) /\ pc[c] = Guest => pc[d] # Guest

\* The calls of one queue: they share an executor and a virtual machine.
SameQueue(c, d) == Host[c] = Host[d] /\ SameVm(c, d)

\* No other call of c's queue has its action.  A condition's Stream and its Delete
\* share theirs, the identifier, and so do two calls of one feature.
Unshared(c) ==
    \A d \in Calls : d # c /\ SameQueue(c, d) => ActionId[d] # ActionId[c]

\* Call c waits for an entry that is its own: its addToQueue made one, and the
\* entries of no other call look the same.
OwnEntry(c) == Unshared(c) /\ c \notin dropped

\* Two calls with entries of their own are never both past their machine's queue, so
\* they exclude each other even when a lease runs out under a long guest action, and
\* whatever calls that share an action, and calls without an entry, do to the queue:
\* Unlock takes out the first entry of an action, not the call's.
PastQueue(c) == pc[c] \in {Locking, Guest, Leaving}

OnePastQueue ==
    \A c, d \in Calls :
        c # d /\ SameQueue(c, d) /\ OwnEntry(c) /\ OwnEntry(d) /\ PastQueue(c)
            => ~PastQueue(d)

\* A call whose action is not shared is never let into the guest behind the entry of
\* another: calls are served in order of arrival (addToQueue appends, Unlock removes),
\* also when calls that share an action pass on each other's entries.
Before(c, d) ==
    \E i, j \in 1..Len(QueueOf(d)) :
        i < j /\ QueueOf(d)[i] = c /\ QueueOf(d)[j] = d

ServedInOrder ==
    [][\A c, d \in Calls :
          pc[d] # Guest /\ pc'[d] = Guest /\ Unshared(d) => ~Before(c, d)]_vars

\* On a machine that one executor serves, a call with an entry of its own is let into
\* the guest in the end, although Streams lock again for ever, or its Lock fails,
\* unless it waits for ever behind an action whose Lock failed, for then the entry
\* stays, or whose work in the guest never ends.
Stuck(c) ==
    /\ pc[c] = Queued
    /\ QueueOf(c) # << >>
    /\ \E d \in Calls :
          /\ SameQueue(c, d) /\ ActionId[d] = ActionId[Head(QueueOf(c))]
          /\ d \notin dropped
          /\ pc[d] = Abandoned \/ (d \in Long /\ pc[d] = Guest)

ServedOrStuck ==
    \A c \in Calls :
        OwnEntry(c) /\ pc[c] = Queued
            ~> pc[c] \in {Guest, Abandoned, Dead} \/ []Stuck(c)

Access == INSTANCE GuestAccess WITH inGuest <- {c \in Calls \ Long : pc[c] = Guest}

\* By the lease, the calls that stay within theirs get what GuestAccess promises, of
\* all executors together.
ImplementsGuestAccess == Access!Spec

QueueAccess == INSTANCE GuestAccess
    WITH inGuest <- {c \in Calls : pc[c] = Guest /\ OwnEntry(c)},
         VmId <- [c \in Calls |-> <<Host[c], VmId[c]>>]

\* By the queues alone, the calls of an executor with entries of their own get the
\* same, however long they work.
QueueGivesAccess == QueueAccess!Spec
=============================================================================
