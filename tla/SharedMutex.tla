---------------------------- MODULE SharedMutex ----------------------------
(***************************************************************************)
(* The two redsync mutexes that MutexDistributor keeps for itself:         *)
(* CounterMutex and QueueMutex (library/mutex_distributor.go).             *)
(*                                                                         *)
(* Each is ONE redsync.Mutex object that all goroutines of an executor     *)
(* share, over a Redis key that all executors share.  The object keeps the *)
(* value of the last successful Lock, and Unlock deletes the key if it     *)
(* holds that value.  No caller looks at the error of Lock: who runs out   *)
(* of tries goes on without the lock, and its Unlock still deletes the     *)
(* key of whoever locked last through the same object.  addToQueue locks   *)
(* CounterMutex and calls GetActionCounter, which locks it again.          *)
(*                                                                         *)
(* A queue section lasts as long as CounterMutex makes it wait, which may  *)
(* be longer than another's tries for QueueMutex and than the eight        *)
(* seconds of its own key: any Lock may give up, any key may expire.       *)
(*                                                                         *)
(* Module MutexDistributor treats a section between QueueMutex.Lock and    *)
(* QueueMutex.Unlock as one step; SectionsApart says when that is right.   *)
(***************************************************************************)
EXTENDS Naturals, FiniteSets

CONSTANTS
    Goroutines,     \* the handler goroutines in the distributor
    Processes,      \* the executors, each with its own objects
    Host            \* Host[g]: the executor of goroutine g

Mutexes == {"counter", "queue"}
None == << >>   \* no value

ASSUME SharedMutexAssumption == Host \in [Goroutines -> Processes]

\* The values redsync draws for a Lock call are unique; a value is named after
\* the goroutine and the place of the call.
Values == Goroutines \X {"outer", "inner", "vm", "section"}

VARIABLES
    pc,         \* where a goroutine is
    key,        \* key[m]: the value under m's key in Redis
    value,      \* value[p][m]: the value kept in the mutex object of process p
    disturbed   \* history: the executors that entered a queue section without the
                \* lock, or lost its key in one, and have not left all sections since

vars == <<pc, key, value, disturbed>>

PcValues == {"start", "outer", "nested", "inner", "counted",
             "adding", "counting", "added", "polling", "section", "done"}

\* The places between QueueMutex.Lock and QueueMutex.Unlock.
InSection(g) == pc[g] \in {"adding", "counting", "added", "section"}

TypeOK ==
    /\ pc \in [Goroutines -> PcValues]
    /\ key \in [Mutexes -> Values \cup {None}]
    /\ value \in [Processes -> [Mutexes -> Values \cup {None}]]
    /\ disturbed \subseteq Processes

Init ==
    /\ pc = [g \in Goroutines |-> "start"]
    /\ key = [m \in Mutexes |-> None]
    /\ value = [p \in Processes |-> [m \in Mutexes |-> None]]
    /\ disturbed = {}

\* The executors P are disturbed as well; an executor whose sections are all over
\* is not disturbed any more.
Disturbs(P) ==
    disturbed' = {p \in disturbed \cup P :
                    \E g \in Goroutines : Host[g] = p /\ InSection(g)'}

\* redsync sets the key if there is none and keeps the value in the object.
TakesKey(g, m, v) ==
    /\ key[m] = None
    /\ key' = [key EXCEPT ![m] = v]
    /\ value' = [value EXCEPT ![Host[g]][m] = v]
    /\ Disturbs({})

\* A mutant of Lock that waits for the key as long as it takes.
PatientLock(g, m, place) == TakesKey(g, m, <<g, place>>)

\* A mutant of Lock: a value that is not drawn anew for each Lock.
LockByGoroutine(g, m, place) == TakesKey(g, m, g)

\* redsync's Lock: after its last try, or when Redis fails it, it returns an error,
\* which nobody reads.
Lock(g, m, place) ==
    \/ TakesKey(g, m, <<g, place>>)
    \/ /\ UNCHANGED <<key, value>>
       /\ Disturbs(IF m = "queue" THEN {Host[g]} ELSE {})

\* A mutant of Unlock: the key is deleted whatever value it holds.
UnlockAny(g, m) ==
    /\ key' = [key EXCEPT ![m] = None]
    /\ UNCHANGED value
    /\ Disturbs({})

\* redsync's Unlock: compare with the object's value, then delete.
Unlock(g, m) ==
    /\ key' = [key EXCEPT ![m] = IF @ = value[Host[g]][m] THEN None ELSE @]
    /\ UNCHANGED value
    /\ Disturbs({})

Goes(g, from, to) == pc[g] = from /\ pc' = [pc EXCEPT ![g] = to]

\* addToQueue's first line, and the first line of GetActionCounter in it.
LockCounter(g)      == Goes(g, "start", "outer") /\ Lock(g, "counter", "outer")
LockCounterAgain(g) == Goes(g, "outer", "nested") /\ Lock(g, "counter", "inner")

\* GetActionCounter reads the counter and unlocks, then addToQueue unlocks.
UnlockNested(g)  == Goes(g, "nested", "inner") /\ Unlock(g, "counter")
UnlockCounter(g) == Goes(g, "inner", "counted") /\ Unlock(g, "counter")

\* addToQueue's section.  While it holds QueueMutex it reads the counter of the
\* machine, GetVMCounter, under CounterMutex, which others hold for long.
LockQueueToAdd(g)  == Goes(g, "counted", "adding") /\ Lock(g, "queue", "section")
LockVMCounter(g)   == Goes(g, "adding", "counting") /\ Lock(g, "counter", "vm")
UnlockVMCounter(g) == Goes(g, "counting", "added") /\ Unlock(g, "counter")
UnlockAdded(g)     == Goes(g, "added", "polling") /\ Unlock(g, "queue")

\* The short sections: each poll of waitUntilFrontOfQueue, and Mutex.Unlock, the
\* last one of a call.
LockQueue(g) == Goes(g, "polling", "section") /\ Lock(g, "queue", "section")

UnlockQueue(g) ==
    /\ \/ Goes(g, "section", "polling")
       \/ Goes(g, "section", "done")
    /\ Unlock(g, "queue")

\* Redis drops a key eight seconds after it was set: that of CounterMutex while
\* Lock is tried within Lock, that of QueueMutex when a section waits too long.
KeyExpires(m) ==
    /\ key[m] # None
    /\ UNCHANGED <<pc, value>>
    /\ key' = [key EXCEPT ![m] = None]
    /\ Disturbs(IF m = "queue" THEN {Host[key[m][1]]} ELSE {})

Step(g) ==
    \/ LockCounter(g) \/ LockCounterAgain(g)
    \/ UnlockNested(g) \/ UnlockCounter(g)
    \/ LockQueueToAdd(g) \/ LockVMCounter(g) \/ UnlockVMCounter(g) \/ UnlockAdded(g)
    \/ LockQueue(g) \/ UnlockQueue(g)

Next ==
    \/ \E g \in Goroutines : Step(g)
    \/ \E m \in Mutexes : KeyExpires(m)

Spec == Init /\ [][Next]_vars

\* A goroutine comes back from every Lock and Unlock of CounterMutex, because redsync
\* bounds its tries; nothing is assumed of a key's expiry.
Fairness == \A g \in Goroutines :
    /\ WF_vars(LockCounter(g)) /\ WF_vars(LockCounterAgain(g))
    /\ WF_vars(UnlockNested(g)) /\ WF_vars(UnlockCounter(g))
    /\ WF_vars(LockVMCounter(g)) /\ WF_vars(UnlockVMCounter(g))

FairSpec == Spec /\ Fairness

-----------------------------------------------------------------------------
\* Two goroutines, of one executor or of two, are in a queue section together only
\* while a Lock that gave up, or a key that ran out, disturbs the sections of one of
\* their executors: an Unlock of one that holds nothing frees no other executor's
\* lock, and when the sections that overlapped are over, the shared object excludes
\* again (the value that all goroutines of an executor share).
SectionsApart ==
    \A g, h \in Goroutines :
        g # h /\ InSection(g) /\ InSection(h)
            => Host[g] \in disturbed \/ Host[h] \in disturbed

\* Locking CounterMutex within CounterMutex, and within QueueMutex, stops no
\* goroutine for good: the inner Lock gives up.
CounterPassed ==
    /\ \A g \in Goroutines : pc[g] = "start" ~> pc[g] = "counted"
    /\ \A g \in Goroutines : pc[g] = "adding" ~> pc[g] = "added"
=============================================================================
