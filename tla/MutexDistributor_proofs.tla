----------------------- MODULE MutexDistributor_proofs -----------------------
(***************************************************************************)
(* Proofs about MutexDistributor, for every set of calls, machines and     *)
(* executors, with every fault.  Two independent arguments give exclusion  *)
(* in the guest: LeaseInv, from the Redis lease, to the calls that stay    *)
(* within it; QueueInv, from the in-memory queues, to the calls with       *)
(* entries of their own.                                                   *)
(***************************************************************************)
EXTENDS MutexDistributor, SequenceTheorems, TLAPS

-----------------------------------------------------------------------------
\* Taking the first matching entry out of a queue leaves a queue
\* (mutex_distributor.go, the second loop of Unlock).
LEMMA WithoutFirstType ==
    ASSUME NEW q \in Seq(Calls), NEW a
    PROVE  WithoutFirst(q, a) \in Seq(Calls)
<1>1. CASE FirstWith(q, a) = {}
  BY <1>1 DEF WithoutFirst
<1>2. CASE FirstWith(q, a) # {}
  <2> DEFINE k == CHOOSE i \in FirstWith(q, a) : TRUE
  <2>1. k \in 1..Len(q)
    BY <1>2 DEF FirstWith
  <2>2. SubSeq(q, 1, k-1) \in Seq(Calls) /\ SubSeq(q, k+1, Len(q)) \in Seq(Calls)
    <3>1. k-1 \in Int /\ k+1 \in Int /\ Len(q) \in Nat
      BY <2>1
    <3>2. \A i \in 1..(k-1) : q[i] \in Calls
      BY <2>1
    <3>3. \A i \in (k+1)..Len(q) : q[i] \in Calls
      BY <2>1
    <3>4. QED
      BY <3>1, <3>2, <3>3, SubSeqProperties
  <2>3. WithoutFirst(q, a) = SubSeq(q, 1, k-1) \o SubSeq(q, k+1, Len(q))
    BY <1>2 DEF WithoutFirst
  <2>4. QED
    BY <2>2, <2>3
<1>3. QED
  BY <1>1, <1>2

\* Taking an entry out moves those behind it up by one, and the entry has the action
\* of the call that leaves, as none before it has.
LEMMA WithoutFirstFacts ==
    ASSUME NEW q \in Seq(Calls), NEW a, FirstWith(q, a) # {}
    PROVE  \E k \in 1..Len(q) :
              /\ ActionId[q[k]] = a
              /\ \A i \in 1..(k-1) : ActionId[q[i]] # a
              /\ Len(WithoutFirst(q, a)) = Len(q) - 1
              /\ \A i \in 1..(k-1) : WithoutFirst(q, a)[i] = q[i]
              /\ \A i \in k..(Len(q) - 1) : WithoutFirst(q, a)[i] = q[i+1]
<1> DEFINE k == CHOOSE i \in FirstWith(q, a) : TRUE
           s == SubSeq(q, 1, k-1)
           t == SubSeq(q, k+1, Len(q))
<1>1. k \in FirstWith(q, a)
  OBVIOUS
<1>2. k \in 1..Len(q) /\ ActionId[q[k]] = a /\ \A i \in 1..(k-1) : ActionId[q[i]] # a
  BY <1>1 DEF FirstWith
<1>3. WithoutFirst(q, a) = s \o t
  BY DEF WithoutFirst
<1> HIDE DEF k
<1>4. k \in Nat \ {0} /\ Len(q) \in Nat /\ k <= Len(q)
  BY <1>2
<1>5. /\ s \in Seq(Calls) /\ Len(s) = k-1
      /\ \A i \in 1..(k-1) : s[i] = q[i]
  <2>1. \A i \in 1..(k-1) : q[i] \in Calls
    BY <1>4
  <2>2. QED
    BY <1>4, <2>1, SubSeqProperties
<1>6. /\ t \in Seq(Calls) /\ Len(t) = Len(q) - k
      /\ \A i \in 1..(Len(q) - k) : t[i] = q[k+i]
  <2>1. \A i \in (k+1)..Len(q) : q[i] \in Calls
    BY <1>4
  <2>2. /\ t \in Seq(Calls)
        /\ Len(t) = IF k+1 <= Len(q) THEN Len(q) - (k+1) + 1 ELSE 0
        /\ \A i \in 1..Len(q) - (k+1) + 1 : t[i] = q[k+1+i-1]
    BY <1>4, <2>1, SubSeqProperties
  <2>3. Len(t) = Len(q) - k
    BY <1>4, <2>2
  <2>4. ASSUME NEW i \in 1..(Len(q) - k) PROVE t[i] = q[k+i]
    <3>1. i \in 1..Len(q) - (k+1) + 1 /\ k+1+i-1 = k+i
      BY <1>4
    <3>2. t[i] = q[k+1+i-1]
      BY <2>2, <3>1
    <3>3. QED
      BY <3>1, <3>2
  <2>5. QED
    BY <2>2, <2>3, <2>4
<1> HIDE DEF s, t
<1>7. /\ Len(s \o t) = Len(q) - 1
      /\ \A i \in 1..(Len(q) - 1) : (s \o t)[i] = IF i <= k-1 THEN s[i] ELSE t[i-(k-1)]
  <2>1. /\ Len(s \o t) = Len(s) + Len(t)
        /\ \A i \in 1..Len(s) + Len(t) :
              (s \o t)[i] = IF i <= Len(s) THEN s[i] ELSE t[i - Len(s)]
    BY <1>5, <1>6, ConcatProperties
  <2>2. Len(s) + Len(t) = Len(q) - 1
    BY <1>4, <1>5, <1>6
  <2>3. QED
    BY <1>5, <2>1, <2>2
<1>8. \A i \in 1..(k-1) : (s \o t)[i] = q[i]
  BY <1>4, <1>5, <1>7
<1>9. \A i \in k..(Len(q) - 1) : (s \o t)[i] = q[i+1]
  <2> SUFFICES ASSUME NEW i \in k..(Len(q) - 1) PROVE (s \o t)[i] = q[i+1]
    OBVIOUS
  <2>1. i-(k-1) \in 1..(Len(q) - k) /\ ~(i <= k-1) /\ i \in 1..(Len(q) - 1)
        /\ k + (i-(k-1)) = i+1
    BY <1>4
  <2>2. QED
    BY <1>6, <1>7, <2>1
<1>10. QED
  BY <1>2, <1>3, <1>7, <1>8, <1>9

\* Appending, as addToQueue does to VmQueue, keeps every earlier entry in its
\* place and the front at the front.
LEMMA AppendFacts ==
    ASSUME NEW q \in Seq(Calls), NEW c \in Calls
    PROVE  /\ Append(q, c) \in Seq(Calls)
           /\ Append(q, c) # << >>
           /\ Len(Append(q, c)) = Len(q) + 1
           /\ \A i \in 1..Len(q) : Append(q, c)[i] = q[i]
           /\ Append(q, c)[Len(q) + 1] = c
           /\ q # << >> => Head(Append(q, c)) = Head(q)
  BY AppendProperties, HeadTailAppend

-----------------------------------------------------------------------------
\* Every reachable state is well formed: queues hold calls, the heap's counts
\* never go below zero, a lease has at most one holder.
THEOREM TypeCorrect == Spec => []TypeOK
<1> USE ConstantsAssumption DEF PcValues, Idle, Queued, Locking, Guest, Leaving,
        Done, Abandoned, Dead
<1>1. Init => TypeOK
  BY DEF Init, TypeOK
<1>2. TypeOK /\ [Next]_vars => TypeOK'
  <2> SUFFICES ASSUME TypeOK, [Next]_vars PROVE TypeOK'
    OBVIOUS
  <2> USE DEF TypeOK
  <2>1. ASSUME NEW c \in Calls, AddToQueue(c) PROVE TypeOK'
    <3>1. pc' \in [Calls -> PcValues]
      BY <2>1 DEF AddToQueue, Moves
    <3>2. Append(vmQueue[Host[c]][VmId[c]], c) \in Seq(Calls)
      BY AppendProperties
    <3>3. vmQueue' \in [Executors -> [Vms -> Seq(Calls)]]
      BY <2>1, <3>2 DEF AddToQueue
    <3>4. actionQueue' \in [Executors -> [Vms \X Actions -> Nat]]
      <4> DEFINE n == actionQueue[Host[c]][KeyOf(c)]
      <4>1. KeyOf(c) \in Vms \X Actions /\ Host[c] \in Executors
        BY DEF KeyOf
      <4>2. n \in Nat
        BY <4>1
      <4>3. n + 1 \in Nat
        BY <4>2
      <4>4. actionQueue' = [actionQueue EXCEPT ![Host[c]][KeyOf(c)] = n + 1]
        BY <2>1 DEF AddToQueue
      <4>5. QED
        BY <4>1, <4>3, <4>4
    <3>5. dropped' \subseteq Calls
      BY <2>1 DEF AddToQueue
    <3>6. QED
      BY <2>1, <3>1, <3>3, <3>4, <3>5 DEF AddToQueue
  <2>2. ASSUME NEW c \in Calls, AddToQueueFails(c) PROVE TypeOK'
    BY <2>2 DEF AddToQueueFails, Moves
  <2>3. ASSUME NEW c \in Calls, PassQueue(c) PROVE TypeOK'
    BY <2>3 DEF PassQueue, Moves
  <2>4. ASSUME NEW c \in Calls, AcquireLease(c) PROVE TypeOK'
    BY <2>4 DEF AcquireLease, Moves
  <2>5. ASSUME NEW c \in Calls, LockFails(c) PROVE TypeOK'
    BY <2>5 DEF LockFails, Moves
  <2>6. ASSUME NEW c \in Calls, ReleaseLease(c) PROVE TypeOK'
    BY <2>6 DEF ReleaseLease, Moves
  <2>7. ASSUME NEW c \in Calls, LeaveQueue(c) PROVE TypeOK'
    <3>1. WithoutFirst(vmQueue[Host[c]][VmId[c]], ActionId[c]) \in Seq(Calls)
      BY WithoutFirstType
    <3>2. pc' \in [Calls -> PcValues]
      BY <2>7 DEF LeaveQueue, Moves
    <3>3. vmQueue' \in [Executors -> [Vms -> Seq(Calls)]]
      BY <2>7, <3>1 DEF LeaveQueue
    <3>4. actionQueue' \in [Executors -> [Vms \X Actions -> Nat]]
      <4> DEFINE n == actionQueue[Host[c]][KeyOf(c)]
      <4>1. KeyOf(c) \in Vms \X Actions /\ Host[c] \in Executors
        BY DEF KeyOf
      <4>2. n \in Nat
        BY <4>1
      <4>3. (IF n > 0 THEN n - 1 ELSE n) \in Nat
        BY <4>2
      <4>4. actionQueue' = [actionQueue EXCEPT ![Host[c]][KeyOf(c)] =
                              IF n > 0 THEN n - 1 ELSE n]
        BY <2>7 DEF LeaveQueue
      <4>5. QED
        BY <4>1, <4>3, <4>4
    <3>5. QED
      BY <2>7, <3>2, <3>3, <3>4 DEF LeaveQueue
  <2>8. ASSUME NEW v \in Vms, LeaseExpires(v) PROVE TypeOK'
    BY <2>8 DEF LeaseExpires
  <2>9. ASSUME NEW e \in Executors, Restart(e) PROVE TypeOK'
    <3>1. << >> \in Seq(Calls)
      BY EmptySeq
    <3>2. pc' \in [Calls -> PcValues]
      BY <2>9 DEF Restart
    <3>3. vmQueue' \in [Executors -> [Vms -> Seq(Calls)]]
      BY <2>9, <3>1 DEF Restart
    <3>4. actionQueue' \in [Executors -> [Vms \X Actions -> Nat]]
      BY <2>9 DEF Restart
    <3>5. QED
      BY <2>9, <3>2, <3>3, <3>4 DEF Restart
  <2>10. CASE UNCHANGED vars
    BY <2>10 DEF vars
  <2>11. QED
    BY <2>1, <2>2, <2>3, <2>4, <2>5, <2>6, <2>7, <2>8, <2>9, <2>10
       DEF Next, CallStep
<1>3. QED
  BY <1>1, <1>2, PTL DEF Spec

-----------------------------------------------------------------------------
(* Exclusion by the lease. *)

\* A call in the guest that stays within its lease holds it.
LeaseInv == \A c \in Calls \ Long : pc[c] = Guest => lease[VmId[c]] = c

\* Whatever fails, restarts or outlasts its lease, the lease keeps those calls of
\* all executors apart that stay within theirs (Mutex.Lock, Mutex.Unlock).
THEOREM LeaseExclusion == Spec => []OneInGuest
<1> USE ConstantsAssumption DEF PcValues, Idle, Queued, Locking, Guest, Leaving,
        Done, Abandoned, Dead
<1>1. Init => LeaseInv
  BY DEF Init, LeaseInv
<1>2. TypeOK /\ LeaseInv /\ [Next]_vars => LeaseInv'
  <2> SUFFICES ASSUME TypeOK, LeaseInv, [Next]_vars PROVE LeaseInv'
    OBVIOUS
  <2> USE DEF TypeOK, LeaseInv
  <2>1. ASSUME NEW c \in Calls, AddToQueue(c) PROVE LeaseInv'
    BY <2>1 DEF AddToQueue, Moves
  <2>2. ASSUME NEW c \in Calls, AddToQueueFails(c) PROVE LeaseInv'
    BY <2>2 DEF AddToQueueFails, Moves
  <2>3. ASSUME NEW c \in Calls, PassQueue(c) PROVE LeaseInv'
    BY <2>3 DEF PassQueue, Moves
  <2>4. ASSUME NEW c \in Calls, AcquireLease(c) PROVE LeaseInv'
    BY <2>4 DEF AcquireLease, Moves
  <2>5. ASSUME NEW c \in Calls, LockFails(c) PROVE LeaseInv'
    BY <2>5 DEF LockFails, Moves
  <2>6. ASSUME NEW c \in Calls, ReleaseLease(c) PROVE LeaseInv'
    BY <2>6 DEF ReleaseLease, Moves
  <2>7. ASSUME NEW c \in Calls, LeaveQueue(c) PROVE LeaseInv'
    BY <2>7 DEF LeaveQueue, Moves
  <2>8. ASSUME NEW v \in Vms, LeaseExpires(v) PROVE LeaseInv'
    BY <2>8 DEF LeaseExpires
  <2>9. ASSUME NEW e \in Executors, Restart(e) PROVE LeaseInv'
    BY <2>9 DEF Restart
  <2>10. CASE UNCHANGED vars
    BY <2>10 DEF vars
  <2>11. QED
    BY <2>1, <2>2, <2>3, <2>4, <2>5, <2>6, <2>7, <2>8, <2>9, <2>10
       DEF Next, CallStep
<1>3. LeaseInv => OneInGuest
  BY DEF LeaseInv, OneInGuest, SameVm
<1>4. QED
  BY <1>1, <1>2, <1>3, TypeCorrect, PTL DEF Spec

-----------------------------------------------------------------------------
(* Exclusion by the queues. *)

\* The calls that may have an entry in their queue: those between addToQueue and the
\* end of Unlock, and those whose Lock failed and left the entry behind.
HasEntry(c) == pc[c] \in {Queued, Locking, Guest, Leaving, Abandoned}

\* Every entry belongs to a call of this executor and machine.
EntriesBelong ==
    \A e \in Executors, v \in Vms : \A i \in 1..Len(vmQueue[e][v]) :
        Host[vmQueue[e][v][i]] = e /\ VmId[vmQueue[e][v][i]] = v

\* Call d is at place i of its queue.
EntryAt(d, i) == i \in 1..Len(QueueOf(d)) /\ QueueOf(d)[i] = d

\* An entry whose action is not shared belongs to a call that has one, once.
EntriesOwned ==
    \A d \in Calls : Unshared(d) =>
        /\ \A i \in Nat : EntryAt(d, i) => HasEntry(d) /\ d \notin dropped
        /\ \A i, j \in Nat : EntryAt(d, i) /\ EntryAt(d, j) => i = j

\* A call in progress that made an entry of its own has it, and past the queue it is
\* at the front.
EntriesPresent ==
    \A d \in Calls : Unshared(d) /\ d \notin dropped =>
        /\ InProgress(d) => \E i \in Nat : EntryAt(d, i)
        /\ PastQueue(d) => EntryAt(d, 1)

QueueInv == EntriesBelong /\ EntriesOwned /\ EntriesPresent

\* Which names are shared does not change.
LEMMA UnsharedNext == \A d \in Calls : Unshared(d)' <=> Unshared(d)
  BY DEF Unshared, SameQueue, SameVm

\* The front of a queue is its first entry.
LEMMA HeadFacts ==
    ASSUME NEW q \in Seq(Calls)
    PROVE  /\ Len(q) \in Nat
           /\ q # << >> <=> Len(q) >= 1
           /\ q # << >> => Head(q) = q[1] /\ q[1] \in Calls
  BY HeadTailProperties, EmptySeq, ElementOfSeq

\* The queue of a call, and what a step that changes the queue of call c to q1 does
\* to it.
LEMMA QueueOfFacts ==
    ASSUME TypeOK, NEW d \in Calls
    PROVE  Host[d] \in Executors /\ VmId[d] \in Vms /\ QueueOf(d) \in Seq(Calls)
           /\ Len(QueueOf(d)) \in Nat
  BY ConstantsAssumption DEF TypeOK, QueueOf

LEMMA QueueOfNext ==
    ASSUME TypeOK, NEW c \in Calls, NEW q1,
           vmQueue' = [vmQueue EXCEPT ![Host[c]][VmId[c]] = q1]
    PROVE  /\ \A e \in Executors, v \in Vms :
                 vmQueue'[e][v] = IF e = Host[c] /\ v = VmId[c] THEN q1 ELSE vmQueue[e][v]
           /\ \A d \in Calls :
                 IF SameQueue(c, d) THEN QueueOf(d) = QueueOf(c) /\ QueueOf(d)' = q1
                                    ELSE QueueOf(d)' = QueueOf(d)
<1>1. \A e \in Executors, v \in Vms :
         vmQueue'[e][v] = IF e = Host[c] /\ v = VmId[c] THEN q1 ELSE vmQueue[e][v]
  BY ConstantsAssumption DEF TypeOK
<1>2. \A d \in Calls : Host[d] \in Executors /\ VmId[d] \in Vms
  BY ConstantsAssumption
<1>3. QED
  BY <1>1, <1>2 DEF QueueOf, SameQueue, SameVm

\* addToQueue appends a call that had no entry (mutex_distributor.go:189-192).
LEMMA AddToQueueKeepsQueueInv ==
    ASSUME TypeOK, QueueInv, NEW c \in Calls, AddToQueue(c)
    PROVE  QueueInv'
<1> DEFINE q  == QueueOf(c)
           q1 == Append(q, c)
<1>1. q \in Seq(Calls) /\ Len(q) \in Nat
  BY QueueOfFacts
<1>2. /\ pc[c] = Idle /\ pc'[c] = Queued /\ \A d \in Calls : d # c => pc'[d] = pc[d]
      /\ dropped' = dropped \ {c}
  BY DEF AddToQueue, Moves, TypeOK
<1>3. vmQueue' = [vmQueue EXCEPT ![Host[c]][VmId[c]] = q1]
  BY DEF AddToQueue, QueueOf
<1>4. /\ Len(q1) = Len(q) + 1
      /\ \A i \in 1..Len(q) : q1[i] = q[i]
      /\ q1[Len(q) + 1] = c
  BY <1>1, AppendFacts
<1> HIDE DEF q1, q
<1>5. /\ \A e \in Executors, v \in Vms :
            vmQueue'[e][v] = IF e = Host[c] /\ v = VmId[c] THEN q1 ELSE vmQueue[e][v]
      /\ \A d \in Calls : IF SameQueue(c, d) THEN QueueOf(d) = q /\ QueueOf(d)' = q1
                                             ELSE QueueOf(d)' = QueueOf(d)
  BY <1>3, QueueOfNext DEF q
<1>6. SameQueue(c, c)
  BY DEF SameQueue, SameVm
\* The other calls keep their places, and c gets the last one.
<1>7. \A d \in Calls, i \in Nat :
          EntryAt(d, i)' <=> EntryAt(d, i) \/ (d = c /\ i = Len(q) + 1)
  <2> SUFFICES ASSUME NEW d \in Calls, NEW i \in Nat
               PROVE  EntryAt(d, i)' <=> EntryAt(d, i) \/ (d = c /\ i = Len(q) + 1)
    OBVIOUS
  <2>1. CASE SameQueue(c, d)
    <3>1. /\ EntryAt(d, i) <=> i \in 1..Len(q) /\ q[i] = d
          /\ EntryAt(d, i)' <=> i \in 1..Len(q1) /\ q1[i] = d
      BY <1>5, <2>1 DEF EntryAt
    <3>2. i \in 1..Len(q1) <=> i \in 1..Len(q) \/ i = Len(q) + 1
      BY <1>1, <1>4
    <3>3. QED
      BY <1>1, <1>4, <3>1, <3>2
  <2>2. CASE ~SameQueue(c, d)
    BY <1>5, <1>6, <2>2 DEF EntryAt
  <2>3. QED
    BY <2>1, <2>2
<1>8. Unshared(c) => \A i \in Nat : ~EntryAt(c, i)
  BY <1>2 DEF QueueInv, EntriesOwned, HasEntry, Idle, Queued, Locking, Guest, Leaving,
     Abandoned
<1>9. EntriesBelong'
  <2> SUFFICES ASSUME NEW e \in Executors, NEW v \in Vms,
                      NEW i \in 1..Len(vmQueue'[e][v])
               PROVE  Host[vmQueue'[e][v][i]] = e /\ VmId[vmQueue'[e][v][i]] = v
    BY DEF EntriesBelong
  <2>1. CASE e = Host[c] /\ v = VmId[c]
    <3>1. vmQueue'[e][v] = q1 /\ vmQueue[e][v] = q /\ i \in 1..Len(q1)
      BY <1>5, <2>1 DEF q, QueueOf
    <3>2. i \in 1..Len(q) \/ i = Len(q) + 1
      BY <1>1, <1>4, <3>1
    <3>3. QED
      BY <1>4, <2>1, <3>1, <3>2 DEF QueueInv, EntriesBelong
  <2>2. CASE ~(e = Host[c] /\ v = VmId[c])
    BY <1>5, <2>2 DEF QueueInv, EntriesBelong
  <2>3. QED
    BY <2>1, <2>2
<1>10. EntriesOwned'
  <2> SUFFICES ASSUME NEW d \in Calls, Unshared(d)
               PROVE  /\ \A i \in Nat : EntryAt(d, i)' =>
                            /\ pc'[d] \in {Queued, Locking, Guest, Leaving, Abandoned}
                            /\ d \notin dropped'
                      /\ \A i, j \in Nat : EntryAt(d, i)' /\ EntryAt(d, j)' => i = j
    BY UnsharedNext DEF EntriesOwned, HasEntry
  <2>1. CASE d = c
    BY <1>2, <1>7, <1>8, <2>1
  <2>2. CASE d # c
    BY <1>2, <1>7, <2>2 DEF QueueInv, EntriesOwned, HasEntry
  <2>3. QED
    BY <2>1, <2>2
<1>11. EntriesPresent'
  <2> SUFFICES ASSUME NEW d \in Calls, Unshared(d), d \notin dropped'
               PROVE  /\ InProgress(d)' => \E i \in Nat : EntryAt(d, i)'
                      /\ PastQueue(d)' => EntryAt(d, 1)'
    BY UnsharedNext DEF EntriesPresent
  <2>1. CASE d = c
    <3>1. ~PastQueue(d)'
      BY <1>2, <2>1 DEF PastQueue, Queued, Locking, Guest, Leaving
    <3>2. Len(q) + 1 \in Nat
      BY <1>1
    <3>3. QED
      BY <1>7, <2>1, <3>1, <3>2
  <2>2. CASE d # c
    <3>1. /\ InProgress(d)' <=> InProgress(d)
          /\ PastQueue(d)' <=> PastQueue(d)
          /\ d \notin dropped
      BY <1>2, <2>2 DEF InProgress, PastQueue
    <3>2. QED
      BY <1>7, <3>1 DEF QueueInv, EntriesPresent
  <2>3. QED
    BY <2>1, <2>2
<1>12. QED
  BY <1>9, <1>10, <1>11 DEF QueueInv

\* Unlock takes the first entry with its action out of the queue.  That is the
\* call's own if it has one of its own, and never one that another call has of its
\* own; those behind it move up by one (mutex_distributor.go:270-276).
LEMMA LeaveQueueKeepsQueueInv ==
    ASSUME TypeOK, QueueInv, NEW c \in Calls, LeaveQueue(c)
    PROVE  QueueInv'
<1> DEFINE q  == QueueOf(c)
           q1 == WithoutFirst(q, ActionId[c])
<1>1. q \in Seq(Calls) /\ Len(q) \in Nat
  BY QueueOfFacts
<1>2. /\ pc[c] = Leaving /\ pc'[c] \in {Done, Idle}
      /\ \A d \in Calls : d # c => pc'[d] = pc[d]
      /\ dropped' = dropped
  BY DEF LeaveQueue, Moves, TypeOK
<1>3. /\ \A e \in Executors, v \in Vms :
            vmQueue'[e][v] = IF e = Host[c] /\ v = VmId[c] THEN q1 ELSE vmQueue[e][v]
      /\ \A d \in Calls : IF SameQueue(c, d) THEN QueueOf(d) = q /\ QueueOf(d)' = q1
                                             ELSE QueueOf(d)' = QueueOf(d)
  <2>1. vmQueue' = [vmQueue EXCEPT ![Host[c]][VmId[c]] = q1]
    BY DEF LeaveQueue, QueueOf
  <2>2. QED
    BY <2>1, QueueOfNext
<1>4. q1 \in Seq(Calls) /\ Len(q1) \in Nat
  BY <1>1, WithoutFirstType
<1>5. Unshared(c) /\ c \notin dropped => 1 \in 1..Len(q) /\ q[1] = c
  BY <1>2 DEF QueueInv, EntriesPresent, EntryAt, PastQueue
<1>6. CASE FirstWith(q, ActionId[c]) = {}
  <2>1. q1 = q
    BY <1>6 DEF WithoutFirst
  <2>2. ~(Unshared(c) /\ c \notin dropped)
    <3> SUFFICES ASSUME 1 \in 1..Len(q), q[1] = c PROVE FALSE
      BY <1>5
    <3>1. 1 \in FirstWith(q, ActionId[c])
      BY DEF FirstWith
    <3>2. QED
      BY <1>6, <3>1
  <2> HIDE DEF q1, q
  <2>3. \A d \in Calls : QueueOf(d)' = QueueOf(d)
    BY <1>3, <2>1
  <2>4. \A d \in Calls, i \in Nat : EntryAt(d, i)' <=> EntryAt(d, i)
    BY <2>3 DEF EntryAt
  <2>5. EntriesBelong'
    BY <1>3, <2>1 DEF QueueInv, EntriesBelong, q, QueueOf
  <2>6. \A i \in Nat : Unshared(c) => ~EntryAt(c, i)
    BY <2>2 DEF QueueInv, EntriesOwned
  <2>7. EntriesOwned'
    BY <1>2, <2>4, <2>6, UnsharedNext DEF QueueInv, EntriesOwned, HasEntry
  <2>8. EntriesPresent'
    BY <1>2, <2>4, UnsharedNext DEF QueueInv, EntriesPresent, InProgress, PastQueue,
       Idle, Queued, Locking, Guest, Leaving, Done
  <2>9. QED
    BY <2>5, <2>7, <2>8 DEF QueueInv
<1>7. CASE FirstWith(q, ActionId[c]) # {}
  <2>1. PICK k \in 1..Len(q) :
            /\ ActionId[q[k]] = ActionId[c]
            /\ \A i \in 1..(k-1) : ActionId[q[i]] # ActionId[c]
            /\ Len(q1) = Len(q) - 1
            /\ \A i \in 1..(k-1) : q1[i] = q[i]
            /\ \A i \in k..(Len(q) - 1) : q1[i] = q[i+1]
    BY <1>1, <1>7, WithoutFirstFacts
  <2> HIDE DEF q1, q
  <2>2. k \in Nat \ {0} /\ k <= Len(q)
    BY <1>1, <2>1
  \* Where an entry of the new queue was in the old one.
  <2> DEFINE Old(i) == IF i < k THEN i ELSE i+1
  <2>3. \A i \in 1..Len(q1) : Old(i) \in 1..Len(q) /\ Old(i) # k /\ q1[i] = q[Old(i)]
    BY <1>1, <2>1, <2>2
  <2>4. \A i, j \in Nat : Old(i) = Old(j) => i = j
    BY <2>2
  <2>5. \A i \in 1..Len(q) : i # k => \E j \in 1..Len(q1) : Old(j) = i /\ (i = 1 => j = 1)
    <3> SUFFICES ASSUME NEW i \in 1..Len(q), i # k
                 PROVE  \E j \in 1..Len(q1) : Old(j) = i /\ (i = 1 => j = 1)
      OBVIOUS
    <3>1. CASE i < k
      <4>1. i \in 1..Len(q1) /\ Old(i) = i
        BY <1>1, <2>1, <2>2, <3>1
      <4>2. QED
        BY <4>1
    <3>2. CASE i > k
      <4>1. i-1 \in 1..Len(q1) /\ Old(i-1) = i /\ i # 1
        BY <1>1, <2>1, <2>2, <3>2
      <4>2. QED
        BY <4>1
    <3>3. QED
      BY <2>2, <3>1, <3>2
  <2>6. \A i \in Nat : Old(i) \in Nat
    BY <2>2
  <2> HIDE DEF Old
  <2>7. \A d \in Calls : SameQueue(c, d) =>
            \A i \in Nat : /\ EntryAt(d, i) <=> i \in 1..Len(q) /\ q[i] = d
                           /\ EntryAt(d, i)' <=> i \in 1..Len(q1) /\ q1[i] = d
    BY <1>3 DEF EntryAt
  <2>8. \A d \in Calls : ~SameQueue(c, d) =>
            \A i \in Nat : EntryAt(d, i)' <=> EntryAt(d, i)
    BY <1>3 DEF EntryAt
  \* Each call's entries stay entries, but for the one at k.
  <2>9. \A d \in Calls : SameQueue(c, d) => \A i \in Nat :
            EntryAt(d, i)' => EntryAt(d, Old(i)) /\ Old(i) # k
    BY <2>3, <2>6, <2>7
  <2>10. \A d \in Calls : SameQueue(c, d) => \A i \in Nat :
            EntryAt(d, i) /\ i # k =>
                \E j \in Nat : EntryAt(d, j)' /\ (i = 1 => j = 1)
    <3> SUFFICES ASSUME NEW d \in Calls, SameQueue(c, d), NEW i \in Nat,
                        EntryAt(d, i), i # k
                 PROVE  \E j \in Nat : EntryAt(d, j)' /\ (i = 1 => j = 1)
      OBVIOUS
    <3>1. i \in 1..Len(q) /\ q[i] = d
      BY <2>7
    <3>2. PICK j \in 1..Len(q1) : Old(j) = i /\ (i = 1 => j = 1)
      BY <2>5, <3>1
    <3>3. q1[j] = d /\ j \in Nat
      BY <1>4, <2>3, <3>1, <3>2
    <3>4. QED
      BY <2>7, <3>2, <3>3
  \* The entry at k is no other call's own, and the one of c if it has one.
  <2>11. \A d \in Calls : SameQueue(c, d) /\ d # c /\ Unshared(d) => ~EntryAt(d, k)
    <3> SUFFICES ASSUME NEW d \in Calls, SameQueue(c, d), d # c, Unshared(d), EntryAt(d, k)
                 PROVE  FALSE
      OBVIOUS
    <3>1. q[k] = d
      BY <2>2, <2>7
    <3>2. ActionId[c] # ActionId[d]
      BY DEF Unshared, SameQueue, SameVm
    <3>3. QED
      BY <2>1, <3>1, <3>2
  <2>12. Unshared(c) => EntryAt(c, k)
    <3> SUFFICES ASSUME Unshared(c) PROVE EntryAt(c, k)
      OBVIOUS
    <3>1. q[k] \in Calls /\ Host[q[k]] = Host[c] /\ VmId[q[k]] = VmId[c]
      BY <1>1, <2>1, QueueOfFacts, ElementOfSeq DEF QueueInv, EntriesBelong, q, QueueOf
    <3>2. q[k] = c
      BY <2>1, <3>1 DEF Unshared, SameQueue, SameVm
    <3>3. QED
      BY <2>2, <2>7, <3>2 DEF SameQueue, SameVm
  <2>13. \A i \in Nat : Unshared(c) => ~EntryAt(c, i)'
    <3> SUFFICES ASSUME NEW i \in Nat, Unshared(c), EntryAt(c, i)' PROVE FALSE
      OBVIOUS
    <3>1. EntryAt(c, Old(i)) /\ Old(i) # k
      BY <2>9 DEF SameQueue, SameVm
    <3>2. Old(i) = k
      BY <2>2, <2>6, <2>12, <3>1 DEF QueueInv, EntriesOwned
    <3>3. QED
      BY <3>1, <3>2
  <2>14. EntriesBelong'
    <3> SUFFICES ASSUME NEW e \in Executors, NEW v \in Vms,
                        NEW i \in 1..Len(vmQueue'[e][v])
                 PROVE  Host[vmQueue'[e][v][i]] = e /\ VmId[vmQueue'[e][v][i]] = v
      BY DEF EntriesBelong
    <3>1. CASE e = Host[c] /\ v = VmId[c]
      <4>1. vmQueue'[e][v] = q1 /\ vmQueue[e][v] = q /\ i \in 1..Len(q1)
        BY <1>3, <3>1 DEF q, QueueOf
      <4>2. QED
        BY <2>3, <4>1 DEF QueueInv, EntriesBelong
    <3>2. CASE ~(e = Host[c] /\ v = VmId[c])
      BY <1>3, <3>2 DEF QueueInv, EntriesBelong
    <3>3. QED
      BY <3>1, <3>2
  <2>15. EntriesOwned'
    <3> SUFFICES ASSUME NEW d \in Calls, Unshared(d)
                 PROVE  /\ \A i \in Nat : EntryAt(d, i)' =>
                              /\ pc'[d] \in {Queued, Locking, Guest, Leaving, Abandoned}
                              /\ d \notin dropped'
                        /\ \A i, j \in Nat : EntryAt(d, i)' /\ EntryAt(d, j)' => i = j
      BY UnsharedNext DEF EntriesOwned, HasEntry
    <3>1. CASE d = c
      BY <2>13, <3>1
    <3>2. CASE d # c /\ SameQueue(c, d)
      <4>1. ASSUME NEW i \in Nat, EntryAt(d, i)' PROVE EntryAt(d, Old(i)) /\ Old(i) \in Nat
        BY <2>6, <2>9, <3>2, <4>1
      <4>2. QED
        BY <1>2, <2>4, <3>2, <4>1 DEF QueueInv, EntriesOwned, HasEntry
    <3>3. CASE d # c /\ ~SameQueue(c, d)
      BY <1>2, <2>8, <3>3 DEF QueueInv, EntriesOwned, HasEntry
    <3>4. QED
      BY <3>1, <3>2, <3>3
  <2>16. EntriesPresent'
    <3> SUFFICES ASSUME NEW d \in Calls, Unshared(d), d \notin dropped'
                 PROVE  /\ InProgress(d)' => \E i \in Nat : EntryAt(d, i)'
                        /\ PastQueue(d)' => EntryAt(d, 1)'
      BY UnsharedNext DEF EntriesPresent
    <3>1. /\ InProgress(d)' => d # c /\ InProgress(d)
          /\ PastQueue(d)' => d # c /\ PastQueue(d) /\ InProgress(d)
          /\ d \notin dropped
      BY <1>2 DEF InProgress, PastQueue, Queued, Locking, Guest, Leaving, Done, Idle
    <3>2. CASE d # c /\ SameQueue(c, d)
      <4>1. ASSUME InProgress(d)' PROVE \E i \in Nat : EntryAt(d, i)'
        <5>1. PICK i \in Nat : EntryAt(d, i)
          BY <3>1, <4>1 DEF QueueInv, EntriesPresent
        <5>2. i # k
          BY <2>11, <3>2, <5>1
        <5>3. QED
          BY <2>10, <3>2, <5>1, <5>2
      <4>2. ASSUME PastQueue(d)' PROVE EntryAt(d, 1)'
        <5>1. EntryAt(d, 1)
          BY <3>1, <4>2 DEF QueueInv, EntriesPresent
        <5>2. 1 # k
          BY <2>11, <3>2, <5>1
        <5>3. QED
          BY <2>10, <3>2, <5>1, <5>2
      <4>3. QED
        BY <4>1, <4>2
    <3>3. CASE d # c /\ ~SameQueue(c, d)
      BY <2>8, <3>1, <3>3 DEF QueueInv, EntriesPresent
    <3>4. QED
      BY <3>1, <3>2, <3>3
  <2>17. QED
    BY <2>14, <2>15, <2>16 DEF QueueInv
<1>8. QED
  BY <1>6, <1>7

\* A call that goes on without an entry had none, and is not past the queue.
LEMMA AddToQueueFailsKeepsQueueInv ==
    ASSUME TypeOK, QueueInv, NEW c \in Calls, AddToQueueFails(c)
    PROVE  QueueInv'
<1>1. /\ pc[c] = Idle /\ pc'[c] = Queued /\ \A d \in Calls : d # c => pc'[d] = pc[d]
      /\ dropped' = dropped \cup {c} /\ UNCHANGED vmQueue
  BY DEF AddToQueueFails, Moves, TypeOK
<1>2. \A d \in Calls, i \in Nat : EntryAt(d, i)' <=> EntryAt(d, i)
  BY <1>1 DEF EntryAt, QueueOf
<1>3. Unshared(c) => \A i \in Nat : ~EntryAt(c, i)
  BY <1>1 DEF QueueInv, EntriesOwned, HasEntry, Idle, Queued, Locking, Guest, Leaving,
     Abandoned
<1>4. EntriesBelong'
  BY <1>1 DEF QueueInv, EntriesBelong
<1>5. EntriesOwned'
  BY <1>1, <1>2, <1>3, UnsharedNext DEF QueueInv, EntriesOwned, HasEntry
<1>6. EntriesPresent'
  BY <1>1, <1>2, UnsharedNext DEF QueueInv, EntriesPresent, InProgress, PastQueue
<1>7. QED
  BY <1>4, <1>5, <1>6 DEF QueueInv

\* A restart empties the queues of the executor and kills its calls.
LEMMA RestartKeepsQueueInv ==
    ASSUME TypeOK, QueueInv, NEW x \in Executors, Restart(x)
    PROVE  QueueInv'
<1>1. /\ \A v \in Vms : vmQueue'[x][v] = << >>
      /\ \A e \in Executors, v \in Vms : e # x => vmQueue'[e][v] = vmQueue[e][v]
      /\ dropped' = dropped
  BY DEF Restart, TypeOK
<1>2. \A d \in Calls, i \in Nat :
          EntryAt(d, i)' <=> EntryAt(d, i) /\ Host[d] # x
  BY <1>1, ConstantsAssumption DEF EntryAt, QueueOf
<1>3. \A d \in Calls : /\ Host[d] # x => pc'[d] = pc[d]
                       /\ InProgress(d)' => InProgress(d) /\ Host[d] # x
                       /\ PastQueue(d)' => PastQueue(d) /\ Host[d] # x
  BY DEF Restart, TypeOK, InProgress, PastQueue, Queued, Locking, Guest, Leaving, Dead
<1>4. EntriesBelong'
  BY <1>1 DEF QueueInv, EntriesBelong
<1>5. EntriesOwned'
  BY <1>1, <1>2, <1>3, UnsharedNext DEF QueueInv, EntriesOwned, HasEntry
<1>6. EntriesPresent'
  BY <1>1, <1>2, <1>3, UnsharedNext DEF QueueInv, EntriesPresent
<1>7. QED
  BY <1>4, <1>5, <1>6 DEF QueueInv

\* A step that leaves the queues alone, lets every entry keep its owner, and lets no
\* call with an entry of its own get past the queue but the one at the front.
MoveInPlace ==
    /\ UNCHANGED <<vmQueue, dropped>>
    /\ \A d \in Calls :
          /\ HasEntry(d) => HasEntry(d)'
          /\ InProgress(d)' => InProgress(d)
          /\ PastQueue(d)' /\ OwnEntry(d) => PastQueue(d) \/ EntryAt(d, 1)

\* The steps that leave all queues alone (waitUntilFrontOfQueue returning, the
\* lease taken, lost or given back) keep the queues' invariant.
LEMMA MoveKeepsQueueInv ==
    ASSUME TypeOK, QueueInv, MoveInPlace
    PROVE  QueueInv'
<1>1. \A d \in Calls, i \in Nat : EntryAt(d, i)' <=> EntryAt(d, i)
  BY DEF MoveInPlace, EntryAt, QueueOf
<1>2. EntriesBelong'
  BY DEF MoveInPlace, QueueInv, EntriesBelong
<1>3. EntriesOwned'
  BY <1>1, UnsharedNext DEF MoveInPlace, QueueInv, EntriesOwned
<1>4. EntriesPresent'
  BY <1>1, UnsharedNext DEF MoveInPlace, QueueInv, EntriesPresent, OwnEntry
<1>5. QED
  BY <1>2, <1>3, <1>4 DEF QueueInv

\* waitUntilFrontOfQueue lets a call with an entry of its own past only when that
\* entry is at the front.
LEMMA PassQueueInPlace ==
    ASSUME TypeOK, QueueInv, NEW c \in Calls, PassQueue(c)
    PROVE  MoveInPlace
<1> DEFINE q == QueueOf(c)
<1>1. /\ pc[c] = Queued /\ pc'[c] = Locking /\ \A d \in Calls : d # c => pc'[d] = pc[d]
      /\ UNCHANGED <<vmQueue, dropped>>
  BY DEF PassQueue, Moves, TypeOK
<1>2. ASSUME OwnEntry(c) PROVE EntryAt(c, 1)
  <2>1. q \in Seq(Calls) /\ Len(q) \in Nat
    BY QueueOfFacts
  <2>2. PICK i \in Nat : EntryAt(c, i)
    BY <1>1, <1>2 DEF QueueInv, EntriesPresent, OwnEntry, InProgress
  <2>3. 1 \in 1..Len(q) /\ q # << >> /\ Head(q) = q[1] /\ q[1] \in Calls
    BY <2>1, <2>2, HeadFacts DEF EntryAt
  <2>4. ActionId[q[1]] = ActionId[c]
    BY <2>3 DEF PassQueue, AtFront
  <2>5. Host[q[1]] = Host[c] /\ VmId[q[1]] = VmId[c]
    BY <2>3, QueueOfFacts DEF QueueInv, EntriesBelong, QueueOf
  <2>6. q[1] = c
    BY <1>2, <2>3, <2>4, <2>5 DEF OwnEntry, Unshared, SameQueue, SameVm
  <2>7. QED
    BY <2>3, <2>6 DEF EntryAt
<1>3. QED
  BY <1>1, <1>2 DEF MoveInPlace, HasEntry, InProgress, PastQueue, Queued, Locking

\* Every step keeps the queues' invariant, also those of calls that share an action
\* or have no entry.
LEMMA QueueInvStep ==
    ASSUME TypeOK, QueueInv, [Next]_vars
    PROVE  QueueInv'
<1> USE DEF HasEntry, InProgress, PastQueue, Idle, Queued, Locking, Guest, Leaving,
        Done, Abandoned, Dead
<1>1. ASSUME NEW c \in Calls, AddToQueue(c) PROVE QueueInv'
  BY <1>1, AddToQueueKeepsQueueInv
<1>2. ASSUME NEW c \in Calls, AddToQueueFails(c) PROVE QueueInv'
  BY <1>2, AddToQueueFailsKeepsQueueInv
<1>3. ASSUME NEW c \in Calls, PassQueue(c) PROVE QueueInv'
  BY <1>3, PassQueueInPlace, MoveKeepsQueueInv
<1>4. ASSUME NEW c \in Calls, AcquireLease(c) PROVE QueueInv'
  <2>1. MoveInPlace
    BY <1>4 DEF AcquireLease, Moves, TypeOK, MoveInPlace
  <2>2. QED
    BY <2>1, MoveKeepsQueueInv
<1>5. ASSUME NEW c \in Calls, LockFails(c) PROVE QueueInv'
  <2>1. MoveInPlace
    BY <1>5 DEF LockFails, Moves, TypeOK, MoveInPlace
  <2>2. QED
    BY <2>1, MoveKeepsQueueInv
<1>6. ASSUME NEW c \in Calls, ReleaseLease(c) PROVE QueueInv'
  <2>1. MoveInPlace
    BY <1>6 DEF ReleaseLease, Moves, TypeOK, MoveInPlace
  <2>2. QED
    BY <2>1, MoveKeepsQueueInv
<1>7. ASSUME NEW c \in Calls, LeaveQueue(c) PROVE QueueInv'
  BY <1>7, LeaveQueueKeepsQueueInv
<1>8. ASSUME NEW v \in Vms, LeaseExpires(v) PROVE QueueInv'
  <2>1. MoveInPlace
    BY <1>8 DEF LeaseExpires, MoveInPlace
  <2>2. QED
    BY <2>1, MoveKeepsQueueInv
<1>9. ASSUME NEW e \in Executors, Restart(e) PROVE QueueInv'
  BY <1>9, RestartKeepsQueueInv
<1>10. CASE UNCHANGED vars
  <2>1. MoveInPlace
    BY <1>10 DEF vars, MoveInPlace
  <2>2. QED
    BY <2>1, MoveKeepsQueueInv
<1>11. QED
  BY <1>1, <1>2, <1>3, <1>4, <1>5, <1>6, <1>7, <1>8, <1>9, <1>10 DEF Next, CallStep

\* The queues are in order in every reachable state.
LEMMA QueueInvariant == Spec => []QueueInv
<1>1. ASSUME Init PROVE QueueInv
  <2> USE <1>1
  <2>1. \A e \in Executors, v \in Vms : vmQueue[e][v] = << >>
    BY DEF Init
  <2>2. \A d \in Calls : QueueOf(d) = << >>
    BY <2>1, ConstantsAssumption DEF QueueOf
  <2>3. \A d \in Calls, i \in Nat : ~EntryAt(d, i)
    BY <2>2 DEF EntryAt
  <2>4. \A d \in Calls : ~InProgress(d) /\ ~PastQueue(d)
    BY DEF Init, InProgress, PastQueue, Idle, Queued, Locking, Guest, Leaving
  <2>5. QED
    BY <2>1, <2>3, <2>4 DEF QueueInv, EntriesBelong, EntriesOwned, EntriesPresent
<1>2. TypeOK /\ QueueInv /\ [Next]_vars => QueueInv'
  BY QueueInvStep
<1>3. QED
  BY <1>1, <1>2, TypeCorrect, PTL DEF Spec

\* A call past the queue with an entry of its own is at the front.
LEMMA PastIsFirst ==
    ASSUME TypeOK, QueueInv, NEW c \in Calls, PastQueue(c), OwnEntry(c)
    PROVE  QueueOf(c)[1] = c
  BY DEF QueueInv, EntriesPresent, OwnEntry, EntryAt

\* The queues of an executor let one call with an entry of its own past at a time,
\* whatever calls without one do, even when leases run out under long guest actions.
THEOREM QueueExclusion == Spec => []OnePastQueue
<1>1. TypeOK /\ QueueInv => OnePastQueue
  <2> SUFFICES ASSUME TypeOK, QueueInv, NEW c \in Calls, NEW d \in Calls,
                      c # d, SameQueue(c, d), OwnEntry(c), OwnEntry(d),
                      PastQueue(c), PastQueue(d)
               PROVE  FALSE
    BY DEF OnePastQueue
  <2>1. QueueOf(c)[1] = c /\ QueueOf(d)[1] = d
    BY PastIsFirst
  <2>2. QueueOf(c) = QueueOf(d)
    BY DEF QueueOf, SameQueue, SameVm
  <2>3. QED
    BY <2>1, <2>2
<1>2. QED
  BY <1>1, TypeCorrect, QueueInvariant, PTL

\* Calls with an action of their own enter the guest in the order of their queue: a
\* call that is let in is at the front or has no entry.
THEOREM ArrivalOrder == Spec => ServedInOrder
<1> DEFINE InOrder == \A c, d \in Calls :
        pc[d] # Guest /\ pc'[d] = Guest /\ Unshared(d) => ~Before(c, d)
<1>1. TypeOK /\ QueueInv /\ [Next]_vars => InOrder
  <2> SUFFICES ASSUME TypeOK, QueueInv, [Next]_vars, NEW c \in Calls, NEW d \in Calls,
                      pc[d] # Guest, pc'[d] = Guest, Unshared(d), Before(c, d)
               PROVE  FALSE
    OBVIOUS
  <2>1. pc[d] = Locking
    BY DEF Next, CallStep, AddToQueue, AddToQueueFails, PassQueue, AcquireLease,
       LockFails, ReleaseLease, LeaveQueue, LeaseExpires, Restart, Moves, TypeOK, vars,
       Idle, Queued, Locking, Guest, Leaving, Done, Abandoned, Dead
  <2>2. PICK i, j \in 1..Len(QueueOf(d)) : i < j /\ QueueOf(d)[j] = d
    BY DEF Before
  <2>3. Len(QueueOf(d)) \in Nat
    BY QueueOfFacts
  <2>4. i \in Nat /\ j \in Nat /\ i >= 1 /\ EntryAt(d, j)
    BY <2>2, <2>3 DEF EntryAt
  <2>5. d \notin dropped
    BY <2>4 DEF QueueInv, EntriesOwned
  <2>6. EntryAt(d, 1)
    BY <2>1, <2>5 DEF QueueInv, EntriesPresent, PastQueue
  <2>7. j = 1
    BY <2>4, <2>6 DEF QueueInv, EntriesOwned
  <2>8. QED
    BY <2>2, <2>4, <2>7
<1>2. QED
  BY <1>1, TypeCorrect, QueueInvariant, PTL DEF Spec, ServedInOrder

-----------------------------------------------------------------------------
(* The promise of GuestAccess, kept twice over. *)

\* A call comes into the guest by AcquireLease alone.
LEMMA EntersByLease ==
    ASSUME TypeOK, [Next]_vars, NEW c \in Calls, pc[c] # Guest, pc'[c] = Guest
    PROVE  \A d \in Calls \ {c} : pc'[d] = pc[d]
  BY DEF Next, CallStep, AddToQueue, AddToQueueFails, PassQueue, AcquireLease,
     LockFails, ReleaseLease, LeaveQueue, LeaseExpires, Restart, Moves, TypeOK, vars,
     Idle, Queued, Locking, Guest, Leaving, Done, Abandoned, Dead

\* Which calls have an entry of their own changes only for a call on its way in.
LEMMA OwnEntryKept ==
    ASSUME TypeOK, [Next]_vars, NEW c \in Calls, pc'[c] = Guest
    PROVE  OwnEntry(c)' <=> OwnEntry(c)
<1>1. c \in dropped' <=> c \in dropped
  BY DEF Next, CallStep, AddToQueue, AddToQueueFails, PassQueue, AcquireLease,
     LockFails, ReleaseLease, LeaveQueue, LeaseExpires, Restart, Moves, TypeOK, vars,
     Idle, Queued, Locking, Guest, Leaving, Done, Abandoned, Dead
<1>2. QED
  BY <1>1, UnsharedNext DEF OwnEntry

\* By the lease: the distributor implements GuestAccess for the calls of all
\* executors that stay within their leases.
THEOREM LeaseImplementsGuestAccess == Spec => ImplementsGuestAccess
<1> DEFINE G == {c \in Calls \ Long : pc[c] = Guest}
<1>1. Init => Access!Init
  BY DEF Init, Access!Init, Idle, Guest
<1>2. ASSUME TypeOK, OneInGuest', [Next]_vars
      PROVE  [Access!Next]_G
  <2>1. CASE G' \subseteq G
    <3>1. G \ G' \in SUBSET G /\ G' = G \ (G \ G') /\ G \ G' \in SUBSET Calls
      BY <2>1
    <3>2. QED
      BY <3>1 DEF Access!Next, Access!Leave
  <2>2. CASE ~(G' \subseteq G)
    <3>1. PICK c \in Calls \ Long : pc[c] # Guest /\ pc'[c] = Guest
      BY <2>2
    <3>2. \A d \in Calls \ {c} : pc'[d] = pc[d]
      BY <1>2, <3>1, EntersByLease
    <3>3. c \notin G /\ G' = G \cup {c}
      BY <3>1, <3>2
    <3>4. \A d \in G : VmId[d] # VmId[c]
      BY <1>2, <3>1, <3>3 DEF OneInGuest, SameVm
    <3>5. QED
      BY <3>1, <3>3, <3>4 DEF Access!Next, Access!Enter
  <2>3. QED
    BY <2>1, <2>2
<1>3. QED
  BY <1>1, <1>2, TypeCorrect, LeaseExclusion, PTL
     DEF Spec, Access!Spec, ImplementsGuestAccess

\* By the queues: it implements GuestAccess for the calls of each executor that have
\* entries of their own, leases or not.
THEOREM QueueImplementsGuestAccess == Spec => QueueGivesAccess
<1> DEFINE G == {c \in Calls : pc[c] = Guest /\ OwnEntry(c)}
<1>1. Init => QueueAccess!Init
  BY DEF Init, QueueAccess!Init, Idle, Guest
<1>2. ASSUME TypeOK, OnePastQueue', [Next]_vars
      PROVE  [QueueAccess!Next]_G
  <2>1. CASE G' \subseteq G
    <3>1. G \ G' \in SUBSET G /\ G' = G \ (G \ G') /\ G \ G' \in SUBSET Calls
      BY <2>1
    <3>2. QED
      BY <3>1 DEF QueueAccess!Next, QueueAccess!Leave
  <2>2. CASE ~(G' \subseteq G)
    <3>1. PICK c \in Calls : c \in G' /\ c \notin G
      BY <2>2
    <3>2. pc'[c] = Guest /\ OwnEntry(c)' /\ pc[c] # Guest
      BY <1>2, <3>1, OwnEntryKept
    <3>3. \A d \in Calls \ {c} : pc'[d] = pc[d]
      BY <1>2, <3>2, EntersByLease
    <3>4. \A d \in Calls : pc'[d] = Guest => (OwnEntry(d)' <=> OwnEntry(d))
      BY <1>2, OwnEntryKept
    <3>5. G' = G \cup {c}
      BY <3>1, <3>3, <3>4
    <3>6. ASSUME NEW d \in G PROVE <<Host[d], VmId[d]>> # <<Host[c], VmId[c]>>
      <4>1. d \in Calls /\ d # c /\ pc'[d] = Guest /\ OwnEntry(d)'
        BY <3>1, <3>5
      <4>2. PastQueue(c)' /\ PastQueue(d)'
        BY <3>2, <4>1 DEF PastQueue
      <4>3. ~SameQueue(c, d)
        BY <1>2, <3>2, <4>1, <4>2 DEF OnePastQueue, SameQueue, SameVm
      <4>4. QED
        BY <4>3 DEF SameQueue, SameVm
    <3>7. \A d \in G : [a \in Calls |-> <<Host[a], VmId[a]>>][d]
                         # [a \in Calls |-> <<Host[a], VmId[a]>>][c]
      BY <3>1, <3>6
    <3>8. QED
      BY <3>1, <3>5, <3>7 DEF QueueAccess!Next, QueueAccess!Enter
  <2>3. QED
    BY <2>1, <2>2
<1>3. QED
  BY <1>1, <1>2, TypeCorrect, QueueExclusion, PTL
     DEF Spec, QueueAccess!Spec, QueueGivesAccess
=============================================================================
