-------------------------- MODULE SharedMutex_proofs --------------------------
(***************************************************************************)
(* Proofs about SharedMutex, for every set of goroutines and executors,    *)
(* however often a Lock gives up and a key runs out.                       *)
(***************************************************************************)
EXTENDS SharedMutex, TLAPS

Places == {"outer", "inner", "vm", "section"}

\* The steps of a goroutine, by what they do to a mutex: queue sections are entered
\* by a Lock of QueueMutex and left by an Unlock of it.
LEMMA StepKinds ==
    ASSUME TypeOK, NEW g \in Goroutines, Step(g)
    PROVE  /\ \/ \E place \in {"outer", "inner", "vm"} : Lock(g, "counter", place)
              \/ Unlock(g, "counter")
              \/ Lock(g, "queue", "section")
              \/ Unlock(g, "queue")
           /\ pc' \in [Goroutines -> PcValues]
           /\ \A h \in Goroutines \ {g} : InSection(h)' <=> InSection(h)
BY DEF TypeOK, PcValues, InSection, Goes, Step, LockCounter, LockCounterAgain,
       UnlockNested, UnlockCounter, LockQueueToAdd, LockVMCounter, UnlockVMCounter,
       UnlockAdded, LockQueue, UnlockQueue

\* Who is in a section after a step of its own, by what the step does.
LEMMA SectionSteps ==
    ASSUME TypeOK, NEW g \in Goroutines, Step(g)
    PROVE  \/ /\ \/ \E place \in {"outer", "inner", "vm"} : Lock(g, "counter", place)
                 \/ Unlock(g, "counter")
              /\ InSection(g)' <=> InSection(g)
           \/ Lock(g, "queue", "section")
           \/ Unlock(g, "queue") /\ InSection(g) /\ ~InSection(g)'
BY DEF TypeOK, PcValues, InSection, Goes, Step, LockCounter, LockCounterAgain,
       UnlockNested, UnlockCounter, LockQueueToAdd, LockVMCounter, UnlockVMCounter,
       UnlockAdded, LockQueue, UnlockQueue

\* redsync's Lock and Unlock leave keys and kept values that are drawn values or
\* nothing.
LEMMA LockType ==
    ASSUME TypeOK, NEW g \in Goroutines, NEW m \in Mutexes, NEW place \in Places,
           Lock(g, m, place) \/ Unlock(g, m)
    PROVE  /\ key' \in [Mutexes -> Values \cup {None}]
           /\ value' \in [Processes -> [Mutexes -> Values \cup {None}]]
           /\ disturbed' \subseteq Processes
<1> USE DEF TypeOK
<1>1. <<g, place>> \in Values /\ Host[g] \in Processes
  BY SharedMutexAssumption DEF Values, Places
<1>2. CASE Unlock(g, m)
  BY <1>2 DEF Unlock, Disturbs
<1>3. CASE TakesKey(g, m, <<g, place>>)
  BY <1>1, <1>3 DEF TakesKey, Disturbs
<1>4. CASE /\ UNCHANGED <<key, value>>
           /\ Disturbs(IF m = "queue" THEN {Host[g]} ELSE {})
  BY <1>1, <1>4 DEF Disturbs
<1>5. QED
  BY <1>2, <1>3, <1>4 DEF Lock

\* Every reachable state is well formed.
THEOREM TypeCorrect == Spec => []TypeOK
<1>1. Init => TypeOK
  BY DEF Init, TypeOK, PcValues
<1>2. TypeOK /\ [Next]_vars => TypeOK'
  <2> SUFFICES ASSUME TypeOK, [Next]_vars PROVE TypeOK'
    OBVIOUS
  <2>1. ASSUME NEW g \in Goroutines, Step(g) PROVE TypeOK'
    <3>1. \E m \in Mutexes, place \in Places : Lock(g, m, place) \/ Unlock(g, m)
      BY <2>1, StepKinds DEF Mutexes, Places
    <3>2. /\ key' \in [Mutexes -> Values \cup {None}]
          /\ value' \in [Processes -> [Mutexes -> Values \cup {None}]]
          /\ disturbed' \subseteq Processes
      BY <3>1, LockType
    <3>3. QED
      BY <2>1, <3>2, StepKinds DEF TypeOK
  <2>2. ASSUME NEW m \in Mutexes, KeyExpires(m) PROVE TypeOK'
    <3>1. key[m] \in Values
      BY <2>2 DEF KeyExpires, TypeOK
    <3>2. Host[key[m][1]] \in Processes
      BY <3>1, SharedMutexAssumption DEF Values
    <3>3. QED
      BY <2>2, <3>2 DEF KeyExpires, TypeOK, Disturbs
  <2>3. CASE UNCHANGED vars
    BY <2>3 DEF vars, TypeOK
  <2>4. QED
    BY <2>1, <2>2, <2>3 DEF Next
<1>3. QED
  BY <1>1, <1>2, PTL DEF Spec

-----------------------------------------------------------------------------
(* Exclusion of the queue sections. *)

\* The value that an executor's object for QueueMutex keeps was drawn by one of its
\* own goroutines, so that its Unlock deletes no other executor's lock.
OwnValues ==
    \A p \in Processes :
        value[p]["queue"] # None => Host[value[p]["queue"][1]] = p

\* The object of the executor that holds the key keeps its value, so that its Unlock
\* deletes it.
KeptValue ==
    key["queue"] # None => value[Host[key["queue"][1]]]["queue"] = key["queue"]

\* In an executor that is not disturbed, who is in a section holds the key.
SectionOwns ==
    \A g \in Goroutines :
        InSection(g) /\ Host[g] \notin disturbed => key["queue"] = <<g, "section">>

SectionInv == OwnValues /\ KeptValue /\ SectionOwns

\* No executor in a section stops being disturbed.
LEMMA DisturbedStays ==
    ASSUME NEW P, Disturbs(P), NEW g \in Goroutines, InSection(g)'
    PROVE  Host[g] \in disturbed' <=> Host[g] \in disturbed \cup P
  BY DEF Disturbs

\* A drawn value is a pair, and not nothing.
LEMMA ValueIsPair ==
    \A v \in Values : v # None /\ v[1] \in Goroutines
  BY DEF Values, None

\* QueueMutex.Lock that takes the key: nobody undisturbed was in a section.
LEMMA TakesKeyKeepsSectionInv ==
    ASSUME TypeOK, SectionInv, NEW h \in Goroutines,
           TakesKey(h, "queue", <<h, "section">>),
           \A g \in Goroutines \ {h} : InSection(g)' <=> InSection(g)
    PROVE  SectionInv'
<1> DEFINE v == <<h, "section">>
<1>1. /\ key["queue"] = None /\ key'["queue"] = v
      /\ value'[Host[h]]["queue"] = v
      /\ \A p \in Processes \ {Host[h]} : value'[p]["queue"] = value[p]["queue"]
  BY SharedMutexAssumption DEF TakesKey, TypeOK, Mutexes
<1>2. v # None /\ v[1] = h
  BY DEF None
<1>3. OwnValues'
  BY <1>1, <1>2 DEF SectionInv, OwnValues
<1>4. KeptValue'
  BY <1>1, <1>2 DEF KeptValue
<1>5. SectionOwns'
  <2> SUFFICES ASSUME NEW g \in Goroutines, InSection(g)', Host[g] \notin disturbed'
               PROVE  key'["queue"] = <<g, "section">>
    BY DEF SectionOwns
  <2>1. CASE g = h
    BY <1>1, <2>1
  <2>2. CASE g # h
    <3>1. InSection(g) /\ Host[g] \notin disturbed
      BY <2>2, DisturbedStays DEF TakesKey
    <3>2. key["queue"] = <<g, "section">> /\ <<g, "section">> # None
      BY <3>1 DEF SectionInv, SectionOwns, None
    <3>3. QED
      BY <1>1, <3>2
  <2>3. QED
    BY <2>1, <2>2
<1>6. QED
  BY <1>3, <1>4, <1>5 DEF SectionInv

\* A step that leaves the lock of the sections alone and lets only goroutines of
\* executors that it disturbs into them: QueueMutex.Lock that gives up, and all that
\* happens to CounterMutex.
LEMMA ElsewhereKeepsSectionInv ==
    ASSUME TypeOK, SectionInv, NEW P, Disturbs(P),
           key'["queue"] = key["queue"],
           \A p \in Processes : value'[p]["queue"] = value[p]["queue"],
           \A g \in Goroutines : InSection(g)' => InSection(g) \/ Host[g] \in P
    PROVE  SectionInv'
<1>1. OwnValues'
  BY DEF SectionInv, OwnValues
<1>2. KeptValue'
  <2>1. key["queue"] # None => Host[key["queue"][1]] \in Processes
    BY ValueIsPair, SharedMutexAssumption DEF TypeOK, Mutexes
  <2>2. QED
    BY <2>1 DEF SectionInv, KeptValue
<1>3. SectionOwns'
  BY DisturbedStays DEF SectionInv, SectionOwns
<1>4. QED
  BY <1>1, <1>2, <1>3 DEF SectionInv

\* QueueMutex.Unlock: it deletes the key only of its own executor, and no other
\* goroutine of that executor is in a section undisturbed.
LEMMA UnlockKeepsSectionInv ==
    ASSUME TypeOK, SectionInv, NEW h \in Goroutines, Unlock(h, "queue"),
           InSection(h), ~InSection(h)',
           \A g \in Goroutines \ {h} : InSection(g)' <=> InSection(g)
    PROVE  SectionInv'
<1>1. /\ key'["queue"] = IF key["queue"] = value[Host[h]]["queue"] THEN None
                                                                   ELSE key["queue"]
      /\ value' = value
  BY DEF Unlock, TypeOK, Mutexes
<1>2. OwnValues'
  BY <1>1 DEF SectionInv, OwnValues
<1>3. KeptValue'
  BY <1>1 DEF SectionInv, KeptValue
<1>4. SectionOwns'
  <2> SUFFICES ASSUME NEW g \in Goroutines, InSection(g)', Host[g] \notin disturbed'
               PROVE  key'["queue"] = <<g, "section">>
    BY DEF SectionOwns
  <2>1. g # h /\ InSection(g) /\ Host[g] \notin disturbed
    BY DisturbedStays DEF Unlock
  <2>2. key["queue"] = <<g, "section">> /\ <<g, "section">> # None
    BY <2>1 DEF SectionInv, SectionOwns, None
  <2>3. ASSUME key["queue"] = value[Host[h]]["queue"] PROVE FALSE
    <3>1. Host[h] \in Processes
      BY SharedMutexAssumption
    <3>2. Host[g] = Host[h]
      BY <2>2, <2>3, <3>1 DEF SectionInv, OwnValues
    <3>3. key["queue"] = <<h, "section">>
      BY <2>1, <3>2 DEF SectionInv, SectionOwns
    <3>4. QED
      BY <2>1, <2>2, <3>3
  <2>4. QED
    BY <1>1, <2>2, <2>3
<1>5. QED
  BY <1>2, <1>3, <1>4 DEF SectionInv

\* QueueMutex's key runs out: the executor whose value it held is disturbed.
LEMMA ExpiryKeepsSectionInv ==
    ASSUME TypeOK, SectionInv, KeyExpires("queue")
    PROVE  SectionInv'
<1>1. /\ key'["queue"] = None /\ value' = value /\ pc' = pc
      /\ key["queue"] # None /\ Disturbs({Host[key["queue"][1]]})
  BY DEF KeyExpires, TypeOK, Mutexes
<1>2. OwnValues' /\ KeptValue'
  BY <1>1 DEF SectionInv, OwnValues, KeptValue
<1>3. SectionOwns'
  <2> SUFFICES ASSUME NEW g \in Goroutines, InSection(g)', Host[g] \notin disturbed'
               PROVE  FALSE
    BY DEF SectionOwns
  <2>1. InSection(g)
    BY <1>1 DEF InSection
  <2>2. Host[g] \notin disturbed /\ Host[g] # Host[key["queue"][1]]
    BY <1>1, DisturbedStays
  <2>3. key["queue"] = <<g, "section">>
    BY <2>1, <2>2 DEF SectionInv, SectionOwns
  <2>4. QED
    BY <2>2, <2>3
<1>4. QED
  BY <1>2, <1>3 DEF SectionInv

\* Two goroutines are in a queue section together only while one of their executors
\* is disturbed, by a Lock that gave up or by a key that ran out: an Unlock of a
\* section that held nothing never opens another executor's, and when the sections
\* that overlapped are over the shared object excludes again.
THEOREM SectionExclusion == Spec => []SectionsApart
<1>1. Init => SectionInv
  BY DEF Init, SectionInv, OwnValues, KeptValue, SectionOwns, InSection, Mutexes
<1>2. TypeOK /\ SectionInv /\ [Next]_vars => SectionInv'
  <2> SUFFICES ASSUME TypeOK, SectionInv, [Next]_vars PROVE SectionInv'
    OBVIOUS
  <2>1. ASSUME NEW h \in Goroutines, Step(h) PROVE SectionInv'
    <3>1. \A g \in Goroutines \ {h} : InSection(g)' <=> InSection(g)
      BY <2>1, StepKinds
    <3>2. CASE Lock(h, "queue", "section")
      <4>1. CASE TakesKey(h, "queue", <<h, "section">>)
        BY <3>1, <4>1, TakesKeyKeepsSectionInv
      <4>2. CASE UNCHANGED <<key, value>> /\ Disturbs({Host[h]})
        BY <3>1, <4>2, ElsewhereKeepsSectionInv
      <4>3. QED
        BY <3>2, <4>1, <4>2 DEF Lock
    <3>3. CASE Unlock(h, "queue") /\ InSection(h) /\ ~InSection(h)'
      BY <3>1, <3>3, UnlockKeepsSectionInv
    <3>4. CASE /\ \/ \E place \in {"outer", "inner", "vm"} : Lock(h, "counter", place)
                  \/ Unlock(h, "counter")
               /\ InSection(h)' <=> InSection(h)
      <4>1. /\ key'["queue"] = key["queue"]
            /\ \A p \in Processes : value'[p]["queue"] = value[p]["queue"]
            /\ Disturbs({})
        BY <3>4 DEF Lock, TakesKey, Unlock, TypeOK, Mutexes
      <4>2. QED
        BY <3>1, <3>4, <4>1, ElsewhereKeepsSectionInv
    <3>5. QED
      BY <2>1, <3>2, <3>3, <3>4, SectionSteps
  <2>2. CASE KeyExpires("queue")
    BY <2>2, ExpiryKeepsSectionInv
  <2>3. CASE KeyExpires("counter")
    <3>1. /\ key'["queue"] = key["queue"] /\ value' = value /\ pc' = pc /\ Disturbs({})
      BY <2>3 DEF KeyExpires, TypeOK, Mutexes
    <3>2. QED
      BY <3>1, ElsewhereKeepsSectionInv DEF InSection
  <2>4. CASE UNCHANGED vars
    BY <2>4 DEF vars, SectionInv, OwnValues, KeptValue, SectionOwns, InSection
  <2>5. QED
    BY <2>1, <2>2, <2>3, <2>4 DEF Next, Mutexes
<1>3. SectionInv => SectionsApart
  BY DEF SectionInv, SectionOwns, SectionsApart
<1>4. QED
  BY <1>1, <1>2, <1>3, TypeCorrect, PTL DEF Spec
=============================================================================
