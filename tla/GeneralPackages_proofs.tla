----------------------- MODULE GeneralPackages_proofs -----------------------
(***************************************************************************)
(* Proofs about GeneralPackages, for every set of calls and every fault.   *)
(***************************************************************************)
EXTENDS GeneralPackages, TLAPS

-----------------------------------------------------------------------------
(* Every state is well formed. *)

\* The path of two words is that of a Create's file or of none.
LEMMA NamedType ==
    ASSUME NEW words \in [Words -> Creates \cup {NoEntry, NoFile}],
           \A w \in Words : words[w] # NoEntry
    PROVE  Named(words) \subseteq Creates \cup {NoFile}
BY DEF Named, Words

\* A Create marshals what it has written whole, and stores what it has marshalled whole.
WordsInv ==
    \A c \in Creates :
        /\ pc[c] \in {"start", "convert"} => unwritten[c] = Words
        /\ pc[c] = "marshal" => unwritten[c] = {}
        /\ pc[c] = "store" => \A w \in Words : read[c][w] # NoEntry

TypeInv == TypeOK /\ WordsInv

LEMMA CreateType ==
    ASSUME TypeInv, NEW c \in Creates, CreateStep(c)
    PROVE  TypeInv'
<1> USE GeneralAssumption
    DEF TypeInv, TypeOK, WordsInv, Calls, Readers, PcValues, InContainer, Goes,
        containerVars, readerVars
<1>0. UNCHANGED readerVars
  BY DEF CreateStep
<1>1. CASE Begin(c)
  BY <1>0, <1>1 DEF Begin
<1>2. CASE Convert(c)
  <2>1. crossed' \subseteq Creates
    BY <1>2 DEF Convert, Meets, Fault
  <2>2. files' \subseteq Creates
    BY <1>2 DEF Convert, Fault
  <2>3. QED
    BY <1>0, <1>2, <2>1, <2>2 DEF Convert, Fault
<1>3. CASE WriteContainer(c)
  <2>1. PICK w \in unwritten[c] :
           /\ container' = [container EXCEPT ![w] = c]
           /\ unwritten' = [unwritten EXCEPT ![c] = @ \ {w}]
           /\ pc' = [pc EXCEPT ![c] = IF unwritten[c] = {w} THEN "marshal" ELSE "write"]
    BY <1>3 DEF WriteContainer
  <2>2. TypeOK'
    <3>1. w \in Words /\ unwritten[c] \ {w} \in SUBSET Words
      BY <2>1
    <3>2. unwritten' \in [Creates -> SUBSET Words]
      BY <2>1, <3>1
    <3>3. pc' \in [Calls -> PcValues] /\ container' \in [Words -> Creates \cup {NoFile}]
      BY <2>1, <3>1
    <3>4. QED
      BY <1>0, <1>3, <3>2, <3>3 DEF WriteContainer
  <2>3. WordsInv'
    BY <1>3, <2>1 DEF WriteContainer
  <2>4. QED
    BY <2>2, <2>3
<1>4. CASE Marshal(c)
  <2>1. PICK w \in Words :
           /\ read' = [read EXCEPT ![c][w] = container[w]]
           /\ pc' = [pc EXCEPT ![c] = IF \A v \in Words \ {w} : read[c][v] # NoEntry
                                      THEN "store" ELSE "marshal"]
    BY <1>4 DEF Marshal
  <2>2. TypeOK'
    BY <1>0, <1>4, <2>1 DEF Marshal
  <2>3. WordsInv'
    <3>1. container[w] # NoEntry
      BY DEF NoEntry, NoFile
    <3>2. pc'[c] = "store" => \A v \in Words : read'[c][v] # NoEntry
      BY <2>1, <3>1
    <3>3. \A d \in Creates \ {c} : pc'[d] = pc[d] /\ read'[d] = read[d]
      BY <2>1
    <3>4. pc'[c] \in {"store", "marshal"} /\ UNCHANGED unwritten /\ unwritten[c] = {}
      BY <1>4, <2>1 DEF Marshal
    <3>5. QED
      BY <3>2, <3>3, <3>4
  <2>4. QED
    BY <2>2, <2>3
<1>5. CASE Store(c)
  <2>1. pc[c] = "store" /\ Named(read[c]) \subseteq Creates \cup {NoFile}
    <3>1. pc[c] = "store"
      BY <1>5 DEF Store, Fault
    <3>2. /\ read[c] \in [Words -> Creates \cup {NoEntry, NoFile}]
          /\ \A w \in Words : read[c][w] # NoEntry
      BY <3>1
    <3>3. QED
      BY <3>1, <3>2, NamedType
  <2>2. entry' \in [Creates -> Creates \cup {NoEntry, NoFile}]
    BY <1>5, <2>1 DEF Store, Fault
  <2>3. PICK place \in {"done", "error"} : pc' = [pc EXCEPT ![c] = place]
    BY <1>5 DEF Store, Fault
  <2>4. /\ pc' \in [Calls -> PcValues] /\ \A d \in Creates \ {c} : pc'[d] = pc[d]
        /\ pc'[c] \in {"done", "error"} /\ unsettled' \subseteq Calls
    <3>1. unsettled' \subseteq unsettled \cup {c}
      BY <1>5 DEF Store, Fault
    <3>2. QED
      BY <2>3, <3>1
  <2>5. QED
    BY <1>0, <1>5, <2>2, <2>3, <2>4 DEF Store
<1>6. QED
  BY <1>1, <1>2, <1>3, <1>4, <1>5 DEF CreateStep

LEMMA ReaderType ==
    ASSUME TypeInv, NEW r \in Readers,
           \/ r \in Streams /\ StreamStep(r)
           \/ r \in Deletes /\ DeleteStep(r)
    PROVE  TypeInv'
<1>1. UNCHANGED containerVars /\ r \in Calls /\ r \notin Creates
  BY GeneralAssumption DEF StreamStep, DeleteStep, Calls, Readers
\* What is left to show of each step.
<1>2. ASSUME NEW place \in PcValues, pc' = [pc EXCEPT ![r] = place],
             files' \subseteq files, unsettled' \subseteq unsettled \cup {r},
             entry' \in [Creates -> Creates \cup {NoEntry, NoFile}],
             target' \in [Readers -> Creates \cup {NoTarget}],
             path' \in [Readers -> Creates \cup {NoFile}]
      PROVE  TypeInv'
  <2>1. pc' \in [Calls -> PcValues] /\ \A c \in Creates : pc'[c] = pc[c]
    BY <1>1, <1>2 DEF TypeInv, TypeOK
  <2>2. TypeOK'
    BY <1>1, <1>2, <2>1 DEF TypeInv, TypeOK, containerVars
  <2>3. WordsInv'
    BY <1>1, <2>1 DEF TypeInv, WordsInv, containerVars
  <2>4. QED
    BY <2>2, <2>3 DEF TypeInv
<1>3. ASSUME NEW next \in {"open", "remove"}, Get(r, next) PROVE TypeInv'
  <2>1. PICK c \in Creates :
           /\ target' = [target EXCEPT ![r] = c]
           /\ \/ /\ entry[c] # NoEntry
                 /\ Goes(r, "start", next)
                 /\ path' = [path EXCEPT ![r] = entry[c]]
                 /\ UNCHANGED unsettled
              \/ Goes(r, "start", "error") /\ UNCHANGED <<path, unsettled>>
              \/ Fault("redis", r, "start") /\ UNCHANGED path
    BY <1>3 DEF Get
  <2>2. PICK place \in {next, "error"} : pc' = [pc EXCEPT ![r] = place]
    BY <2>1 DEF Goes, Fault
  <2>3. unsettled' \subseteq unsettled \cup {r} /\ UNCHANGED <<files, entry>>
    BY <1>3, <2>1 DEF Get, Fault
  <2>4. path' \in [Readers -> Creates \cup {NoFile}]
    BY <2>1 DEF TypeInv, TypeOK
  <2>5. target' \in [Readers -> Creates \cup {NoTarget}]
    BY <2>1 DEF TypeInv, TypeOK
  <2>6. QED
    BY <1>2, <2>2, <2>3, <2>4, <2>5 DEF TypeInv, TypeOK, PcValues
<1>4. CASE r \in Streams /\ (Open(r) \/ Send(r))
  <2>1. \E place \in {"send", "done", "error"} : pc' = [pc EXCEPT ![r] = place]
    BY <1>4 DEF Open, Send, Goes, Fault
  <2>2. UNCHANGED <<files, entry, target, path>> /\ unsettled' \subseteq unsettled \cup {r}
    BY <1>4 DEF Open, Send, Fault
  <2>3. QED
    BY <1>2, <2>1, <2>2 DEF TypeInv, TypeOK, PcValues
<1>5. CASE r \in Deletes /\ Remove(r)
  <2>1. \E place \in {"forget", "error"} : pc' = [pc EXCEPT ![r] = place]
    BY <1>5 DEF Remove, Goes, Fault
  <2>2. /\ UNCHANGED <<entry, target, path>> /\ files' \subseteq files
        /\ unsettled' \subseteq unsettled \cup {r}
    BY <1>5 DEF Remove, Fault
  <2>3. QED
    BY <1>2, <2>1, <2>2 DEF TypeInv, TypeOK, PcValues
<1>6. CASE r \in Deletes /\ Forget(r)
  <2>1. \E place \in {"done", "error"} : pc' = [pc EXCEPT ![r] = place]
    BY <1>6 DEF Forget, Goes, Fault
  <2>2. UNCHANGED <<files, target, path>> /\ unsettled' \subseteq unsettled \cup {r}
    BY <1>6 DEF Forget, Fault
  <2>3. entry' \in {entry, [entry EXCEPT ![target[r]] = NoEntry]}
    BY <1>6 DEF Forget
  <2>4. entry' \in [Creates -> Creates \cup {NoEntry, NoFile}]
    BY <2>3 DEF TypeInv, TypeOK
  <2>5. QED
    BY <1>2, <2>1, <2>2, <2>4 DEF TypeInv, TypeOK, PcValues
<1>7. QED
  BY <1>3, <1>4, <1>5, <1>6 DEF StreamStep, DeleteStep

LEMMA TypeInvariance == Spec => []TypeInv
<1> USE GeneralAssumption
    DEF TypeInv, TypeOK, WordsInv, Calls, Readers, PcValues, InContainer
<1>1. Init => TypeInv
  BY DEF Init, Empty
<1>2. TypeInv /\ [Next]_vars => TypeInv'
  <2> SUFFICES ASSUME TypeInv, [Next]_vars PROVE TypeInv'
    OBVIOUS
  <2>1. CASE Restart
    BY <2>1 DEF Restart, Under, readerVars, Empty
  <2>2. CASE UNCHANGED vars
    BY <2>2 DEF vars
  <2>3. QED
    BY <2>1, <2>2, CreateType, ReaderType DEF Next
<1>3. QED
  BY <1>1, <1>2, PTL DEF Spec

\* Every reachable state is well formed.
THEOREM TypeCorrect == Spec => []TypeOK
<1>1. TypeInv => TypeOK
  BY DEF TypeInv
<1>2. QED
  BY <1>1, TypeInvariance, PTL

-----------------------------------------------------------------------------
(* What gets into an entry through the shared Container. *)

\* Someone else's file: only between two Creates that used the Container at once.
Crossed(c, d) == c \in crossed /\ d \in crossed \cup {NoFile}

\* A Create that is alone in the Container is not crossed; a word that a Create has
\* written, copied or stored is its own, or a crossed one's.
ContainerInv ==
    /\ \A c, d \in Creates :
          c # d /\ pc[c] \in InContainer /\ pc[d] \in InContainer => c \in crossed
    /\ \A c \in Creates : pc[c] \in InContainer =>
          \A w \in Words \ unwritten[c] :
             container[w] = c \/ (c \in crossed /\ container[w] \in crossed)
    /\ \A c \in Creates, w \in Words :
          read[c][w] \in {NoEntry, c} \/ (c \in crossed /\ read[c][w] \in crossed)
    /\ \A c \in Creates : entry[c] \in {NoEntry, c} \/ Crossed(c, entry[c])

LEMMA ContainerKept ==
    ASSUME TypeInv, ContainerInv, [Next]_vars
    PROVE  ContainerInv'
<1> USE GeneralAssumption
    DEF TypeInv, TypeOK, WordsInv, Calls, Readers, PcValues, InContainer, Goes, Fault,
        containerVars, ContainerInv, Crossed
<1>1. ASSUME NEW c \in Creates, Begin(c) PROVE ContainerInv'
  BY <1>1 DEF Begin
<1>2. ASSUME NEW c \in Creates, Convert(c) PROVE ContainerInv'
  <2>1. CASE Fault("deputy", c, "convert") /\ UNCHANGED crossed
    BY <1>2, <2>1 DEF Convert
  <2>2. CASE Goes(c, "convert", "write") /\ Meets(c)
    <3>1. unwritten[c] = Words /\ UNCHANGED <<container, unwritten, read, entry>>
      BY <1>2, <2>2 DEF Convert
    <3>2. crossed \subseteq crossed'
      BY <2>2 DEF Meets
    <3>3. \A d \in Creates \ {c} : pc[d] \in InContainer => c \in crossed' /\ d \in crossed'
      BY <2>2 DEF Meets
    <3>4. QED
      BY <2>2, <3>1, <3>2, <3>3
  <2>3. QED
    BY <1>2, <2>1, <2>2 DEF Convert
<1>3. ASSUME NEW c \in Creates, WriteContainer(c) PROVE ContainerInv'
  <2>1. PICK w \in unwritten[c] :
           /\ container' = [container EXCEPT ![w] = c]
           /\ unwritten' = [unwritten EXCEPT ![c] = @ \ {w}]
           /\ pc' = [pc EXCEPT ![c] = IF unwritten[c] = {w} THEN "marshal" ELSE "write"]
    BY <1>3 DEF WriteContainer
  <2>2. pc[c] = "write" /\ UNCHANGED <<read, entry, crossed>>
    BY <1>3 DEF WriteContainer
  <2>3. QED
    BY <2>1, <2>2
<1>4. ASSUME NEW c \in Creates, Marshal(c) PROVE ContainerInv'
  <2>1. PICK w \in Words :
           /\ read' = [read EXCEPT ![c][w] = container[w]]
           /\ pc' = [pc EXCEPT ![c] = IF \A v \in Words \ {w} : read[c][v] # NoEntry
                                      THEN "store" ELSE "marshal"]
    BY <1>4 DEF Marshal
  <2>2. pc[c] = "marshal" /\ unwritten[c] = {}
        /\ UNCHANGED <<container, unwritten, entry, crossed>>
    BY <1>4 DEF Marshal
  <2>3. container[w] = c \/ (c \in crossed /\ container[w] \in crossed)
    BY <2>2
  <2>4. QED
    BY <2>1, <2>2, <2>3
<1>5. ASSUME NEW c \in Creates, Store(c) PROVE ContainerInv'
  <2>1. pc[c] = "store" /\ UNCHANGED containerVars
    BY <1>5 DEF Store
  <2>2. \A w \in Words : read[c][w] = c \/ (c \in crossed /\ read[c][w] \in crossed)
    BY <2>1
  <2>3. \A f \in Named(read[c]) : f = c \/ Crossed(c, f)
    BY <2>2 DEF Named, Words
  <2>4. /\ \A d \in Creates : entry'[d] = entry[d] \/ (d = c /\ entry'[d] \in Named(read[c]))
        /\ \A d \in Creates : pc'[d] \in InContainer => pc'[d] = pc[d]
    BY <1>5 DEF Store
  <2>5. QED
    BY <2>1, <2>3, <2>4
<1>6. ASSUME NEW r \in Readers, StreamStep(r) \/ DeleteStep(r) PROVE ContainerInv'
  <2>1. UNCHANGED containerVars /\ \A c \in Creates : entry'[c] \in {entry[c], NoEntry}
    BY <1>6 DEF StreamStep, DeleteStep, Get, Open, Send, Remove, Forget
  <2>2. \A c \in Creates : pc'[c] \in InContainer => pc'[c] = pc[c]
    BY <1>6 DEF StreamStep, DeleteStep, Get, Open, Send, Remove, Forget
  <2>3. QED
    BY <2>1, <2>2
<1>7. CASE Restart
  BY <1>7 DEF Restart, Under
<1>8. CASE UNCHANGED vars
  BY <1>8 DEF vars
<1>9. QED
  BY <1>1, <1>2, <1>3, <1>4, <1>5, <1>6, <1>7, <1>8 DEF Next, CreateStep

-----------------------------------------------------------------------------
(* What Streams and Deletes meet. *)

\* Stream and Delete are given identifiers that were answered, and take their path from
\* the entry under them.
TargetInv ==
    \A r \in Readers :
        /\ pc[r] = "start" <=> target[r] = NoTarget
        /\ target[r] # NoTarget => pc[target[r]] = "done"
        /\ pc[r] \in {"open", "send", "remove", "forget", "done"} =>
              /\ target[r] # NoTarget
              /\ path[r] = target[r] \/ Crossed(target[r], path[r])

\* Some Delete was given the identifier of c.
Asked(c) == \E d \in Deletes : target[d] = c

\* The file and the entry of a Create that crossed no other are there until a Delete
\* of it takes them, the file first.
FilesInv ==
    \A c \in Creates :
        /\ pc[c] = "done" /\ entry[c] = NoEntry => Asked(c)
        /\ c \notin crossed /\ c \notin files /\ pc[c] \in InContainer \cup {"store", "done"}
              => Asked(c)
        /\ c \notin crossed => \A d \in Deletes :
              target[d] = c /\ pc[d] = "forget" => c \notin files

GeneralInv == ContainerInv /\ TargetInv /\ FilesInv

Outcomes == StreamOutcome /\ Stranded /\ Orphaned

\* The steps of a Create before it stores its entry, but for Convert, change nothing
\* that these speak of.
LEMMA QuietCreate ==
    ASSUME TypeInv, GeneralInv, Outcomes,
           NEW c \in Creates, Begin(c) \/ WriteContainer(c) \/ Marshal(c),
           UNCHANGED readerVars
    PROVE  TargetInv' /\ FilesInv' /\ Outcomes'
<1>1. UNCHANGED <<files, entry, crossed, unsettled, target, path>>
  BY DEF Begin, WriteContainer, Marshal, containerVars, readerVars
<1>2. /\ \A a \in Calls \ {c} : pc'[a] = pc[a]
      /\ Under(c)' /\ pc'[c] # "done" /\ pc[c] # "done"
      /\ pc'[c] \in InContainer \cup {"store"} => pc[c] \in InContainer
  BY GeneralAssumption
     DEF TypeInv, TypeOK, Calls, Readers, Begin, WriteContainer, Marshal, Goes, Under,
         InContainer
<1>3. \A r \in Readers : r \in Calls /\ r # c
  BY GeneralAssumption DEF Calls, Readers
<1>4. TargetInv'
  BY <1>1, <1>2, <1>3 DEF TargetInv, GeneralInv, Crossed, TypeInv, TypeOK, Calls
<1>5. FilesInv'
  BY <1>1, <1>2, <1>3 DEF FilesInv, GeneralInv, Asked, Calls, Readers
<1>6. StreamOutcome' /\ Stranded'
  BY <1>1, <1>2, <1>3 DEF Outcomes, StreamOutcome, Stranded, Calls, Readers
<1>7. Orphaned'
  BY <1>1, <1>2 DEF Outcomes, Orphaned, Under, Calls, TypeInv, TypeOK
<1>8. QED
  BY <1>4, <1>5, <1>6, <1>7 DEF Outcomes

\* Convert makes the file of a Create that nobody can have asked about yet.
LEMMA ConvertKeeps ==
    ASSUME TypeInv, GeneralInv, Outcomes,
           NEW c \in Creates, Convert(c), UNCHANGED readerVars
    PROVE  TargetInv' /\ FilesInv' /\ Outcomes'
<1>1. /\ UNCHANGED <<entry, target, path>>
      /\ crossed \subseteq crossed' /\ unsettled \subseteq unsettled'
      /\ files \subseteq files' /\ files' \subseteq files \cup {c}
  BY DEF Convert, Fault, Meets, readerVars
<1>2. /\ \A a \in Calls \ {c} : pc'[a] = pc[a]
      /\ pc[c] = "convert"
      /\ \/ pc'[c] = "write" /\ c \in files'
         \/ pc'[c] = "error" /\ c \in unsettled'
  BY GeneralAssumption DEF TypeInv, TypeOK, Calls, Readers, Convert, Fault, Goes
<1>3. \A r \in Readers : r \in Calls /\ r # c /\ target[r] # c
  <2>1. \A r \in Readers : r \in Calls /\ r # c
    BY GeneralAssumption DEF Calls, Readers
  <2>2. c # NoTarget /\ pc[c] # "done"
    BY <1>2, GeneralAssumption
  <2>3. \A r \in Readers : target[r] # NoTarget => pc[target[r]] = "done"
    BY DEF GeneralInv, TargetInv
  <2>4. QED
    BY <2>1, <2>2, <2>3
<1>4. TargetInv'
  <2>1. \A r \in Readers : pc'[r] = pc[r] /\ (target[r] # NoTarget => target[r] \in Calls \ {c})
    BY <1>2, <1>3 DEF TypeInv, TypeOK, Calls
  <2>2. \A r \in Readers : target[r] # NoTarget => pc'[target[r]] = pc[target[r]]
    BY <1>2, <2>1
  <2>3. QED
    BY <1>1, <2>1, <2>2 DEF TargetInv, GeneralInv, Crossed
<1>5. FilesInv'
  BY <1>1, <1>2, <1>3 DEF FilesInv, GeneralInv, Asked, Calls, Readers, InContainer
<1>6. StreamOutcome' /\ Stranded'
  BY <1>1, <1>2, <1>3 DEF Outcomes, StreamOutcome, Stranded, Calls, Readers
<1>7. Orphaned'
  BY <1>1, <1>2 DEF Outcomes, Orphaned, Under, Calls, TypeInv, TypeOK
<1>8. QED
  BY <1>4, <1>5, <1>6, <1>7 DEF Outcomes

\* An entry is stored while the file is there, unless its Create crossed another.
LEMMA StoreKeeps ==
    ASSUME TypeInv, GeneralInv, Outcomes,
           NEW c \in Creates, Store(c), UNCHANGED readerVars
    PROVE  TargetInv' /\ FilesInv' /\ Outcomes'
<1>1. /\ UNCHANGED <<files, crossed, target, path>>
      /\ unsettled \subseteq unsettled'
      /\ \A d \in Creates \ {c} : entry'[d] = entry[d]
  BY DEF Store, Fault, readerVars, containerVars, TypeInv, TypeOK
<1>2. /\ \A a \in Calls \ {c} : pc'[a] = pc[a]
      /\ pc[c] = "store"
      /\ \/ pc'[c] = "done"
         \/ pc'[c] = "error" /\ c \in unsettled'
  BY GeneralAssumption DEF TypeInv, TypeOK, Calls, Readers, Store, Fault, Goes
<1>3. \A r \in Readers : r \in Calls /\ r # c /\ target[r] # c
  <2>1. \A r \in Readers : r \in Calls /\ r # c
    BY GeneralAssumption DEF Calls, Readers
  <2>2. c # NoTarget /\ pc[c] # "done"
    BY <1>2, GeneralAssumption
  <2>3. \A r \in Readers : target[r] # NoTarget => pc[target[r]] = "done"
    BY DEF GeneralInv, TargetInv
  <2>4. QED
    BY <2>1, <2>2, <2>3
<1>4. c \notin crossed => c \in files
  BY <1>2, <1>3 DEF GeneralInv, FilesInv, Asked, Readers
<1>5. \A w \in Words : read[c][w] # NoEntry /\ (c \notin crossed => read[c][w] = c)
  BY <1>2 DEF TypeInv, WordsInv, GeneralInv, ContainerInv
<1>6. /\ Named(read[c]) \subseteq Creates \cup {NoFile}
      /\ c \notin crossed => Named(read[c]) = {c}
  <2>1. read[c] \in [Words -> Creates \cup {NoEntry, NoFile}]
    BY DEF TypeInv, TypeOK
  <2>2. QED
    BY <1>5, <2>1, NamedType DEF Named, Words
<1>7. entry'[c] = entry[c] \/ entry'[c] \in Named(read[c])
  BY DEF Store, Fault, TypeInv, TypeOK
<1>8. pc'[c] = "done" => entry'[c] \in Named(read[c])
  BY <1>2 DEF Store, Fault, TypeInv, TypeOK, Goes, Calls
<1>9. NoEntry \notin Named(read[c])
  BY <1>6, GeneralAssumption DEF NoEntry, NoFile
<1>10. TargetInv'
  <2>1. \A r \in Readers : pc'[r] = pc[r] /\ (target[r] # NoTarget => target[r] \in Calls \ {c})
    BY <1>2, <1>3 DEF TypeInv, TypeOK, Calls
  <2>2. \A r \in Readers : target[r] # NoTarget => pc'[target[r]] = pc[target[r]]
    BY <1>2, <2>1
  <2>3. QED
    BY <1>1, <2>1, <2>2 DEF TargetInv, GeneralInv, Crossed
<1>11. FilesInv'
  <2>1. \A d \in Creates \ {c} : pc'[d] = pc[d] /\ entry'[d] = entry[d]
    BY <1>1, <1>2 DEF Calls
  <2>2. \A d \in Deletes : pc'[d] = pc[d] /\ target'[d] = target[d]
    BY <1>1, <1>2, <1>3 DEF Readers
  <2>3. QED
    BY <1>1, <1>2, <1>4, <1>8, <1>9, <2>1, <2>2, <1>3
       DEF FilesInv, GeneralInv, Asked, Readers, InContainer
<1>12. StreamOutcome'
  BY <1>1, <1>2, <1>3 DEF Outcomes, StreamOutcome, Calls, Readers
<1>13. Stranded'
  <2>1. \A d \in Deletes : pc'[d] = pc[d] /\ (d \in unsettled => d \in unsettled')
    BY <1>1, <1>2, <1>3 DEF Readers
  <2>2. \A e \in Creates \ {c} : entry'[e] = entry[e]
    BY <1>1
  <2>3. Stranded
    BY DEF Outcomes
  <2> SUFFICES ASSUME NEW e \in Creates, entry'[e] # NoEntry, entry'[e] \notin files, e \notin crossed
               PROVE  \E d \in Deletes : target'[d] = e /\ (pc'[d] = "forget" \/ d \in unsettled')
    BY <1>1 DEF Stranded
  <2>4. e # c
    BY <1>4, <1>6, <1>7 DEF GeneralInv, ContainerInv, Crossed
  <2>5. \E d \in Deletes : target[d] = e /\ (pc[d] = "forget" \/ d \in unsettled)
    BY <2>2, <2>3, <2>4 DEF Stranded
  <2>6. QED
    BY <1>1, <2>1, <2>5
<1>14. Orphaned'
  <2> SUFFICES ASSUME NEW e \in files',
                      e \notin unsettled', e \notin crossed', ~Under(e)'
               PROVE  \E d \in Creates : entry'[d] = e
    BY DEF Orphaned
  <2>1. e \in Creates
    BY <1>1 DEF TypeInv, TypeOK
  <2>2. CASE e = c
    BY <1>1, <1>2, <1>6, <1>8, <2>2
  <2>3. CASE e # c
    <3>1. \E d \in Creates : entry[d] = e
      BY <1>1, <1>2, <2>1, <2>3 DEF Outcomes, Orphaned, Under, Calls
    <3>2. entry[c] # e
      BY <1>1, <2>1, <2>3, GeneralAssumption
         DEF GeneralInv, ContainerInv, Crossed, NoEntry, NoFile
    <3>3. QED
      BY <1>1, <3>1, <3>2
  <2>4. QED
    BY <2>2, <2>3
<1>15. QED
  BY <1>10, <1>11, <1>12, <1>13, <1>14 DEF Outcomes

\* A reader is given the identifier of an answered Create at its start, and keeps it.
LEMMA GetKeeps ==
    ASSUME TypeInv, GeneralInv, NEW r \in Readers, NEW next \in {"open", "remove"},
           Get(r, next), UNCHANGED containerVars
    PROVE  /\ TargetInv' /\ FilesInv'
           /\ \A a \in Readers \ {r} : target'[a] = target[a] /\ pc'[a] = pc[a] /\ path'[a] = path[a]
           /\ target[r] = NoTarget /\ pc[r] = "start" /\ pc'[r] \in {next, "error"}
           /\ pc'[r] = "error" => r \in unsettled' \/ Asked(target'[r])
           /\ unsettled \subseteq unsettled' /\ target'[r] \in Creates
           /\ UNCHANGED <<files, entry, crossed>> /\ \A c \in Creates : pc'[c] = pc[c]
<1>1. PICK c \in Creates :
         /\ pc[c] = "done"
         /\ target' = [target EXCEPT ![r] = c]
         /\ \/ /\ entry[c] # NoEntry
               /\ Goes(r, "start", next)
               /\ path' = [path EXCEPT ![r] = entry[c]]
               /\ UNCHANGED unsettled
            \/ /\ entry[c] = NoEntry
               /\ Goes(r, "start", "error") /\ UNCHANGED <<path, unsettled>>
            \/ Fault("redis", r, "start") /\ UNCHANGED path
  BY DEF Get
<1>2. /\ UNCHANGED <<files, entry, crossed>> /\ unsettled \subseteq unsettled'
      /\ pc[r] = "start" /\ pc' = [pc EXCEPT ![r] = pc'[r]] /\ pc'[r] \in {next, "error"}
      /\ target[r] = NoTarget /\ target'[r] = c
  BY <1>1 DEF Get, Fault, Goes, containerVars, TypeInv, TypeOK, Calls, GeneralInv, TargetInv
<1>3. \A a \in Creates : a # r /\ pc'[a] = pc[a]
  BY <1>2, GeneralAssumption DEF Readers, Calls, TypeInv, TypeOK
<1>4. \A a \in Readers \ {r} : target'[a] = target[a] /\ pc'[a] = pc[a] /\ path'[a] = path[a]
  BY <1>1, <1>2 DEF Readers, Calls, TypeInv, TypeOK
<1>5. \A d \in Deletes : target[d] \in Creates => target'[d] = target[d]
  BY <1>2, <1>4, GeneralAssumption DEF Readers
<1>6. TargetInv'
  <2>1. pc'[r] = next => path'[r] = c \/ Crossed(c, path'[r])
    <3>1. entry[c] # NoEntry => entry[c] = c \/ Crossed(c, entry[c])
      BY DEF GeneralInv, ContainerInv
    <3>2. Goes(r, "start", "error") \/ Fault("redis", r, "start") => pc'[r] = "error"
      BY DEF Goes, Fault, TypeInv, TypeOK, Calls
    <3>3. path' = [path EXCEPT ![r] = entry[c]] => path'[r] = entry[c]
      BY DEF TypeInv, TypeOK
    <3>4. QED
      BY <1>1, <3>1, <3>2, <3>3
  <2>2. c # NoTarget
    BY GeneralAssumption
  <2>3. pc'[c] = "done" /\ pc'[r] # "start" /\ target'[r] = c
    BY <1>1, <1>2, <1>3
  <2>4. \A a \in Readers \ {r} :
           /\ target[a] # NoTarget => pc'[target[a]] = "done"
           /\ Crossed(target[a], path[a]) => Crossed(target[a], path[a])'
    BY <1>2, <1>3, <1>4 DEF GeneralInv, TargetInv, Crossed, TypeInv, TypeOK
  <2>5. pc'[r] \in {"open", "send", "remove", "forget", "done"} => pc'[r] = next
    BY <1>2
  <2>6. Crossed(c, path'[r]) => Crossed(target[r], path[r])'
    BY <1>2 DEF Crossed
  <2> SUFFICES ASSUME NEW a \in Readers
               PROVE  /\ pc'[a] = "start" <=> target'[a] = NoTarget
                      /\ target'[a] # NoTarget => pc'[target'[a]] = "done"
                      /\ pc'[a] \in {"open", "send", "remove", "forget", "done"} =>
                            /\ target'[a] # NoTarget
                            /\ path'[a] = target'[a] \/ Crossed(target[a], path[a])'
    BY DEF TargetInv
  <2>7. CASE a = r
    BY <2>1, <2>2, <2>3, <2>5, <2>6, <2>7
  <2>8. CASE a # r
    BY <1>4, <2>4, <2>8 DEF GeneralInv, TargetInv, Crossed
  <2>9. QED
    BY <2>7, <2>8
<1>7. FilesInv'
  <2>1. \A e \in Creates : Asked(e) => Asked(e)'
    BY <1>5 DEF Asked
  <2>2. \A d \in Deletes, e \in Creates :
           target'[d] = e /\ pc'[d] = "forget" => target[d] = e /\ pc[d] = "forget"
    BY <1>2, <1>4 DEF Readers
  <2>3. QED
    BY <1>2, <1>3, <2>1, <2>2 DEF FilesInv, GeneralInv
<1>8. pc'[r] = "error" => r \in unsettled' \/ Asked(c)
  BY <1>1 DEF Goes, Fault, TypeInv, TypeOK, Calls, GeneralInv, FilesInv
<1>9. QED
  BY <1>2, <1>3, <1>4, <1>6, <1>7, <1>8

\* A Stream that fails without a fault is one of a Create that a Delete asked about.
LEMMA StreamKeeps ==
    ASSUME TypeInv, GeneralInv, Outcomes, NEW s \in Streams, StreamStep(s)
    PROVE  TargetInv' /\ FilesInv' /\ Outcomes'
<1>0. s \in Readers /\ s \in Calls /\ UNCHANGED containerVars
  BY DEF Readers, Calls, StreamStep
<1>1. ASSUME /\ TargetInv' /\ FilesInv'
             /\ UNCHANGED <<files, entry, crossed>> /\ unsettled \subseteq unsettled'
             /\ \A a \in Creates : pc'[a] = pc[a]
             /\ \A a \in Readers \ {s} : target'[a] = target[a] /\ pc'[a] = pc[a] /\ path'[a] = path[a]
             /\ target'[s] \notin crossed =>
                   /\ pc'[s] = "done" => path'[s] = target'[s]
                   /\ pc'[s] = "error" => s \in unsettled' \/ Asked(target'[s])
      PROVE  TargetInv' /\ FilesInv' /\ Outcomes'
  <2>1. \A d \in Deletes : d # s /\ target'[d] = target[d] /\ pc'[d] = pc[d]
    BY <1>1, GeneralAssumption DEF Readers
  <2>2. StreamOutcome'
    <3> SUFFICES ASSUME NEW t \in Streams, target'[t] \notin crossed'
                 PROVE  /\ pc'[t] = "done" => path'[t] = target'[t]
                        /\ pc'[t] = "error" =>
                              t \in unsettled' \/ \E d \in Deletes : target'[d] = target'[t]
      BY DEF StreamOutcome
    <3>1. CASE t = s
      BY <1>1, <2>1, <3>1 DEF Asked
    <3>2. CASE t # s
      BY <1>1, <2>1, <3>2 DEF Readers, Outcomes, StreamOutcome
    <3>3. QED
      BY <3>1, <3>2
  <2>3. Stranded'
    <3>1. \A e \in Creates : entry[e] # NoEntry /\ entry[e] \notin files =>
             \/ \E d \in Deletes : target[d] = e /\ (pc[d] = "forget" \/ d \in unsettled)
             \/ e \in crossed
      BY DEF Outcomes, Stranded
    <3>2. QED
      BY <1>1, <2>1, <3>1 DEF Stranded
  <2>4. Orphaned'
    BY <1>1 DEF Outcomes, Orphaned, Under, TypeInv, TypeOK
  <2>5. QED
    BY <1>1, <2>2, <2>3, <2>4 DEF Outcomes
<1>2. CASE Get(s, "open")
  BY <1>0, <1>1, <1>2, GetKeeps
<1>3. CASE Open(s) \/ Send(s)
  <2>1. /\ UNCHANGED <<files, entry, crossed, target, path>> /\ unsettled \subseteq unsettled'
        /\ \A a \in Calls \ {s} : pc'[a] = pc[a]
        /\ pc[s] \in {"open", "send"} /\ pc'[s] \in {"send", "done", "error"}
    BY <1>0, <1>3 DEF Open, Send, Goes, Fault, containerVars, TypeInv, TypeOK
  <2>2. /\ \A a \in Creates : a \in Calls /\ pc'[a] = pc[a]
        /\ \A a \in Readers \ {s} : a \in Calls /\ pc'[a] = pc[a]
    BY <2>1, GeneralAssumption DEF Calls, Readers
  <2>3. TargetInv'
    BY <1>0, <2>1, <2>2 DEF TargetInv, GeneralInv, Crossed, TypeInv, TypeOK
  <2>4. FilesInv'
    <3>1. \A d \in Deletes : pc'[d] = pc[d]
      BY <2>2, GeneralAssumption DEF Readers
    <3>2. QED
      BY <2>1, <2>2, <3>1 DEF FilesInv, GeneralInv, Asked
  <2>5. target[s] \in Creates /\ pc[target[s]] = "done" /\ target[s] \notin crossed => path[s] = target[s]
    BY <1>0, <2>1 DEF GeneralInv, TargetInv, Crossed, TypeInv, TypeOK
  <2>6. target[s] \in Creates /\ pc[target[s]] = "done"
    BY <1>0, <2>1 DEF GeneralInv, TargetInv, TypeInv, TypeOK
  <2>7. pc'[s] = "error" => s \in unsettled' \/ path[s] \notin files
    BY <1>0, <1>3 DEF Open, Send, Goes, Fault, TypeInv, TypeOK
  <2>8. target[s] \notin crossed /\ pc'[s] = "error" => s \in unsettled' \/ Asked(target[s])
    BY <2>5, <2>6, <2>7 DEF GeneralInv, FilesInv
  <2>9. QED
    BY <1>0, <1>1, <2>1, <2>2, <2>3, <2>4, <2>5, <2>6, <2>8
<1>4. QED
  BY <1>2, <1>3 DEF StreamStep

\* Delete takes the file and then the entry of the Create it was asked about.
LEMMA DeleteKeeps ==
    ASSUME TypeInv, GeneralInv, Outcomes, NEW d \in Deletes, DeleteStep(d)
    PROVE  TargetInv' /\ FilesInv' /\ Outcomes'
<1>0. d \in Readers /\ d \in Calls /\ UNCHANGED containerVars
  BY DEF Readers, Calls, DeleteStep
<1>1. \A e \in Creates \ crossed : entry[e] \in {NoEntry, e}
  BY DEF GeneralInv, ContainerInv, Crossed
<1>2. \A s \in Streams : s # d /\ s \in Readers /\ (pc[s] # "start" => target[s] \in Creates)
  BY GeneralAssumption DEF Readers, TypeInv, TypeOK, GeneralInv, TargetInv
<1>3. CASE Get(d, "remove")
  <2>1. /\ TargetInv' /\ FilesInv'
        /\ UNCHANGED <<files, entry, crossed>> /\ unsettled \subseteq unsettled'
        /\ target[d] = NoTarget
        /\ \A a \in Creates : pc'[a] = pc[a]
        /\ \A a \in Readers \ {d} :
              target'[a] = target[a] /\ pc'[a] = pc[a] /\ path'[a] = path[a]
    BY <1>0, <1>3, GetKeeps
  <2>2. \A e \in Creates, a \in Deletes :
           target[a] = e => target'[a] = e /\ pc'[a] = pc[a]
    BY <2>1, GeneralAssumption DEF Readers
  <2>3. StreamOutcome'
    <3> SUFFICES ASSUME NEW s \in Streams, target'[s] \notin crossed
                 PROVE  /\ pc'[s] = "done" => path'[s] = target'[s]
                        /\ pc'[s] = "error" =>
                              s \in unsettled' \/ \E a \in Deletes : target'[a] = target'[s]
      BY <2>1 DEF StreamOutcome
    <3>1. target'[s] = target[s] /\ pc'[s] = pc[s] /\ path'[s] = path[s]
      BY <1>2, <2>1
    <3>2. QED
      BY <1>2, <2>1, <2>2, <3>1 DEF Outcomes, StreamOutcome
  <2>4. Stranded'
    BY <2>1, <2>2 DEF Outcomes, Stranded
  <2>5. Orphaned'
    BY <2>1 DEF Outcomes, Orphaned, Under, TypeInv, TypeOK
  <2>6. QED
    BY <2>1, <2>3, <2>4, <2>5 DEF Outcomes
\* The other steps leave targets and paths.
<1>4. ASSUME Remove(d) \/ Forget(d),
             FilesInv', Stranded', Orphaned'
      PROVE  TargetInv' /\ FilesInv' /\ Outcomes'
  <2>1. /\ UNCHANGED <<target, path, crossed>> /\ unsettled \subseteq unsettled'
        /\ \A a \in Calls \ {d} : pc'[a] = pc[a]
        /\ pc[d] \in {"remove", "forget"} /\ pc'[d] \in {"forget", "done", "error"}
    BY <1>0, <1>4 DEF Remove, Forget, Goes, Fault, containerVars, TypeInv, TypeOK
  <2>2. /\ \A a \in Creates : a \in Calls /\ pc'[a] = pc[a]
        /\ \A a \in Readers \ {d} : a \in Calls /\ pc'[a] = pc[a]
    BY <2>1, GeneralAssumption DEF Calls, Readers
  <2>3. TargetInv'
    BY <1>0, <2>1, <2>2 DEF TargetInv, GeneralInv, Crossed, TypeInv, TypeOK
  <2>4. StreamOutcome'
    BY <1>2, <2>1, <2>2 DEF Outcomes, StreamOutcome
  <2>5. QED
    BY <1>4, <2>3, <2>4 DEF Outcomes
<1>5. ASSUME Remove(d) \/ Forget(d)
      PROVE  /\ \A a \in Deletes \ {d} : pc'[a] = pc[a]
             /\ \A a \in Creates : pc'[a] = pc[a]
             /\ UNCHANGED <<target, path, crossed>> /\ unsettled \subseteq unsettled'
  BY <1>0, <1>5, GeneralAssumption
     DEF Remove, Forget, Goes, Fault, containerVars, TypeInv, TypeOK, Calls, Readers
<1>6. CASE Remove(d)
  <2>1. /\ UNCHANGED entry /\ pc[d] = "remove" /\ target[d] \in Creates
        /\ target[d] \notin crossed => path[d] = target[d]
    BY <1>0, <1>6 DEF Remove, Goes, Fault, TypeInv, TypeOK, GeneralInv, TargetInv, Crossed
  <2>2. \A e \in Creates \ crossed : path[d] = e => target[d] = e
    BY <1>0, <2>1, GeneralAssumption DEF GeneralInv, TargetInv, Crossed
  <2>3. /\ files' \subseteq files /\ files \ {path[d]} \subseteq files'
        /\ files' = files \/ pc'[d] = "forget"
        /\ pc'[d] = "forget" => files' = files \ {path[d]}
    BY <1>0, <1>6 DEF Remove, Goes, Fault, TypeInv, TypeOK
  <2>4. FilesInv'
    <3> SUFFICES ASSUME NEW c \in Creates
                 PROVE  /\ pc[c] = "done" /\ entry[c] = NoEntry => Asked(c)
                        /\ c \notin crossed /\ c \notin files'
                              /\ pc[c] \in InContainer \cup {"store", "done"} => Asked(c)
                        /\ c \notin crossed => \A a \in Deletes :
                              target[a] = c /\ pc'[a] = "forget" => c \notin files'
      BY <1>5, <1>6, <2>1 DEF FilesInv, Asked
    <3>1. c \notin crossed /\ c \notin files' => c \notin files \/ Asked(c)
      BY <2>2, <2>3 DEF Asked
    <3>2. c \notin crossed => \A a \in Deletes :
             target[a] = c /\ pc'[a] = "forget" => c \notin files'
      BY <1>5, <1>6, <2>1, <2>3 DEF GeneralInv, FilesInv
    <3>3. QED
      BY <3>1, <3>2 DEF GeneralInv, FilesInv
  <2>5. Stranded'
    <3> SUFFICES ASSUME NEW e \in Creates, entry[e] # NoEntry, entry[e] \notin files', e \notin crossed
                 PROVE  \E a \in Deletes : target[a] = e /\ (pc'[a] = "forget" \/ a \in unsettled')
      BY <1>5, <1>6, <2>1 DEF Stranded
    <3>1. entry[e] = e
      BY <1>1
    <3>2. CASE e \in files
      BY <2>1, <2>2, <2>3, <3>1, <3>2
    <3>3. CASE e \notin files
      BY <1>5, <1>6, <2>1, <3>1, <3>3 DEF Outcomes, Stranded
    <3>4. QED
      BY <3>2, <3>3
  <2>6. Orphaned'
    BY <1>5, <1>6, <2>1, <2>3 DEF Outcomes, Orphaned, Under, TypeInv, TypeOK
  <2>7. QED
    BY <1>4, <1>6, <2>4, <2>5, <2>6
<1>7. CASE Forget(d)
  <2>1. /\ UNCHANGED files /\ pc[d] = "forget" /\ target[d] \in Creates
        /\ \A e \in Creates : entry'[e] = entry[e] \/ (e = target[d] /\ entry'[e] = NoEntry)
    BY <1>0, <1>7 DEF Forget, Goes, Fault, TypeInv, TypeOK, GeneralInv, TargetInv
  <2>2. \/ pc'[d] = "done" /\ entry'[target[d]] = NoEntry
        \/ pc'[d] = "error" /\ d \in unsettled'
    BY <1>0, <1>7, <2>1 DEF Forget, Goes, Fault, TypeInv, TypeOK
  <2>3. FilesInv'
    <3>1. pc'[d] # "forget"
      BY <2>2
    <3>2. \A c \in Creates : entry'[c] = NoEntry => entry[c] = NoEntry \/ Asked(c)
      BY <2>1 DEF Asked
    <3>3. QED
      BY <1>5, <1>7, <2>1, <3>1, <3>2 DEF GeneralInv, FilesInv, Asked
  <2>4. Stranded'
    <3> SUFFICES ASSUME NEW e \in Creates, entry'[e] # NoEntry, entry'[e] \notin files, e \notin crossed
                 PROVE  \E a \in Deletes : target[a] = e /\ (pc'[a] = "forget" \/ a \in unsettled')
      BY <1>5, <1>7, <2>1 DEF Stranded
    <3>1. PICK a \in Deletes : target[a] = e /\ (pc[a] = "forget" \/ a \in unsettled)
      BY <2>1 DEF Outcomes, Stranded
    <3>2. CASE a = d
      BY <1>5, <1>7, <2>2, <3>1, <3>2
    <3>3. CASE a # d
      BY <1>5, <1>7, <3>1, <3>3
    <3>4. QED
      BY <3>2, <3>3
  <2>5. Orphaned'
    <3> SUFFICES ASSUME NEW e \in files, e \notin crossed
                 PROVE  (\E c \in Creates : entry'[c] = e) \/ Under(e)' \/ e \in unsettled'
      BY <1>5, <1>7, <2>1 DEF Orphaned
    <3>1. e \in Creates /\ (Under(e)' <=> Under(e))
      BY <1>5, <1>7 DEF Under, TypeInv, TypeOK
    <3>2. CASE \E c \in Creates : entry[c] = e
      <4>1. PICK c \in Creates : entry[c] = e
        BY <3>2
      <4>2. c = e
        BY <3>1, <4>1, GeneralAssumption DEF GeneralInv, ContainerInv, Crossed
      <4>3. target[d] # e
        BY <2>1 DEF GeneralInv, FilesInv
      <4>4. QED
        BY <2>1, <4>1, <4>2, <4>3
    <3>3. QED
      BY <1>5, <1>7, <3>1, <3>2 DEF Outcomes, Orphaned
  <2>6. QED
    BY <1>4, <1>7, <2>3, <2>4, <2>5
<1>8. QED
  BY <1>3, <1>6, <1>7 DEF DeleteStep

\* A restart ends the calls under way, and is why they failed.
LEMMA RestartKeeps ==
    ASSUME TypeInv, GeneralInv, Outcomes, Restart
    PROVE  TargetInv' /\ FilesInv' /\ Outcomes'
<1>1. /\ UNCHANGED <<files, entry, target, path, crossed>> /\ unsettled \subseteq unsettled'
      /\ \A a \in Calls : \/ Under(a) /\ pc'[a] = "error" /\ a \in unsettled'
                          \/ ~Under(a) /\ pc'[a] = pc[a]
  BY DEF Restart, readerVars, TypeInv, TypeOK
<1>2. /\ \A a \in Creates : a \in Calls
      /\ \A a \in Readers : a \in Calls
      /\ \A a \in Streams : a \in Calls /\ a \in Readers
      /\ \A a \in Deletes : a \in Calls /\ a \in Readers
  BY DEF Calls, Readers
<1>3. TargetInv'
  <2>1. \A r \in Readers : \/ pc'[r] = pc[r]
                           \/ pc'[r] = "error" /\ pc[r] # "start"
    BY <1>1, <1>2 DEF Under
  <2>2. \A r \in Readers : target[r] # NoTarget => target[r] \in Creates
    BY DEF TypeInv, TypeOK
  <2>3. \A r \in Readers : target[r] # NoTarget => pc'[target[r]] = "done"
    BY <1>1, <1>2, <2>2 DEF GeneralInv, TargetInv, Under
  <2> SUFFICES ASSUME NEW r \in Readers
               PROVE  /\ pc'[r] = "start" <=> target[r] = NoTarget
                      /\ target[r] # NoTarget => pc'[target[r]] = "done"
                      /\ pc'[r] \in {"open", "send", "remove", "forget", "done"} =>
                            /\ target[r] # NoTarget
                            /\ path[r] = target[r] \/ Crossed(target[r], path[r])
    BY <1>1 DEF TargetInv, Crossed
  <2>4. CASE pc'[r] = pc[r]
    BY <2>3, <2>4 DEF GeneralInv, TargetInv
  <2>5. CASE pc'[r] = "error" /\ pc[r] # "start"
    <3>1. target[r] # NoTarget
      BY <2>5 DEF GeneralInv, TargetInv
    <3>2. QED
      BY <2>3, <2>5, <3>1
  <2>6. QED
    BY <2>1, <2>4, <2>5
<1>4. FilesInv'
  BY <1>1, <1>2 DEF FilesInv, GeneralInv, Asked, Under, InContainer
<1>5. StreamOutcome' /\ Stranded'
  BY <1>1, <1>2 DEF Outcomes, StreamOutcome, Stranded, Under
<1>6. Orphaned'
  BY <1>1, <1>2 DEF Outcomes, Orphaned, Under, TypeInv, TypeOK
<1>7. QED
  BY <1>3, <1>4, <1>5, <1>6 DEF Outcomes

LEMMA GeneralInvariance == Spec => [](GeneralInv /\ Outcomes)
<1>1. Init => GeneralInv /\ Outcomes
  <2> SUFFICES ASSUME Init PROVE GeneralInv /\ Outcomes
    OBVIOUS
  <2>1. /\ \A a \in Creates : a \in Calls /\ pc[a] = "start" /\ entry[a] = NoEntry /\ a # NoTarget
        /\ \A r \in Readers : pc[r] = "start" /\ target[r] = NoTarget
        /\ files = {}
    BY GeneralAssumption DEF Init, Calls, Readers
  <2>2. ContainerInv
    BY <2>1 DEF Init, ContainerInv, InContainer
  <2>3. TargetInv /\ FilesInv
    BY <2>1 DEF TargetInv, FilesInv, InContainer, Readers
  <2>4. Outcomes
    BY <2>1 DEF Outcomes, StreamOutcome, Stranded, Orphaned, Readers
  <2>5. QED
    BY <2>2, <2>3, <2>4 DEF GeneralInv
<1>2. TypeInv /\ GeneralInv /\ Outcomes /\ [Next]_vars => (GeneralInv /\ Outcomes)'
  <2> SUFFICES ASSUME TypeInv, GeneralInv, Outcomes, [Next]_vars
               PROVE  (GeneralInv /\ Outcomes)'
    OBVIOUS
  <2>1. ContainerInv'
    BY ContainerKept DEF GeneralInv
  <2>2. CASE UNCHANGED vars
    BY <2>2 DEF vars, GeneralInv, ContainerInv, TargetInv, FilesInv, Outcomes, StreamOutcome,
                Stranded, Orphaned, Asked, Under, Crossed
  <2>3. CASE Next
    <3>1. TargetInv' /\ FilesInv' /\ Outcomes'
      BY <2>3, QuietCreate, ConvertKeeps, StoreKeeps, StreamKeeps, DeleteKeeps, RestartKeeps
         DEF Next, CreateStep
    <3>2. QED
      BY <2>1, <3>1 DEF GeneralInv
  <2>4. QED
    BY <2>2, <2>3
<1>3. QED
  BY <1>1, <1>2, TypeInvariance, PTL DEF Spec

\* A Stream that is answered has sent the file its identifier was answered for, and one
\* fails only for a fault or a Delete of it, unless its Create crossed another.
THEOREM StreamsGetTheirFile == Spec => []StreamOutcome
<1>1. Outcomes => StreamOutcome
  BY DEF Outcomes
<1>2. QED
  BY <1>1, GeneralInvariance, PTL

\* Files and entries match, but for Deletes and Creates under way, failed or crossed.
THEOREM FilesMatch == Spec => []FilesMatchEntries
<1>1. Outcomes => FilesMatchEntries
  BY DEF Outcomes, FilesMatchEntries
<1>2. QED
  BY <1>1, GeneralInvariance, PTL
=============================================================================
