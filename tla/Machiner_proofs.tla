--------------------------- MODULE Machiner_proofs ---------------------------
(***************************************************************************)
(* Proofs about Machiner, for every set of Create calls and folders.       *)
(***************************************************************************)
EXTENDS Machiner, TLAPS

-----------------------------------------------------------------------------
\* A step of Retry keeps the types of what it changes
\* (createOrFindDeploymentFolder calling itself).
LEMMA RetryType ==
    ASSUME TypeOK, NEW c \in Calls,
           NEW from \in {"makeExercise", "makeDeployment"},
           Retry(c, from)
    PROVE  /\ pc' \in [Calls -> PcValues]
           /\ callCount' \in [Calls -> 0..MaxCallCount]
<1> USE DEF TypeOK, PcValues, MaxCallCount, Retry, Goes
<1>1. CASE callCount[c] < MaxCallCount
  BY <1>1
<1>2. CASE ~(callCount[c] < MaxCallCount)
  BY <1>2
<1>3. QED
  BY <1>1, <1>2

\* The steps of Deletes and of tasks left behind keep the types of what they change
\* (virtualMachineServer.Delete, DeleteVirtualMachineByUUID).
LEMMA RemovalType ==
    ASSUME TypeOK, RemovalStep
    PROVE  /\ machine' \in [Calls -> {"none", "on", "off"}]
           /\ rpc' \in [Removals -> RemovalValues]
           /\ target' \in [Removals -> Calls \cup {NoVm}]
           /\ \A r \in Removals : rpc'[r] # "start" => target'[r] # NoVm
           /\ left' \subseteq Calls \X Tasks
           /\ disturbed' \subseteq Removals
<1> USE MachinerAssumption DEF TypeOK, RemovalValues, Tasks, RemovalGoes
<1>1. ASSUME NEW r \in Removals, BeginRemoval(r)
      PROVE  /\ UNCHANGED <<machine, left>>
             /\ rpc' \in [Removals -> RemovalValues]
             /\ target' \in [Removals -> Calls \cup {NoVm}]
             /\ \A q \in Removals : rpc'[q] # "start" => target'[q] # NoVm
             /\ disturbed' \subseteq Removals
  BY <1>1 DEF BeginRemoval, MeetsRemoval
<1>2. ASSUME NEW r \in Removals, ReadPower(r)
      PROVE  /\ UNCHANGED <<machine, left, target, disturbed>>
             /\ rpc' \in [Removals -> RemovalValues]
             /\ \A q \in Removals : rpc'[q] # "start" => target'[q] # NoVm
  BY <1>2 DEF ReadPower
<1>3. ASSUME NEW r \in Removals, NEW task \in Tasks, NEW next \in {"destroy", "deleted"},
             Task(r, task, next)
      PROVE  /\ UNCHANGED <<target, disturbed>>
             /\ machine' \in [Calls -> {"none", "on", "off"}]
             /\ rpc' \in [Removals -> RemovalValues]
             /\ \A q \in Removals : rpc'[q] # "start" => target'[q] # NoVm
             /\ left' \subseteq Calls \X Tasks
  <2>1. rpc[r] = task /\ target[r] \in Calls
    BY <1>3 DEF Task
  <2>2. After[task] \in {"none", "on", "off"}
    BY DEF After
  <2>3. QED
    BY <1>3, <2>1, <2>2 DEF Task
<1>4. ASSUME NEW d \in Calls, NEW task \in Tasks, EndTask(d, task)
      PROVE  /\ UNCHANGED <<rpc, target, disturbed>>
             /\ machine' \in [Calls -> {"none", "on", "off"}]
             /\ left' \subseteq Calls \X Tasks
  BY <1>4 DEF EndTask, After
<1>5. QED
  BY <1>1, <1>2, <1>3, <1>4 DEF RemovalStep, PowerOff, Destroy

\* The steps of a Create keep the types of what they change.
LEMMA CallType ==
    ASSUME TypeOK, NEW c \in Calls, CallStep(c)
    PROVE  TypeOK'
<1> USE MachinerAssumption DEF TypeOK, PcValues, Goes
<1>0. UNCHANGED removalVars
  BY DEF CallStep
<1> USE <1>0 DEF removalVars
<1>1. CASE FindExercise(c)
  BY <1>1 DEF FindExercise, Find
<1>2. CASE MakeExercise(c)
  <2>1. CASE Retry(c, "makeExercise") /\ folders' \in {folders, folders \cup {Exercise[c]}}
             /\ UNCHANGED <<machine, found>>
    <3>1. Exercise[c] \in Folders
      OBVIOUS
    <3>2. pc' \in [Calls -> PcValues] /\ callCount' \in [Calls -> 0..MaxCallCount]
      BY <2>1, RetryType
    <3>3. QED
      BY <2>1, <3>1, <3>2
  <2>2. CASE ~Retry(c, "makeExercise")
    BY <1>2, <2>2 DEF MakeExercise, Make
  <2>3. QED
    BY <1>2, <2>1, <2>2 DEF MakeExercise, Make
<1>3. CASE FindDeployment(c)
  BY <1>3 DEF FindDeployment, Find
<1>4. CASE MakeDeployment(c)
  <2>1. CASE Retry(c, "makeDeployment") /\ folders' \in {folders, folders \cup {Deployment[c]}}
             /\ UNCHANGED <<machine, found>>
    <3>1. Deployment[c] \in Folders
      OBVIOUS
    <3>2. pc' \in [Calls -> PcValues] /\ callCount' \in [Calls -> 0..MaxCallCount]
      BY <2>1, RetryType
    <3>3. QED
      BY <2>1, <3>1, <3>2
  <2>2. CASE ~Retry(c, "makeDeployment")
    BY <1>4, <2>2 DEF MakeDeployment, Make
  <2>3. QED
    BY <1>4, <2>1, <2>2 DEF MakeDeployment, Make
<1>5. CASE LookupFails(c)
  BY <1>5 DEF LookupFails
<1>6. CASE Clone(c)
  BY <1>6 DEF Clone
<1>7. CASE FindMachine(c)
  BY <1>7 DEF FindMachine, AtPath
<1>8. CASE AddLinks(c)
  BY <1>8 DEF AddLinks
<1>9. QED
  BY <1>1, <1>2, <1>3, <1>4, <1>5, <1>6, <1>7, <1>8 DEF CallStep

\* Every reachable state is well formed: call_count stays within its bound.
THEOREM TypeCorrect == Spec => []TypeOK
<1>1. Init => TypeOK
  BY MachinerAssumption DEF Init, TypeOK, PcValues, MaxCallCount, RemovalValues
<1>2. TypeOK /\ [Next]_vars => TypeOK'
  <2> SUFFICES ASSUME TypeOK, [Next]_vars PROVE TypeOK'
    OBVIOUS
  <2>1. ASSUME NEW c \in Calls, CallStep(c) PROVE TypeOK'
    BY <2>1, CallType
  <2>2. CASE RemovalStep
    <3>1. UNCHANGED <<pc, callCount, folders, found>>
      BY <2>2 DEF RemovalStep
    <3>2. QED
      BY <2>2, <3>1, RemovalType DEF TypeOK
  <2>3. CASE UNCHANGED vars
    BY <2>3 DEF vars, TypeOK
  <2>4. QED
    BY <2>1, <2>2, <2>3 DEF Next
<1>3. QED
  BY <1>1, <1>2, PTL DEF Spec

-----------------------------------------------------------------------------
(* A Create answers with its own machine. *)

\* No two machines have one path, because vSphere refuses the second; a call that
\* has cloned still has its machine, because nobody can delete it before the call
\* has answered with its UUID.
OnePerPath ==
    \A c, d \in Calls :
        SamePath(c, d) /\ machine[c] # "none" /\ machine[d] # "none" => c = d

CloneThere == \A c \in Calls : pc[c] = "findMachine" => machine[c] # "none"

\* Deletes, and the tasks that they leave, are about machines answered with.
RemovalsAnswered ==
    /\ \A r \in Removals : target[r] # NoVm => pc[target[r]] = "done"
    /\ \A d \in Calls, task \in Tasks : <<d, task>> \in left => pc[d] = "done"

MachineInv == OnePerPath /\ CloneThere /\ OwnMachineAnswered /\ RemovalsAnswered

\* The steps in the folders change no machine.
LEMMA FolderStepKeepsMachineInv ==
    ASSUME TypeOK, MachineInv, NEW c \in Calls,
           \/ FindExercise(c) \/ MakeExercise(c)
           \/ FindDeployment(c) \/ MakeDeployment(c) \/ LookupFails(c),
           UNCHANGED removalVars
    PROVE  MachineInv'
<1>1. UNCHANGED <<machine, found, target, left>>
  BY DEF FindExercise, MakeExercise, FindDeployment, MakeDeployment, LookupFails,
         Find, Make, removalVars
<1>2. /\ \A d \in Calls \ {c} : pc'[d] = pc[d]
      /\ pc'[c] \notin {"findMachine", "addLinks", "done"}
      /\ pc[c] # "done"
  BY DEF TypeOK, FindExercise, MakeExercise, FindDeployment, MakeDeployment,
         LookupFails, Find, Make, Retry, Goes
<1>3. QED
  BY <1>1, <1>2 DEF MachineInv, OnePerPath, CloneThere, OwnMachineAnswered, SamePath,
                    RemovalsAnswered, TypeOK

\* The steps of Clone, lookup and links keep it.
LEMMA CloneStepKeepsMachineInv ==
    ASSUME TypeOK, MachineInv, NEW c \in Calls,
           Clone(c) \/ FindMachine(c) \/ AddLinks(c), UNCHANGED removalVars
    PROVE  MachineInv'
<1> USE DEF MachineInv, OnePerPath, CloneThere, OwnMachineAnswered, SamePath, TypeOK, Goes
<1>1. RemovalsAnswered'
  <2>1. UNCHANGED <<target, left>>
    BY DEF removalVars
  <2>2. \A d \in Calls : pc[d] = "done" => pc'[d] = "done"
    BY DEF Clone, FindMachine, AddLinks
  <2>3. QED
    BY <2>1, <2>2 DEF RemovalsAnswered
<1>2. CASE Clone(c)
  <2>1. UNCHANGED found /\ pc'[c] \in {"findMachine", "error"}
        /\ \A d \in Calls \ {c} : pc'[d] = pc[d] /\ machine'[d] = machine[d]
    BY <1>2 DEF Clone
  <2>2. \/ machine' = machine /\ pc'[c] = "error"
        \/ AtPath(c) = {} /\ machine'[c] = "on"
    BY <1>2 DEF Clone
  <2>3. CASE machine' = machine /\ pc'[c] = "error"
    BY <1>1, <2>1, <2>3
  <2>4. CASE AtPath(c) = {} /\ machine'[c] = "on"
    BY <1>1, <2>1, <2>4 DEF AtPath
  <2>5. QED
    BY <2>2, <2>3, <2>4
<1>3. CASE FindMachine(c)
  <2>1. pc[c] = "findMachine" /\ UNCHANGED machine
    BY <1>3 DEF FindMachine
  <2>2. ASSUME NEW d \in AtPath(c),
               Goes(c, "findMachine", "addLinks"),
               found' = [found EXCEPT ![c] = d]
        PROVE  MachineInv'
    <3>1. d = c
      BY <2>1 DEF AtPath
    <3>2. QED
      BY <1>1, <2>1, <2>2, <3>1
  <2>3. CASE Goes(c, "findMachine", "error") /\ UNCHANGED found
    BY <1>1, <2>1, <2>3
  <2>4. QED
    BY <1>3, <2>2, <2>3 DEF FindMachine
<1>4. CASE AddLinks(c)
  BY <1>1, <1>4 DEF AddLinks
<1>5. QED
  BY <1>2, <1>3, <1>4

\* A machine that was answered with is its Create's own.
LEMMA AnsweredIsDone ==
    ASSUME TypeOK, OwnMachineAnswered, NEW d \in Calls, Answered(d)
    PROVE  pc[d] = "done"
BY DEF Answered, OwnMachineAnswered

\* What a Delete's step changes: machines that were answered with, which go from on to
\* off to none, and nothing else of the Creates.
LEMMA RemovalStepChanges ==
    ASSUME TypeOK, MachineInv, RemovalStep
    PROVE  /\ UNCHANGED <<pc, found>>
           /\ \A d \in Calls : machine'[d] = machine[d] \/ pc[d] = "done"
           /\ \A d \in Calls : machine[d] = "none" => machine'[d] = "none"
           /\ RemovalsAnswered'
<1> USE DEF TypeOK, MachineInv, RemovalGoes
<1>1. UNCHANGED <<pc, found>>
  BY DEF RemovalStep
<1>2. ASSUME NEW r \in Removals, BeginRemoval(r)
      PROVE  UNCHANGED machine /\ RemovalsAnswered'
  <2>1. PICK d \in Calls : Answered(d) /\ target' = [target EXCEPT ![r] = d]
    BY <1>2 DEF BeginRemoval
  <2>2. pc[d] = "done"
    BY <2>1, AnsweredIsDone
  <2>3. UNCHANGED <<machine, left>>
    BY <1>2 DEF BeginRemoval
  <2>4. QED
    BY <1>1, <2>1, <2>2, <2>3 DEF RemovalsAnswered
<1>3. ASSUME NEW r \in Removals, ReadPower(r)
      PROVE  UNCHANGED machine /\ RemovalsAnswered'
  BY <1>1, <1>3 DEF ReadPower, RemovalsAnswered
<1>4. ASSUME NEW r \in Removals, NEW task \in Tasks, NEW next, Task(r, task, next)
      PROVE  /\ \A d \in Calls : machine'[d] = machine[d] \/ pc[d] = "done"
             /\ \A d \in Calls : machine[d] = "none" => machine'[d] = "none"
             /\ RemovalsAnswered'
  <2>1. target[r] \in Calls /\ pc[target[r]] = "done"
    BY <1>4 DEF Task, Tasks, RemovalsAnswered
  <2>2. Before[task] # "none"
    BY DEF Before, Tasks
  <2>3. UNCHANGED target /\ left' \subseteq left \cup {<<target[r], task>>}
    BY <1>4 DEF Task
  <2>4. RemovalsAnswered'
    BY <1>1, <2>1, <2>3 DEF RemovalsAnswered
  <2>5. machine' = machine \/ (machine[target[r]] = Before[task] /\
           machine' = [machine EXCEPT ![target[r]] = After[task]])
    BY <1>4 DEF Task
  <2>6. QED
    BY <2>1, <2>2, <2>4, <2>5
<1>5. ASSUME NEW d \in Calls, NEW task \in Tasks, EndTask(d, task)
      PROVE  /\ \A e \in Calls : machine'[e] = machine[e] \/ pc[e] = "done"
             /\ \A e \in Calls : machine[e] = "none" => machine'[e] = "none"
             /\ RemovalsAnswered'
  <2>1. pc[d] = "done"
    BY <1>5 DEF EndTask, RemovalsAnswered
  <2>2. Before[task] # "none"
    BY DEF Before, Tasks
  <2>3. UNCHANGED target /\ left' \subseteq left
    BY <1>5 DEF EndTask
  <2>4. machine' = machine \/ (machine[d] = Before[task] /\
           machine' = [machine EXCEPT ![d] = After[task]])
    BY <1>5 DEF EndTask
  <2>5. QED
    BY <1>1, <2>1, <2>2, <2>3, <2>4 DEF RemovalsAnswered
<1>6. QED
  BY <1>1, <1>2, <1>3, <1>4, <1>5 DEF RemovalStep, PowerOff, Destroy, Tasks

\* A Create's own machine and the order of what happens to it, in every state.
THEOREM MachinesKept == Spec => []MachineInv
<1>1. Init => MachineInv
  BY DEF Init, MachineInv, OnePerPath, CloneThere, OwnMachineAnswered, RemovalsAnswered
<1>2. TypeOK /\ MachineInv /\ [Next]_vars => MachineInv'
  <2> SUFFICES ASSUME TypeOK, MachineInv, [Next]_vars PROVE MachineInv'
    OBVIOUS
  <2>1. ASSUME NEW c \in Calls, CallStep(c) PROVE MachineInv'
    BY <2>1, FolderStepKeepsMachineInv, CloneStepKeepsMachineInv DEF CallStep
  <2>2. CASE RemovalStep
    <3>1. OnePerPath'
      BY <2>2, RemovalStepChanges DEF MachineInv, OnePerPath, SamePath
    <3>2. CloneThere'
      BY <2>2, RemovalStepChanges DEF MachineInv, CloneThere
    <3>3. OwnMachineAnswered'
      BY <2>2, RemovalStepChanges DEF MachineInv, OwnMachineAnswered
    <3>4. QED
      BY <2>2, <3>1, <3>2, <3>3, RemovalStepChanges DEF MachineInv
  <2>3. CASE UNCHANGED vars
    BY <2>3 DEF vars, MachineInv, OnePerPath, CloneThere, OwnMachineAnswered, SamePath,
                RemovalsAnswered
  <2>4. QED
    BY <2>1, <2>2, <2>3 DEF Next
<1>3. QED
  BY <1>1, <1>2, TypeCorrect, PTL DEF Spec

\* A Create answers with the machine that it cloned itself.
THEOREM OwnMachine == Spec => []OwnMachineAnswered
<1>1. MachineInv => OwnMachineAnswered
  BY DEF MachineInv
<1>2. QED
  BY <1>1, MachinesKept, PTL

-----------------------------------------------------------------------------
(* No machine without an owner, unless vSphere fails. *)

\* A Create of which vSphere fails no request has no machine before it clones, finds
\* the one it has cloned, and fails only without one.
OrphanInv ==
    \A c \in Calls :
        /\ pc[c] \in {"findExercise", "makeExercise", "findDeployment", "makeDeployment",
                     "clone", "folderError"} => machine[c] = "none"
        /\ c \notin Unlucky /\ pc[c] = "error" => machine[c] = "none"

\* A Create of which vSphere fails no request leaves no machine behind an error.
THEOREM NoOrphans == Spec => []NoOrphanMachine
<1>1. Init => OrphanInv
  BY DEF Init, OrphanInv
<1>2. TypeOK /\ MachineInv /\ OrphanInv /\ [Next]_vars => OrphanInv'
  <2> SUFFICES ASSUME TypeOK, MachineInv, OrphanInv, [Next]_vars PROVE OrphanInv'
    OBVIOUS
  <2>1. ASSUME NEW c \in Calls, CallStep(c) PROVE OrphanInv'
    <3> USE DEF OrphanInv, TypeOK, Goes
    <3>1. CASE \/ FindExercise(c) \/ MakeExercise(c)
               \/ FindDeployment(c) \/ MakeDeployment(c) \/ LookupFails(c)
      BY <3>1 DEF FindExercise, MakeExercise, FindDeployment, MakeDeployment,
                  LookupFails, Find, Make, Retry
    <3>2. CASE Clone(c)
      BY <3>2 DEF Clone
    <3>3. CASE FindMachine(c)
      <4>1. pc[c] = "findMachine" /\ c \in AtPath(c)
        BY <3>3 DEF FindMachine, AtPath, SamePath, MachineInv, CloneThere
      <4>2. QED
        BY <3>3, <4>1 DEF FindMachine
    <3>4. CASE AddLinks(c)
      BY <3>4 DEF AddLinks
    <3>5. QED
      BY <2>1, <3>1, <3>2, <3>3, <3>4 DEF CallStep
  <2>2. CASE RemovalStep
    BY <2>2, RemovalStepChanges DEF OrphanInv
  <2>3. CASE UNCHANGED vars
    BY <2>3 DEF vars, OrphanInv
  <2>4. QED
    BY <2>1, <2>2, <2>3 DEF Next
<1>3. OrphanInv => NoOrphanMachine
  BY DEF OrphanInv, NoOrphanMachine
<1>4. QED
  BY <1>1, <1>2, <1>3, TypeCorrect, MachinesKept, PTL DEF Spec

-----------------------------------------------------------------------------
(* The race for the folders costs at most two retries. *)

\* A call of which vSphere fails no request and that started over once has seen its
\* exercise folder; one that did so twice has seen its deployment folder, too.
FolderInv ==
    \A c \in Calls \ Unlucky :
        /\ callCount[c] >= 1 => Exercise[c] \in folders
        /\ callCount[c] >= 2 => Deployment[c] \in folders
        /\ pc[c] = "makeExercise" => callCount[c] = 0
        /\ pc[c] = "makeDeployment" => callCount[c] <= 1 /\ Exercise[c] \in folders
        /\ pc[c] = "findDeployment" => Exercise[c] \in folders
        /\ pc[c] # "folderError"

\* However many Creates make the folders at once, none fails over them unless
\* vSphere fails a request of its own.
THEOREM FolderRaces == Spec => []RacesAbsorbed
<1>1. Init => FolderInv
  BY DEF Init, FolderInv
<1>2. TypeOK /\ FolderInv /\ [Next]_vars => FolderInv'
  <2> SUFFICES ASSUME TypeOK, FolderInv, [Next]_vars PROVE FolderInv'
    OBVIOUS
  <2> USE DEF FolderInv, TypeOK, Goes, MaxCallCount
  <2>1. ASSUME NEW c \in Calls, FindExercise(c) PROVE FolderInv'
    BY <2>1 DEF FindExercise, Find
  <2>2. ASSUME NEW c \in Calls, MakeExercise(c) PROVE FolderInv'
    BY <2>2 DEF MakeExercise, Make, Retry
  <2>3. ASSUME NEW c \in Calls, FindDeployment(c) PROVE FolderInv'
    BY <2>3 DEF FindDeployment, Find
  <2>4. ASSUME NEW c \in Calls, MakeDeployment(c) PROVE FolderInv'
    BY <2>4 DEF MakeDeployment, Make, Retry
  <2>5. ASSUME NEW c \in Calls, Clone(c) PROVE FolderInv'
    BY <2>5 DEF Clone
  <2>6. ASSUME NEW c \in Calls, FindMachine(c) PROVE FolderInv'
    BY <2>6 DEF FindMachine
  <2>7. ASSUME NEW c \in Calls, AddLinks(c) PROVE FolderInv'
    BY <2>7 DEF AddLinks
  <2>8. CASE RemovalStep
    BY <2>8 DEF RemovalStep
  <2>9. CASE UNCHANGED vars
    BY <2>9 DEF vars
  <2>10. QED
    BY <2>1, <2>2, <2>3, <2>4, <2>5, <2>6, <2>7, <2>8, <2>9
       DEF Next, CallStep, LookupFails
<1>3. FolderInv => RacesAbsorbed
  BY DEF FolderInv, RacesAbsorbed
<1>4. QED
  BY <1>1, <1>2, <1>3, TypeCorrect, PTL DEF Spec

-----------------------------------------------------------------------------
(* What comes of a Delete. *)

\* Nobody but r deletes its machine, and no task is left that may.
AloneOnMachine(r) ==
    /\ \A q \in Removals \ {r} : Under(q) => target[q] # target[r]
    /\ \A task \in Tasks : <<target[r], task>> \notin left

\* A Delete that meets no other is alone on its machine for as long as it takes, and
\* finds it as its last step has left it.
RemovalInv ==
    \A r \in Removals : Under(r) /\ r \notin disturbed =>
        /\ AloneOnMachine(r)
        /\ rpc[r] = "powerOff" => machine[target[r]] = "on"
        /\ rpc[r] = "destroy" => machine[target[r]] = "off"

OutcomeInv == RemovalInv /\ DeleteOutcome

\* A Create does nothing to the machines that Deletes are about.
LEMMA CallStepKeepsOutcome ==
    ASSUME TypeOK, MachineInv, OutcomeInv, NEW c \in Calls, CallStep(c)
    PROVE  OutcomeInv'
<1>1. UNCHANGED removalVars
  BY DEF CallStep
<1>2. \A d \in Calls : pc[d] = "done" => machine'[d] = machine[d]
  BY DEF TypeOK, CallStep, FindExercise, MakeExercise, FindDeployment, MakeDeployment,
         LookupFails, Find, Make, Clone, FindMachine, AddLinks, Goes
<1>3. \A r \in Removals : rpc[r] # "start" =>
         target[r] \in Calls /\ machine'[target[r]] = machine[target[r]]
  BY <1>2 DEF TypeOK, MachineInv, RemovalsAnswered
<1>4. \A r \in Removals : Under(r)' <=> Under(r)
  BY <1>1 DEF removalVars, Under
<1>5. RemovalInv'
  BY <1>1, <1>3, <1>4 DEF removalVars, OutcomeInv, RemovalInv, AloneOnMachine, Under
<1>6. DeleteOutcome'
  BY <1>1, <1>3 DEF removalVars, OutcomeInv, DeleteOutcome
<1>7. QED
  BY <1>5, <1>6 DEF OutcomeInv

\* A step of Delete r, or a task on machine d, is none on a machine another is alone on.
LEMMA OthersKeepOutcome ==
    ASSUME TypeOK, MachineInv, OutcomeInv, RemovalStep, NEW q \in Removals,
           rpc'[q] = rpc[q], target'[q] = target[q], disturbed \subseteq disturbed',
           Under(q) /\ q \notin disturbed' =>
              AloneOnMachine(q)' /\ machine'[target[q]] = machine[target[q]]
    PROVE  /\ Under(q)' /\ q \notin disturbed' =>
                 /\ AloneOnMachine(q)'
                 /\ rpc'[q] = "powerOff" => machine'[target'[q]] = "on"
                 /\ rpc'[q] = "destroy" => machine'[target'[q]] = "off"
           /\ rpc'[q] = "deleted" => machine'[target'[q]] = "none"
           /\ rpc'[q] = "error" => \/ q \in Unlucky \cup disturbed'
                                   \/ machine'[target'[q]] = "none"
<1>1. Under(q)' <=> Under(q)
  BY DEF Under
<1>2. rpc[q] # "start" => target[q] \in Calls
  BY DEF TypeOK
<1>3. rpc[q] # "start" /\ machine[target[q]] = "none" => machine'[target[q]] = "none"
  BY <1>2, RemovalStepChanges
<1>4. QED
  BY <1>1, <1>3 DEF OutcomeInv, RemovalInv, DeleteOutcome

LEMMA RemovalStepKeepsOutcome ==
    ASSUME TypeOK, MachineInv, OutcomeInv, RemovalStep
    PROVE  OutcomeInv'
<1> USE DEF RemovalGoes
<1>0. \A r \in Removals : Under(r) => target[r] \in Calls
  BY DEF TypeOK, Under
<1> SUFFICES ASSUME NEW q \in Removals
             PROVE  /\ Under(q)' /\ q \notin disturbed' =>
                          /\ AloneOnMachine(q)'
                          /\ rpc'[q] = "powerOff" => machine'[target'[q]] = "on"
                          /\ rpc'[q] = "destroy" => machine'[target'[q]] = "off"
                    /\ rpc'[q] = "deleted" => machine'[target'[q]] = "none"
                    /\ rpc'[q] = "error" => \/ q \in Unlucky \cup disturbed'
                                            \/ machine'[target'[q]] = "none"
  BY DEF OutcomeInv, RemovalInv, DeleteOutcome
<1> DEFINE Goal ==
      /\ Under(q)' /\ q \notin disturbed' =>
            /\ AloneOnMachine(q)'
            /\ rpc'[q] = "powerOff" => machine'[target'[q]] = "on"
            /\ rpc'[q] = "destroy" => machine'[target'[q]] = "off"
      /\ rpc'[q] = "deleted" => machine'[target'[q]] = "none"
      /\ rpc'[q] = "error" => q \in Unlucky \cup disturbed' \/ machine'[target'[q]] = "none"
<1>1. ASSUME NEW r \in Removals, BeginRemoval(r) PROVE Goal
  <2>1. PICK d \in Calls :
           /\ target' = [target EXCEPT ![r] = d]
           /\ MeetsRemoval(r, d)
           /\ \/ machine[d] # "none" /\ RemovalGoes(r, "start", "readPower")
              \/ /\ machine[d] = "none" \/ r \in Unlucky
                 /\ RemovalGoes(r, "start", "error")
    BY <1>1 DEF BeginRemoval
  <2>2. /\ UNCHANGED <<machine, left>> /\ rpc[r] = "start" /\ rpc'[r] \in {"readPower", "error"}
        /\ rpc'[r] = "error" => machine[d] = "none" \/ r \in Unlucky
        /\ target'[r] = d /\ disturbed \subseteq disturbed'
        /\ \A p \in Removals \ {r} : rpc'[p] = rpc[p] /\ target'[p] = target[p]
    BY <1>1, <2>1 DEF BeginRemoval, MeetsRemoval, TypeOK
  <2>3. CASE q = r
    <3>1. q \notin disturbed' =>
             /\ \A p \in Removals \ {r} : Under(p) => target[p] # d
             /\ \A task \in Tasks : <<d, task>> \notin left
      BY <2>1, <2>3 DEF MeetsRemoval
    <3>2. q \notin disturbed' => AloneOnMachine(q)'
      BY <2>2, <2>3, <3>1 DEF AloneOnMachine, Under
    <3>3. QED
      BY <2>2, <2>3, <3>2
  <2>4. CASE q # r
    <3>1. Under(q) /\ q \notin disturbed' => target[q] # d
      BY <2>1 DEF MeetsRemoval
    <3>2. Under(q) /\ q \notin disturbed' => AloneOnMachine(q)
      BY <2>2 DEF OutcomeInv, RemovalInv
    <3>3. Under(q) /\ q \notin disturbed' => AloneOnMachine(q)'
      BY <2>2, <2>4, <3>1, <3>2 DEF AloneOnMachine, Under
    <3>4. QED
      BY <2>2, <2>4, <3>3, OthersKeepOutcome
  <2>5. QED
    BY <2>3, <2>4
\* The other steps leave targets alone and make nobody begin.
<1>2. ASSUME NEW r \in Removals, Under(r), UNCHANGED <<target, disturbed>>, q # r,
             \A p \in Removals \ {r} : rpc'[p] = rpc[p],
             \A d \in Calls \ {target[r]} : machine'[d] = machine[d],
             \A d \in Calls \ {target[r]}, task \in Tasks :
                <<d, task>> \in left' => <<d, task>> \in left
      PROVE  Goal
  <2>1. Under(q) /\ q \notin disturbed => AloneOnMachine(q) /\ target[r] # target[q]
    BY <1>2 DEF OutcomeInv, RemovalInv, AloneOnMachine
  <2>2. Under(q) /\ q \notin disturbed =>
           AloneOnMachine(q)' /\ machine'[target[q]] = machine[target[q]]
    BY <1>0, <1>2, <2>1 DEF AloneOnMachine, Under
  <2>3. QED
    BY <1>2, <2>2, OthersKeepOutcome
<1>3. ASSUME NEW r \in Removals, ReadPower(r) PROVE Goal
  <2>1. /\ Under(r) /\ rpc[r] = "readPower" /\ UNCHANGED <<target, machine, left, disturbed>>
        /\ \A p \in Removals \ {r} : rpc'[p] = rpc[p]
        /\ \/ machine[target[r]] = "on" /\ rpc'[r] = "powerOff"
           \/ machine[target[r]] = "off" /\ rpc'[r] = "destroy"
           \/ (machine[target[r]] = "none" \/ r \in Unlucky) /\ rpc'[r] = "error"
    BY <1>3 DEF ReadPower, Under, TypeOK
  <2>2. CASE q = r
    BY <2>1, <2>2 DEF OutcomeInv, RemovalInv, AloneOnMachine, Under
  <2>3. CASE q # r
    BY <1>2, <2>1, <2>3
  <2>4. QED
    BY <2>2, <2>3
<1>4. ASSUME NEW r \in Removals, NEW task \in Tasks, NEW next,
             \/ task = "powerOff" /\ next = "destroy"
             \/ task = "destroy" /\ next = "deleted",
             Task(r, task, next)
      PROVE  Goal
  <2>1. /\ Under(r) /\ rpc[r] = task /\ UNCHANGED <<target, disturbed>> /\ target[r] \in Calls
        /\ \A p \in Removals \ {r} : rpc'[p] = rpc[p]
        /\ \A d \in Calls \ {target[r]} : machine'[d] = machine[d]
        /\ left' \subseteq left \cup {<<target[r], task>>}
    BY <1>0, <1>4 DEF Task, Under, TypeOK
  <2>2. \/ rpc'[r] = next /\ machine'[target[r]] = After[task] /\ UNCHANGED left
        \/ rpc'[r] = "error" /\ machine[target[r]] # Before[task]
        \/ rpc'[r] = "error" /\ r \in Unlucky
    BY <1>4, <2>1 DEF Task, TypeOK
  <2>3. CASE q = r
    <3>1. r \notin disturbed => AloneOnMachine(r) /\ machine[target[r]] = Before[task]
      BY <1>4, <2>1 DEF OutcomeInv, RemovalInv, Before
    <3>2. UNCHANGED left /\ r \notin disturbed => AloneOnMachine(r)'
      BY <2>1, <3>1 DEF AloneOnMachine, Under
    <3>3. QED
      BY <1>4, <2>1, <2>2, <2>3, <3>1, <3>2 DEF After, Under
  <2>4. CASE q # r
    BY <1>2, <2>1, <2>4
  <2>5. QED
    BY <2>3, <2>4
<1>5. ASSUME NEW d \in Calls, NEW task \in Tasks, EndTask(d, task) PROVE Goal
  <2>1. /\ UNCHANGED <<rpc, target, disturbed>> /\ <<d, task>> \in left /\ left' \subseteq left
        /\ \A e \in Calls \ {d} : machine'[e] = machine[e]
    BY <1>5 DEF EndTask, TypeOK
  <2>2. Under(q) /\ q \notin disturbed => AloneOnMachine(q) /\ target[q] # d
    BY <2>1 DEF OutcomeInv, RemovalInv, AloneOnMachine
  <2>3. Under(q) /\ q \notin disturbed =>
           AloneOnMachine(q)' /\ machine'[target[q]] = machine[target[q]]
    BY <1>0, <2>1, <2>2 DEF AloneOnMachine, Under
  <2>4. QED
    BY <2>1, <2>3, OthersKeepOutcome
<1>6. QED
  BY <1>1, <1>3, <1>4, <1>5 DEF RemovalStep, PowerOff, Destroy, Tasks

\* The machine of an answered Delete is gone; one of which vSphere fails no request,
\* and that meets no other, fails only when the machine is gone already.
THEOREM Deleted == Spec => []DeleteOutcome
<1>1. Init => OutcomeInv
  BY DEF Init, OutcomeInv, RemovalInv, DeleteOutcome, Under
<1>2. TypeOK /\ MachineInv /\ OutcomeInv /\ [Next]_vars => OutcomeInv'
  <2> SUFFICES ASSUME TypeOK, MachineInv, OutcomeInv, [Next]_vars PROVE OutcomeInv'
    OBVIOUS
  <2>1. CASE UNCHANGED vars
    BY <2>1 DEF vars, OutcomeInv, RemovalInv, AloneOnMachine, DeleteOutcome, Under
  <2>2. QED
    BY <2>1, CallStepKeepsOutcome, RemovalStepKeepsOutcome DEF Next
<1>3. OutcomeInv => DeleteOutcome
  BY DEF OutcomeInv
<1>4. QED
  BY <1>1, <1>2, <1>3, TypeCorrect, MachinesKept, PTL DEF Spec
=============================================================================
