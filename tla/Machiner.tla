------------------------------ MODULE Machiner ------------------------------
(***************************************************************************)
(* The machiner (machiner/machiner.go): Create clones a template into a    *)
(* folder exercise/deployment, which it makes if it is missing, finds the  *)
(* new machine by its path, adds its links and answers with its UUID.      *)
(* Delete powers a machine off and destroys it.                            *)
(*                                                                         *)
(* Creates of one exercise run concurrently and make the same folders; a   *)
(* folder that turns up between looking and making is met by a bounded     *)
(* retry.  vSphere refuses a second folder or machine of one name in a     *)
(* folder.  A machine is named here by the Create that cloned it.          *)
(***************************************************************************)
EXTENDS Naturals, FiniteSets

CONSTANTS
    Calls,       \* Create calls
    Removals,    \* Delete calls
    Folders,     \* the two folders of every path: <<exercise>>, <<exercise, deployment>>
    Exercise,    \* Exercise[c]: the exercise folder of call c
    Deployment,  \* Deployment[c]: its deployment folder
    VmName,      \* VmName[c]: its machine's name, made compatible
    Unlucky      \* the calls of which vSphere may fail any request

NoVm == "no machine"

\* createOrFindDeploymentFolder calls itself while call_count is below this.
MaxCallCount == 3

ASSUME MachinerAssumption ==
    /\ Exercise \in [Calls -> Folders] /\ Deployment \in [Calls -> Folders]
    /\ NoVm \notin Calls
    /\ Unlucky \subseteq Calls \cup Removals

VARIABLES
    pc,         \* pc[c]: where call c is
    callCount,  \* callCount[c]: the argument of createOrFindDeploymentFolder
    folders,    \* the folders in vSphere
    machine,    \* machine[c]: what became of the machine c cloned
    found,      \* found[c]: the machine c found under its path
    rpc,        \* rpc[r]: where Delete r is
    target,     \* target[r]: the machine whose UUID r was given
    left,       \* <<d, task>>: vSphere may still carry out a task that a failed
                \* Delete started on machine d
    disturbed   \* history: the Deletes that met another of their machine, or its task

removalVars == <<rpc, target, left, disturbed>>
vars == <<pc, callCount, folders, machine, found, rpc, target, left, disturbed>>

PcValues == {"findExercise", "makeExercise", "findDeployment", "makeDeployment",
             "clone", "findMachine", "addLinks", "done", "folderError", "error"}

RemovalValues == {"start", "readPower", "powerOff", "destroy", "deleted", "error"}
Tasks == {"powerOff", "destroy"}

TypeOK ==
    /\ pc \in [Calls -> PcValues]
    /\ callCount \in [Calls -> 0..MaxCallCount]
    /\ folders \subseteq Folders
    /\ machine \in [Calls -> {"none", "on", "off"}]
    /\ found \in [Calls -> Calls \cup {NoVm}]
    /\ rpc \in [Removals -> RemovalValues]
    /\ target \in [Removals -> Calls \cup {NoVm}]
    /\ \A r \in Removals : rpc[r] # "start" => target[r] # NoVm
    /\ left \subseteq Calls \X Tasks
    /\ disturbed \subseteq Removals

Init ==
    /\ pc = [c \in Calls |-> "findExercise"]
    /\ callCount = [c \in Calls |-> 0]
    /\ folders = {}
    /\ machine = [c \in Calls |-> "none"]
    /\ found = [c \in Calls |-> NoVm]
    /\ rpc = [r \in Removals |-> "start"]
    /\ target = [r \in Removals |-> NoVm]
    /\ left = {}
    /\ disturbed = {}

Goes(c, from, to) == pc[c] = from /\ pc' = [pc EXCEPT ![c] = to]

SamePath(c, d) == Deployment[c] = Deployment[d] /\ VmName[c] = VmName[d]

\* The machines in vSphere under the path of c: at most one.
AtPath(c) == {d \in Calls : SamePath(c, d) /\ machine[d] # "none"}

-----------------------------------------------------------------------------
\* finder.Folder for folder f: not found and failed look the same to the code.
Find(c, f, from, present, absent) ==
    /\ \/ f \in folders /\ Goes(c, from, present)
       \/ /\ f \notin folders \/ c \in Unlucky
          /\ Goes(c, from, absent)
    /\ UNCHANGED <<callCount, folders, machine, found>>

\* Mutants of Retry: a call tries once more only; it tries without end.
RetryOnce(c, from) ==
    IF callCount[c] < 1
    THEN Goes(c, from, "findExercise") /\ callCount' = [callCount EXCEPT ![c] = @ + 1]
    ELSE Goes(c, from, "folderError") /\ UNCHANGED callCount

RetryUnbounded(c, from) ==
    Goes(c, from, "findExercise") /\ callCount' = [callCount EXCEPT ![c] = @ + 1]

\* createOrFindDeploymentFolder starts again from the top, three times at most.
Retry(c, from) ==
    IF callCount[c] < MaxCallCount
    THEN Goes(c, from, "findExercise") /\ callCount' = [callCount EXCEPT ![c] = @ + 1]
    ELSE Goes(c, from, "folderError") /\ UNCHANGED callCount

\* CreateFolder: refused when the folder is there by now; when it fails
\* otherwise, vSphere may have made the folder all the same.
Make(c, f, from, next) ==
    /\ \/ /\ f \notin folders
          /\ Goes(c, from, next)
          /\ folders' = folders \cup {f}
          /\ UNCHANGED callCount
       \/ f \in folders /\ Retry(c, from) /\ UNCHANGED folders
       \/ /\ c \in Unlucky
          /\ Retry(c, from)
          /\ folders' \in {folders, folders \cup {f}}
    /\ UNCHANGED <<machine, found>>

FindExercise(c) == Find(c, Exercise[c], "findExercise", "findDeployment", "makeExercise")
MakeExercise(c) == Make(c, Exercise[c], "makeExercise", "findDeployment")

FindDeployment(c) == Find(c, Deployment[c], "findDeployment", "clone", "makeDeployment")
MakeDeployment(c) == Make(c, Deployment[c], "makeDeployment", "clone")

\* The lookups without a retry: the template, the root folder, the resource pool.
LookupFails(c) ==
    /\ c \in Unlucky
    /\ \/ Goes(c, "findExercise", "error")
       \/ Goes(c, "clone", "error")
    /\ UNCHANGED <<callCount, folders, machine, found>>

\* A mutant of Clone: a machine of the same path is taken for the clone.
CloneOrReuse(c) ==
    /\ Goes(c, "clone", "findMachine")
    /\ machine' = [machine EXCEPT ![c] = IF AtPath(c) = {} THEN "on" ELSE @]
    /\ UNCHANGED <<callCount, folders, found>>

\* template.Clone and its task; of an error one cannot tell what vSphere did.
Clone(c) ==
    /\ \/ /\ AtPath(c) = {}
          /\ Goes(c, "clone", "findMachine")
          /\ machine' = [machine EXCEPT ![c] = "on"]
       \/ /\ AtPath(c) # {} \/ c \in Unlucky
          /\ Goes(c, "clone", "error")
          /\ \/ UNCHANGED machine
             \/ AtPath(c) = {} /\ machine' = [machine EXCEPT ![c] = "on"]
    /\ UNCHANGED <<callCount, folders, found>>

\* A mutant of FindMachine: machines are looked for by name in the whole exercise,
\* and more than one is an error.
FindByName(c) ==
    LET named == {d \in Calls : VmName[d] = VmName[c] /\ machine[d] # "none"} IN
    /\ \/ /\ named = {c}
          /\ Goes(c, "findMachine", "addLinks")
          /\ found' = [found EXCEPT ![c] = c]
       \/ named # {c} /\ Goes(c, "findMachine", "error") /\ UNCHANGED found
    /\ UNCHANGED <<callCount, folders, machine>>

\* finder.VirtualMachine for the path; an error leaves the clone behind.
FindMachine(c) ==
    /\ \/ \E d \in AtPath(c) :
             /\ Goes(c, "findMachine", "addLinks")
             /\ found' = [found EXCEPT ![c] = d]
       \/ /\ AtPath(c) = {} \/ c \in Unlucky
          /\ Goes(c, "findMachine", "error") /\ UNCHANGED found
    /\ UNCHANGED <<callCount, folders, machine>>

\* createLinks and addLinks, one card after the other; an error leaves the clone
\* behind with the cards it has so far.  Then Create answers.
AddLinks(c) ==
    /\ \/ Goes(c, "addLinks", "done")
       \/ c \in Unlucky /\ Goes(c, "addLinks", "error")
    /\ UNCHANGED <<callCount, folders, machine, found>>

\* Delete is given a UUID that a Create answered with.
Answered(d) == \E c \in Calls : pc[c] = "done" /\ found[c] = d

RemovalGoes(r, from, to) == rpc[r] = from /\ rpc' = [rpc EXCEPT ![r] = to]

\* What a task makes of a machine; vSphere refuses a machine in another state.
Before == [powerOff |-> "on", destroy |-> "off"]
After  == [powerOff |-> "off", destroy |-> "none"]

Under(r) == rpc[r] \in {"readPower", "powerOff", "destroy"}

\* History: Delete r of machine d begins while another of d, or a task, is under way.
MeetsRemoval(r, d) ==
    LET others == {q \in Removals : target[q] = d /\ Under(q)}
    IN  disturbed' = IF others = {} /\ ~\E t \in Tasks : <<d, t>> \in left
                     THEN disturbed ELSE disturbed \cup others \cup {r}

\* Delete's own lookup of the machine by its UUID, and its name.
BeginRemoval(r) ==
    /\ \E d \in Calls :
          /\ Answered(d)
          /\ target' = [target EXCEPT ![r] = d]
          /\ MeetsRemoval(r, d)
          /\ \/ machine[d] # "none" /\ RemovalGoes(r, "start", "readPower")
             \/ /\ machine[d] = "none" \/ r \in Unlucky
                /\ RemovalGoes(r, "start", "error")
    /\ UNCHANGED <<machine, left>>

\* A mutant of ReadPower: a machine that is off is to be powered off, too.
PowerOffAlways(r) ==
    /\ rpc[r] = "readPower"
    /\ \/ machine[target[r]] # "none" /\ RemovalGoes(r, "readPower", "powerOff")
       \/ /\ machine[target[r]] = "none" \/ r \in Unlucky
          /\ RemovalGoes(r, "readPower", "error")
    /\ UNCHANGED <<target, machine, left, disturbed>>

\* DeleteVirtualMachineByUUID looks the machine up again and asks for its power
\* state: one that an earlier Delete has powered off is only destroyed.
ReadPower(r) ==
    /\ rpc[r] = "readPower"
    /\ \/ machine[target[r]] = "on" /\ RemovalGoes(r, "readPower", "powerOff")
       \/ machine[target[r]] = "off" /\ RemovalGoes(r, "readPower", "destroy")
       \/ /\ machine[target[r]] = "none" \/ r \in Unlucky
          /\ RemovalGoes(r, "readPower", "error")
    /\ UNCHANGED <<target, machine, left, disturbed>>

\* A task of Delete r and the wait for it, at the end of which r goes on to next; of
\* a request or a wait that fails one cannot tell what vSphere does, and when.
Task(r, task, next) ==
    LET d == target[r] IN
    /\ rpc[r] = task
    /\ \/ /\ machine[d] = Before[task]
          /\ RemovalGoes(r, task, next)
          /\ machine' = [machine EXCEPT ![d] = After[task]]
          /\ UNCHANGED left
       \/ /\ machine[d] # Before[task]
          /\ RemovalGoes(r, task, "error") /\ UNCHANGED <<machine, left>>
       \/ /\ r \in Unlucky
          /\ RemovalGoes(r, task, "error")
          /\ left' \in {left, left \cup {<<d, task>>}}
          /\ UNCHANGED machine
    /\ UNCHANGED <<target, disturbed>>

PowerOff(r) == Task(r, "powerOff", "destroy")
Destroy(r)  == Task(r, "destroy", "deleted")

\* vSphere ends a task that nobody waits for, well or not.
EndTask(d, task) ==
    /\ <<d, task>> \in left
    /\ left' = left \ {<<d, task>>}
    /\ \/ UNCHANGED machine
       \/ machine[d] = Before[task] /\ machine' = [machine EXCEPT ![d] = After[task]]
    /\ UNCHANGED <<rpc, target, disturbed>>

CallStep(c) ==
    /\ \/ FindExercise(c) \/ MakeExercise(c)
       \/ FindDeployment(c) \/ MakeDeployment(c)
       \/ LookupFails(c)
       \/ Clone(c) \/ FindMachine(c) \/ AddLinks(c)
    /\ UNCHANGED removalVars

RemovalStep ==
    /\ \/ \E r \in Removals : BeginRemoval(r) \/ ReadPower(r) \/ PowerOff(r) \/ Destroy(r)
       \/ \E d \in Calls, task \in Tasks : EndTask(d, task)
    /\ UNCHANGED <<pc, callCount, folders, found>>

Next == (\E c \in Calls : CallStep(c)) \/ RemovalStep

Spec == Init /\ [][Next]_vars

-----------------------------------------------------------------------------
\* A Create answers with the machine it cloned itself, although it looks it up by
\* its path and others may ask for the same path.
OwnMachineAnswered ==
    \A c \in Calls : pc[c] \in {"addLinks", "done"} => found[c] = c

\* A Create of which vSphere fails no request never fails over the folders: the
\* races with other calls never use its retries up, however many there are and
\* whatever vSphere does to the others.
RacesAbsorbed == \A c \in Calls \ Unlucky : pc[c] # "folderError"

\* A Create of which vSphere fails no request and that ends in an error leaves no
\* machine that nobody has the UUID of, whoever races it for folders and path.
NoOrphanMachine ==
    \A c \in Calls \ Unlucky : pc[c] \in {"folderError", "error"} => machine[c] = "none"

\* The machine of an answered Delete is gone.  One of which vSphere fails no request,
\* and that meets no other, fails only when the machine is gone already: it goes on
\* from wherever an earlier Delete, or what was left of it, has stopped.
DeleteOutcome ==
    \A r \in Removals :
        /\ rpc[r] = "deleted" => machine[target[r]] = "none"
        /\ rpc[r] = "error" => \/ r \in Unlucky \cup disturbed
                               \/ machine[target[r]] = "none"
=============================================================================
