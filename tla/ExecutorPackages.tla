-------------------------- MODULE ExecutorPackages --------------------------
(***************************************************************************)
(* What the executor does with a deployed package (executor/executor.go,   *)
(* library/storage.go): Create uploads its files into the guest, keeps an  *)
(* entry about them in Redis and answers with the entry's identifier;      *)
(* Delete reads the entry and deletes the files it names.                  *)
(*                                                                         *)
(* Work in the guest is under the mutex of the virtual machine, taken here *)
(* as what GuestAccess promises.  The entry goes through one Container     *)
(* that all handlers of the process share without a lock: it is written    *)
(* and marshalled field by field, two fields standing for them all.        *)
(***************************************************************************)
EXTENDS Naturals, FiniteSets

CONSTANTS
    Deploys,    \* Create calls of features, injects and conditions
    Removals,   \* Delete calls
    Vms,        \* virtual machines
    VmOf,       \* VmOf[c]: the machine Create c is for
    Conditions, \* the Creates of conditions, which store after they unlock
    Commands,   \* the conditions with a command instead of a package
    Faults      \* "guest": a request to vSphere or the guest may fail;
                \* "redis": a Redis command; "crash": the executor may restart

NoEntry == "no entry"
NoTarget == "no target"
Fields  == {"VMID", "FilePaths"}

ASSUME PackagesAssumption ==
    /\ VmOf \in [Deploys -> Vms]
    /\ Commands \subseteq Conditions /\ Conditions \subseteq Deploys
    /\ Deploys \cap Removals = {}
    /\ NoEntry \notin Deploys /\ NoTarget \notin Deploys
    /\ Faults \subseteq {"guest", "redis", "crash"}

Jobs == Deploys \cup Removals

VARIABLES
    pc,         \* pc[j]: where a call is
    failed,     \* the calls that hold an error to return after Unlock
    inGuest,    \* <<v, j>>: call j has the mutex of virtual machine v
    files,      \* <<v, c>>: the files of deployment c are on v
    container,  \* Storage.Container: whose value each field has
    unwritten,  \* unwritten[c]: the fields c has still to assign
    marshalled, \* marshalled[c]: the fields Create c has copied for Redis
    entry,      \* entry[c]: the Redis entry under c's identifier
    target      \* target[d]: whose identifier Delete d was given

vars == <<pc, failed, inGuest, files, container, unwritten, marshalled, entry, target>>

PcValues == {"start", "deploy", "write", "marshal", "store", "execute", "leave",
             "get", "lock", "remove", "done", "error", "dead"}

TypeOK ==
    /\ pc \in [Jobs -> PcValues]
    /\ failed \subseteq Jobs
    /\ inGuest \subseteq Vms \X Jobs
    /\ files \subseteq Vms \X Deploys
    /\ container \in [Fields -> Deploys \cup {NoEntry}]
    /\ unwritten \in [Deploys -> SUBSET Fields]
    /\ marshalled \in [Deploys -> [Fields -> Deploys \cup {NoEntry}]]
    /\ entry \in [Deploys -> [Fields -> Deploys \cup {NoEntry}]]
    /\ target \in [Removals -> Deploys \cup {NoTarget}]

\* The promise of the mutex distributor.
Access == INSTANCE GuestAccess WITH
    Calls <- Vms \X Jobs, VmId <- [p \in Vms \X Jobs |-> p[1]]

Blank == [f \in Fields |-> NoEntry]

\* The file a command condition names may be on its machine from the start.
Init ==
    /\ pc = [j \in Jobs |-> "start"]
    /\ failed = {}
    /\ Access!Init
    /\ \E P \in SUBSET Commands : files = {<<VmOf[c], c>> : c \in P}
    /\ container = Blank
    /\ unwritten = [c \in Deploys |-> Fields]
    /\ marshalled = [c \in Deploys |-> Blank]
    /\ entry = [c \in Deploys |-> Blank]
    /\ target = [d \in Removals |-> NoTarget]

Goes(j, from, to) == pc[j] = from /\ pc' = [pc EXCEPT ![j] = to]

Fails(j, from, to) == Goes(j, from, to) /\ failed' = failed \cup {j}

Stored(c) == entry[c]["VMID"] # NoEntry /\ entry[c]["FilePaths"] # NoEntry

-----------------------------------------------------------------------------
\* Mutants of Lock: the mutex is not waited for; it is named for the deployment.
LockNot(c) ==
    /\ Goes(c, "start", "deploy")
    /\ inGuest' = inGuest \cup {<<VmOf[c], c>>}
    /\ UNCHANGED <<failed, files, container, unwritten, marshalled, entry, target>>

LockByName(c) ==
    /\ Goes(c, "start", "deploy")
    /\ inGuest' = inGuest \cup {<<c, c>>}
    /\ UNCHANGED <<failed, files, container, unwritten, marshalled, entry, target>>

\* Create gets the mutex of its machine.
Lock(c) ==
    /\ Goes(c, "start", "deploy")
    /\ Access!Enter(<<VmOf[c], c>>)
    /\ UNCHANGED <<failed, files, container, unwritten, marshalled, entry, target>>

\* UploadPackageContents, or deployConditionToVm: a package's files go to the
\* guest; a failure may leave some there.  A command brings no files.
Deploy(c) ==
    /\ \/ /\ Goes(c, "deploy", IF c \in Conditions THEN "leave" ELSE "write")
          /\ files' = IF c \in Commands THEN files ELSE files \cup {<<VmOf[c], c>>}
          /\ UNCHANGED failed
       \/ /\ "guest" \in Faults
          /\ Fails(c, "deploy", "leave")
          /\ \/ UNCHANGED files
             \/ c \notin Commands /\ files' = files \cup {<<VmOf[c], c>>}
    /\ UNCHANGED <<inGuest, container, unwritten, marshalled, entry, target>>

\* The assignment to Storage.Container, a field at a time.
WriteContainer(c) ==
    /\ pc[c] = "write"
    /\ \E f \in unwritten[c] :
          /\ container' = [container EXCEPT ![f] = c]
          /\ unwritten' = [unwritten EXCEPT ![c] = @ \ {f}]
          /\ pc' = [pc EXCEPT ![c] = IF unwritten[c] = {f} THEN "marshal" ELSE "write"]
    /\ UNCHANGED <<failed, inGuest, files, marshalled, entry, target>>

\* Storage.Create copies the Container for MarshalBinary, a field at a time.
Marshal(c) ==
    /\ pc[c] = "marshal"
    /\ \E f \in Fields :
          /\ marshalled[c][f] = NoEntry
          /\ marshalled' = [marshalled EXCEPT ![c][f] = container[f]]
          /\ pc' = [pc EXCEPT ![c] =
                      IF \A g \in Fields \ {f} : marshalled[c][g] # NoEntry
                      THEN "store" ELSE "marshal"]
    /\ UNCHANGED <<failed, inGuest, files, container, unwritten, entry, target>>

\* Where Create goes after Storage.Create, well done or not.
Succeeds(c) == Goes(c, "store", IF c \in Conditions THEN "done" ELSE "execute")
GivesUp(c)  == Fails(c, "store", IF c \in Conditions THEN "error" ELSE "leave")

\* A mutant of Store: an error of Redis is overlooked.
StoreUnchecked(c) ==
    /\ \/ Succeeds(c) /\ entry' = [entry EXCEPT ![c] = marshalled[c]] /\ UNCHANGED failed
       \/ "redis" \in Faults /\ Succeeds(c) /\ UNCHANGED <<entry, failed>>
    /\ UNCHANGED <<inGuest, files, container, unwritten, marshalled, target>>

\* HSetNX under a new identifier.
Store(c) ==
    /\ \/ Succeeds(c) /\ entry' = [entry EXCEPT ![c] = marshalled[c]] /\ UNCHANGED failed
       \/ "redis" \in Faults /\ GivesUp(c) /\ UNCHANGED entry
    /\ UNCHANGED <<inGuest, files, container, unwritten, marshalled, target>>

\* The package's action and its reboot; on failure the entry stays.
Execute(c) ==
    /\ \/ Goes(c, "execute", "leave") /\ UNCHANGED failed
       \/ "guest" \in Faults /\ Fails(c, "execute", "leave")
    /\ UNCHANGED <<inGuest, files, container, unwritten, marshalled, entry, target>>

\* What call j answers, or does next, once it has unlocked: an error of Unlock
\* comes before one of its own.
AfterUnlock(j) ==
    \/ j \in failed /\ Goes(j, "leave", "error")
    \/ j \notin failed /\ Goes(j, "leave", IF j \in Conditions THEN "write" ELSE "done")
    \/ "redis" \in Faults /\ Goes(j, "leave", "error")

Unlock(j) ==
    /\ AfterUnlock(j)
    /\ Access!Leave({p \in inGuest : p[2] = j})
    /\ UNCHANGED <<failed, files, container, unwritten, marshalled, entry, target>>

\* Delete is given the identifier some Create answered with, and gets its entry.
Get(d) ==
    /\ \E c \in Deploys :
          /\ pc[c] = "done"
          /\ target' = [target EXCEPT ![d] = c]
          /\ \/ Stored(c) /\ Goes(d, "start", "lock")
             \/ /\ ~Stored(c) \/ "redis" \in Faults \/ "guest" \in Faults
                /\ Goes(d, "start", "error")
    /\ UNCHANGED <<failed, inGuest, files, container, unwritten, marshalled, entry>>

\* Delete gets the mutex of the machine its entry names.
LockEntry(d) ==
    /\ Goes(d, "lock", "remove")
    /\ Access!Enter(<<VmOf[entry[target[d]]["VMID"]], d>>)
    /\ UNCHANGED <<failed, files, container, unwritten, marshalled, entry, target>>

\* A mutant of DeleteUploadedFiles: an error of the guest is overlooked.
DeleteUnchecked(d) ==
    /\ Goes(d, "remove", "leave")
    /\ LET e == entry[target[d]]
           f == <<VmOf[e["VMID"]], e["FilePaths"]>>
       IN  \/ files' = files \ {f}
           \/ "guest" \in Faults /\ UNCHANGED files
    /\ UNCHANGED <<failed, inGuest, container, unwritten, marshalled, entry, target>>

\* DeleteUploadedFiles: the guest refuses to delete a file that is not there.  The
\* entry stays in Redis.
DeleteUploadedFiles(d) ==
    /\ pc[d] = "remove"
    /\ LET e == entry[target[d]]
           f == <<VmOf[e["VMID"]], e["FilePaths"]>>
       IN  \/ /\ f \in files
              /\ Goes(d, "remove", "leave")
              /\ files' = files \ {f}
              /\ UNCHANGED failed
           \/ /\ f \notin files \/ "guest" \in Faults
              /\ Fails(d, "remove", "leave")
              /\ UNCHANGED files
    /\ UNCHANGED <<inGuest, container, unwritten, marshalled, entry, target>>

\* The executor dies and starts again: calls and Container are gone, the mutexes
\* expire, Redis and the guests keep what they have.
Restart ==
    /\ "crash" \in Faults
    /\ \E j \in Jobs : pc[j] \notin {"start", "done", "error", "dead"}
    /\ pc' = [j \in Jobs |-> IF pc[j] \in {"start", "done", "error"} THEN pc[j] ELSE "dead"]
    /\ Access!Leave(inGuest)
    /\ container' = Blank
    /\ UNCHANGED <<failed, files, unwritten, marshalled, entry, target>>

Next ==
    \/ \E c \in Deploys : \/ Lock(c) \/ Deploy(c) \/ WriteContainer(c)
                          \/ Marshal(c) \/ Store(c) \/ Execute(c)
    \/ \E d \in Removals : Get(d) \/ LockEntry(d) \/ DeleteUploadedFiles(d)
    \/ \E j \in Jobs : Unlock(j)
    \/ Restart

Spec == Init /\ [][Next]_vars

-----------------------------------------------------------------------------
\* Two features or injects of one machine never get into each other's entry: the
\* Container is shared without a lock, but each writes and stores it while it holds
\* the mutex of the machine.
EntriesApart ==
    \A c, d \in Deploys \ Conditions :
        c # d /\ VmOf[c] = VmOf[d] => \A f \in Fields : entry[c][f] # d

\* Every entry in Redis describes the deployment whose identifier it is under.
Own(c) == \A f \in Fields : entry[c][f] = c

EntryIsOwn == \A c \in Deploys : Stored(c) => Own(c)

\* A Create that answered with an identifier has an entry under it, whatever
\* failed on the way and through restarts of the executor.
AnsweredIsStored == \A c \in Deploys : pc[c] = "done" => Stored(c)

\* A Delete that answered well has taken the files of the deployment it was asked
\* about from its machine, if the entry is that deployment's own.
DeletedIsGone ==
    \A d \in Removals :
        pc[d] = "done" /\ Own(target[d]) => <<VmOf[target[d]], target[d]>> \notin files
=============================================================================
