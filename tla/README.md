# Verification of the Ranger VMware handlers

This directory holds TLA+ models of the VMware handlers of the Open Cyber Range
(`src/`), the TLC configurations that check them on small instances, and theorems
about them that TLAPS has proved for every value of the constants. Paths below are
relative to the repository.

## The system

Five gRPC servers deploy parts of a cyber exercise. Each is a process of its own,
started by systemd with `Restart=on-failure` (`extra/*.service`); gRPC runs every
call in its own goroutine.

| Part | State it keeps | Operations | Hard behaviour | What makes it correct |
|---|---|---|---|---|
| Mutex distributor, `library/mutex_distributor.go` | in memory: `VmQueue`, `ActionQueue`, `Counter`, three kinds of redsync objects; in Redis: one key per machine, two keys of its own | `GetMutex`, `Lock` (`addToQueue`, `waitUntilFrontOfQueue`, redsync), `Unlock` | leases that run out, redsync objects shared by goroutines, dropped errors, restarts, several executors on one Redis | one call at a time in a guest, in order of arrival, nobody starves, nobody frees another's lease |
| Executor, `executor/executor.go` | one `Storage.Container` for the process; entries in Redis; files in guests | `Create`, `Delete` of features, injects, conditions; `Stream` of conditions | handlers that share the Container without a lock; steps that fail half-way | an entry describes its own deployment, an answered identifier has an entry, Delete removes what Create brought |
| Package actions, `library/vmware.go` | `packageActionRetryFlag`, shared by the process | `ExecutePackageAction`, `AwaitVMToolsToComeOnline` | reboots, panics, retries under a lock | no second execution without need, every call returns, success means execution |
| Templater, `templater/*.go` | `DeploymentList`; templates and a temporary network in vSphere | `Create`, `Delete` | check then act, waiting for another's import, a network of fixed names, restarts | one import per package, waiting ends, answers name complete templates, imports one after the other do not trip over the network |
| Machiner, `machiner/machiner.go` | folders and machines in vSphere | `Create`, `Delete` | several calls make the same folders and ask for the same paths; Delete is two tasks that may go on when nobody waits | races are absorbed, a call answers with its own machine or leaves none, Delete goes on where an earlier one stopped |
| Switcher, `switcher/*.go` | segments in NSX-T | `Create`, `Delete` | replace and forced delete of one segment by several calls; requests whose outcome is unknown; nil responses | each call takes effect at one moment, Delete's answer is true, racing Deletes do not harm each other |
| General handler, `general/general.go` | one Container; entries in Redis; files on disk | `Create`, `Stream`, `Delete`, queries to Deputy | shared Container without any lock; file and entry deleted in two steps | an entry describes its own file, files and entries match |
| vSphere session, `library/vmware.go:113`, `library/configuration.go:224` | one SOAP client, and its session, per process | `CreateClient` with its keep-alive, `NewVMWareClient` at the start of every call | calls and the keep-alive log out and in over one cookie, without a lock | a call recovers from a lost session, the service ends up logged in |
| Storage, `library/storage.go` | entries in Redis | `Create`, `Get`, `Update`, `Delete` | the value stored is a field of the store | see executor and general handler |
| Deputy client, configuration, capability server, utilities | none | | I/O and conversions | |
| `nsx_t_openapi/` | none | generated client | | |

The parts interact as follows. A handler of the executor asks the distributor for the
mutex of its machine, works in the guest (uploads, actions, deletions) and gives the
mutex back; on the way it stores an entry under a fresh identifier, which the client
gives back to `Stream` and `Delete`. The templater turns a package into a template,
the machiner clones a template into a machine, the switcher makes the segments its
links use; these three meet only in vSphere and through the identifiers that clients
pass on. Everybody reads packages through the Deputy command line tool.

## The modules

| Module | Models | Kind |
|---|---|---|
| `GuestAccess` | what the distributor promises: one call per machine in a guest | abstract specification |
| `MutexDistributor` | `Lock`, `Unlock`, leases, queues, restarts | detailed; implements `GuestAccess` |
| `SharedMutex` | `CounterMutex` and `QueueMutex`, the redsync objects the distributor shares among goroutines | says when a section is a step of `MutexDistributor` |
| `ExecutorPackages` | `Create` and `Delete` of the executor with Storage | composes `GuestAccess` |
| `PackageAction` | `ExecutePackageAction` | |
| `Templater` | `Create` and `Delete` of the templater, restarts | detailed; what `TemplaterNetwork` refines |
| `TmpNetwork` | the temporary network of OVA imports | a component of `TemplaterNetwork` |
| `TemplaterNetwork` | the templater whose imports take the steps of `TmpNetwork` | composition; implements `Templater` |
| `Machiner` | `Create` and `Delete` of the machiner | |
| `SegmentRegister` | what the switcher promises: every call takes effect at one moment | abstract specification |
| `Switcher` | `Create` and `Delete` of the switcher | detailed; implements `SegmentRegister` |
| `GeneralPackages` | `Create`, `Stream`, `Delete` of the general handler with Storage | |
| `VSphereSession` | the session that the calls of a process share | |
| `MC*` | instances for TLC | |
| `*_proofs` | theorems and proofs | |

### State and actions

**MutexDistributor.** A call is a handler goroutine; `pc` says where in `Lock` and
`Unlock` it is. `vmQueue` is `VmQueue`, a sequence of calls per executor and machine;
`actionQueue` counts the entries of the heap, whose order nothing reads; `lease[v]` is
the value under the redsync key of machine `v`. `AddToQueue` is `addToQueue`,
`AddToQueueFails` its error that `Lock` drops; `PassQueue` is
`waitUntilFrontOfQueue` returning; `AcquireLease` and `LockFails` are the two ends of
the loop in `Lock`; `ReleaseLease` and `LeaveQueue` are the two halves of `Unlock`;
`LeaseExpires` is Redis, and `Long` names the calls whose guest action may take longer than
their lease or never end, so that one run can say what those calls lose and what the others keep; `Restart` a
crash with systemd's restart. `dropped` is a history variable: the calls whose last `addToQueue` failed. The
code recognises an entry by its action's name, which is not always one call's: a condition's `Stream`
(`executor/executor.go:172`) and its `Delete` (`:391`) use the identifier, and so do two `Create`s of one
feature. `OwnEntry` names the calls whose entry is in the queue and is told from every other; what the queues
alone promise is promised to them, whatever the other calls do. The others have what the lease gives.

A section between `QueueMutex.Lock` and `Unlock` is one step of `MutexDistributor`. By **SharedMutex** that is
so as long as no `Lock` of `QueueMutex` gives up and its key does not run out in a section. What handlers
do to the maps and slices when their sections do overlap is a data race of Go and not modelled: nothing is
said of `MutexDistributor` then.

**SharedMutex.** Each Redis command is a step; all goroutines of an executor share one kept value per mutex; any
`Lock` may run out of tries or fail, and its caller goes on, as the code drops the error
(`library/mutex_distributor.go:178`, `:182`, `:205`, `:260`); any key may run out, also that of `QueueMutex` while
its section waits for `CounterMutex` in `GetVMCounter` (`:189`). `disturbed` is a history variable: the executors that
entered a section without the lock or lost its key in one, until all their sections are over. `SectionsApart`
says that sections overlap through nothing else: an `Unlock` of one that holds nothing frees no other
executor's lock, and once the overlapping sections are over the shared object excludes again.

**ExecutorPackages.** `inGuest` holds the mutexes as `GuestAccess` promises them, so what
holds here holds with any distributor that keeps the promise. `MutexDistributor` keeps it for calls that stay
within their leases, and, within one executor, for calls with entries of their own; of others nothing is said here. `container`,
`marshalled` and `entry` are `Storage.Container`, the copy that `Storage.Create` makes
of it and the entry in Redis. Two fields stand for all: Go assigns a struct field by
field, and two writers, or a writer and a reader, may interleave anywhere
(`WriteContainer` and `Marshal` take one field a step, in any order). The value of a
field is the deployment it came from. A condition unlocks before it writes the
Container, a feature or inject does so before it unlocks.

**PackageAction.** `tries` is the loop's counter in the innermost call, `retrying` says
that the innermost call was made by the panic handler. The lock and the flag of
`packageActionRetryFlag` are two variables. The handler's recursion needs no stack:
the outer call does nothing but return what the inner one did. The branch that
reports a repeating panic has no action, because no state enables it; the invariant
`FlagMeansRetry` says so.

**Templater.** `listed` counts how often a name is in `DeploymentList`: appending is not
guarded by the check, so a name can be there twice. `template` is what vSphere shows
under the name: a name being imported is visible already, which is why
`DoesTemplateExist` is true for it. `"leaked"` is the return after a failed download,
which leaves the name in the list. `Restart` empties the list and leaves vSphere as it is.
`deleted` is a history variable: a client may have a
template deleted whose identifier was answered, and then no promise about it is left. `late` is another: the Creates
that another of their package overtook between their look at vSphere and their own entry in the list.
Their imports may be refused for the name; `RefusedOnlyWhenLate` says that no others' are.

**TmpNetwork.** `network` is the part of switch and port group that the host has; `seen` is
what the import read of it. `disturbed` is a history variable: the imports of which vSphere
failed a request, which a restart ended, or which were under way together with another.
The others are required to succeed; nothing in the code keeps imports apart.

**TemplaterNetwork.** `ImportOVA` makes the network before the import and cleans up after
the upload, before the lease is completed. Steps that touch both are joint steps (`ImportOnto`,
`UploadOnto`, `CompleteOnto`); steps of the network alone leave the Create where it is, or end
its import (`NetworkAlone`). `Networked` says which packages have networks. That the
composition refines `Templater` (`Plain`) means that the network adds nothing to what
`Templater` allows with failing requests, so that what is shown of `Templater` alone holds for it.

**Machiner.** A machine is named by the Create that cloned it; `machine` says whether it
exists and runs, `found` is what the lookup by path returned. `Retry` is the recursion of
`createOrFindDeploymentFolder`. The folder outcomes "not found" and "request failed"
are one disjunct because the code does not tell them apart. A Delete (`rpc`, `target`) looks
its machine up, asks for the power state, powers off and destroys; any number of Deletes may be given
one machine. A task whose request or wait failed is in `left`: vSphere may carry it out
later, while another Delete is at the machine. `disturbed` is a history variable: the Deletes that met
another one of their machine, or such a task. Racing Deletes can make each other fail,
and `DeleteOutcome` is about the others. `Unlucky` names the calls of
which vSphere may fail any request; the others must not be harmed by that.

**Switcher.** `hasClient` is the outcome of the start: after an invalid configuration
`createAPIClient` drops the error and the service is offered with a nil client
(`switcher/switcher.go:22`), so that the first call panics (`NoClient`). A PUT or DELETE that
fails may be carried out all the same, at once or after its call has ended: it is in `late`. A request
without a response leaves `httpResponse` nil, and `segmentExists` and `deleteInfraSegment` read
its status before they look at the error; that panic ends the process (`Panic`) with every call in
it. `createNetworkSegment` looks at the error first. `effective` and `recreated` are history
variables. The transport zone is one step: what it returns is not told apart by a property.

**SegmentRegister.** A call that was answered well took effect once, between its
invocation and its answer. A Delete that answers "not found" never takes effect. One that failed, or was never
answered, may take effect any time, once at most.

**GeneralPackages.** Files and entries are named by the Create that made them. The shared
Container's path is a Go string of two words, its data and its length; two Creates may write and
copy them in any order, and a torn path is that of no file or of the file
its data is from (`Named`). `crossed` names the Creates that used the
Container at the same time, `unsettled` the calls that a fault or a restart ended; what is
required is required of everything else. A command of which Redis' answer was lost may have been carried out.

**VSphereSession.** A session is named by who logged it in; `cookie` is the session of
the client that the whole process shares, `live` are those vSphere knows. `CheckSession` is `UserSession`, of
which a nil result means "not logged in"; `Logout`, `SendLogin` and `AnswerLogin` are the steps of
`NewVMWareClient` after that, `RetrieveProperties` its end and `Work` the handler's own requests. `KeepAlive` and
`Reauthenticate` are the handler that `CreateClient` installs. `sent` keeps the cookie that a Login was
sent with, as another may replace the client's cookie meanwhile; vSphere refuses a Login under a
session that is logged in. `LoseSession` is vSphere. When a keep-alive runs is left open, which
covers its ten idle minutes and every other interval.

## The runs

| Run | Instance | Shows |
|---|---|---|
| `queue` | 1 executor, 1 machine, a condition's Stream and Delete that share an action, 2 calls of their own; two guest actions that may outlast their leases or never end, every fault | `OnePastQueue`, `ServedInOrder`, `ServedOrStuck`, `QueueGivesAccess` |
| `lease` | 2 executors, 4 calls on one machine, one action shared, every fault, one call that may outlast its lease | `TypeOK`, `OneInGuest` |
| `shared_mutex` | 2 goroutines of one executor, 1 of another; any Lock gives up, any key runs out | `TypeOK`, `SectionsApart`, `CounterPassed` |
| `packages` | 2 features on one machine, a condition with a command on another, 2 Deletes, all faults | `TypeOK`, `EntriesApart`, `AnsweredIsStored`, `DeletedIsGone` |
| `package_action` | 2 runs, 2 tries, 2 reboots, 2 panics each | `RunTypeOK`, `FlagMeansRetry`, `OncePerPanic`, `SilentOnlyWhenExhausted`, `EveryCallReturns` |
| `templater` | 2 Creates of one package and 1 of another, both with networks, faults of Deputy and vSphere, Deletes, restarts | `NetTypeOK`, `OwnImportComplete`, `RefusedOnlyWhenLate`, `NetworkFailsOnlyWhenDisturbed`, `NoNetworkLeft`, `ImplementsTemplater`, `ReturnsUnlessLeaked` |
| `machiner` | 3 Creates in one exercise, 2 of one path, 1 in another deployment, 2 Deletes; vSphere may fail any request of three of the five | `TypeOK`, `RacesAbsorbed`, `OwnMachineAnswered`, `NoOrphanMachine`, `DeleteOutcome` |
| `switcher` | 2 Creates and 2 Deletes of one segment, a Delete of another; any request of one Create and one Delete may fail | `TypeOK`, `DeleteFailsForCause`, `KilledByDelete`, `ImplementsRegister` |
| `general` | 2 Creates, a Stream, 2 Deletes; faults of Deputy, Redis and disk, restarts | `TypeOK`, `StreamOutcome`, `FilesMatchEntries` |
| `session` | 3 calls, of one of which any request may fail, and a keep-alive; vSphere may end any session | `TypeOK`, `FailsForCause`, `RestoredAtRest` |

In these runs the code disagrees with what it or its documents say:

| Run | Property | What happens |
|---|---|---|
| `overlap` | `GuestExclusive` | a guest action outlives the eight seconds of the lease and another call enters the guest |
| `shared_container` | `EntryIsOwn` | two deployments on two machines store each other's fields |

More oddities of the code are in the models, and have no run of their own because a reading of
the lines settles them, or because no document says otherwise:

- `max_connections` limits nothing: `addToQueue` compares it with the length of a hash that
  no code writes (`library/mutex_distributor.go:188`; `Connections`).
- A condition's `Stream` and `Delete` have the same action identifier on the same machine
  (`executor/executor.go:172`, `:391`), so either may pass the queue on the other's entry, and `Unlock` may
  take out the other's (`library/mutex_distributor.go:207`, `:270`); only the lease is then between them
  (`Unshared`). The `queue` run has such a pair.
- `Lock` drops the error of `addToQueue` (`library/mutex_distributor.go:230`), and a call without an entry passes an
  empty queue, or on another's entry (`dropped`). All callers drop the error of `QueueMutex.Lock`, and go
  on without the lock (`:182`, `:205`, `:260`; `disturbed` of `SharedMutex`).
- A guest action that never ends keeps its machine's queue for ever: `Toolbox.Run` has no timeout
  (`library/vmware.go:810`), and `Stream` gives it a context without a deadline (`executor/executor.go:155`); a panic in
  the retry after a panic (below) has the same effect. `ServedOrStuck` names who pays for it (`Stuck`).
- A `Lock` that fails past the queue leaves its entries there (`library/mutex_distributor.go:239`; `LockFails`).
- Deleting a condition with a command deletes the command's file in the guest, because
  the command is recorded as an uploaded file (`executor/executor.go:93`; `Commands`).
- `ExecutePackageAction` reports success when all its tries met reboots and the action
  never ran (`library/vmware.go:752`; `OutOfTries`). `SilentOnlyWhenExhausted` says that this is the only
  way to such an answer.
- A panic in the retry after a panic waits for the lock that its own handler holds
  (`library/vmware.go:758`), so the branch that would report a repeating panic (`:772`) is never
  reached; `FlagMeansRetry` says so, and `EveryCallReturns` names the calls that pay for it.
- A Create of the templater that finds the template, or waited for it, answers without
  accounts (`templater/templater.go:214`; `accounts`), and with a template that another
  may still be uploading (`templater/templater.go:205`); `OwnImportComplete` is about the others.
- Imports at once may remove the temporary network under each other
  (`library/vmware.go:514`; `disturbed`), and a failing clean-up loses an import of which
  everything is uploaded (`templater/import.go:151`; `RemoveNetwork`).
- Deletes of one machine that race may make each other fail (`library/vmware.go:364`; `disturbed`).
- The switcher reads the status of a nil response (`switcher/switcher.go:83`, `:92`; `Panic`) and
  serves with a nil client after an invalid configuration (`switcher/switcher.go:22`; `NoClient`).
- The general handler's deletion is not repeatable: when the entry stays after the file is gone,
  `os.Remove` fails for ever (`general/general.go:138`; `Stranded`). Its temporary directories, and those of
  Deputy's downloads, are never removed (not modelled).
- A call that logs out ends the session that another has just opened
  (`library/vmware.go:133`; `Logout`), and a keep-alive whose Login is refused in such a race
  ends the process (`library/configuration.go:245`; `Reauthenticate`).

### Bounds

Four calls are one more than a violation of order needs (one in the guest, one waiting,
one overtaking) and leave one to share an action or for a second executor. In `queue` one of the pair that
shares an action and one of the others may work for ever, so that a call waits behind both kinds; machines have queues
and leases of their own, so one is enough. Two executors are
enough for what they share, which is Redis. Two imports on one name and one on another have
every pairwise meeting: for the name, for the network only, and for both. Three Creates of the machiner let one be late to
a race of two. Two tries tell the first, a later and
the last one apart; two reboots use them up; the second panic is the one in the
retry. The folder retries are the code's own bound of three, one more than races of
two folders can cost. Two Deletes, one of which may fail at every request, are a failed deletion, its
repetition and their race. Two Creates and two Deletes of one segment let a late request of each
kind fall between any two steps of another call. Two Creates are what it takes to cross in
the general handler's Container. Three calls and a keep-alive let one log in, another log it out,
a third suffer from that and the keep-alive come at any moment. `MaxReboots` and `MaxPanics` bound the environment only, and
no property depends on their being reached. Calls do not come back under the same name, so
the number of calls bounds every run.

`packages` uses symmetry: it checks invariants only, and its two Creates on one machine
and its two Deletes have the same roles. The other runs check liveness or give the calls
different roles. The runs turn deadlock checking off because every model has calls that
return for good and a system with no call left has no step; who waits for ever
is checked as liveness, which says more.

### Fairness

A goroutine that can go on does: weak fairness for each action of a call after it has
entered. A client may never call, so entering has none. In `MutexDistributor` the guest
action of a call that is not `Long` ends, and its `Unlock` follows; for a `Long` one there is no such fairness, since the
code gives it no deadline. `AcquireLease` has weak fairness, and redsync does not queue: with several
executors on one machine a call could find the lease taken at every try. `ServedOrStuck` is therefore claimed for a machine that
one executor serves, and the runs with several executors check no liveness. `LeaseExpires` is Redis' promise. Nothing is assumed of
`LockFails`: a call at the front either gets its lease or fails, and `ServedOrStuck` takes both. In `PackageAction` `Retry`
has strong fairness, since `sync.Mutex` hands the lock to a goroutine that has waited
for a millisecond before any newcomer; nothing makes a machine come back. That the action's process itself ends is
assumed there (`RunAction`), since `EveryCallReturns` asks what the handler's lock and retries do; who waits when it does not end
is what `ServedOrStuck` says. In
`SharedMutex` only the `Lock`s and `Unlock`s of `CounterMutex` have fairness, since redsync bounds its tries; that a `Lock`
takes the key rather than give up is not assumed, nor that any key runs out, and who
gets `QueueMutex` is left open. In `TemplaterNetwork` a call that polls the list once a second
is served when the name stays away; with finitely many calls it does in the end.
`ExecutorPackages`, `Machiner`, `Switcher`, `GeneralPackages` and `VSphereSession` wait for nobody
but the services they call: what could go wrong with them is safety, and they assume no fairness.

## What is proved

All theorems hold for every set of calls, machines, executors and so on, under the
named assumptions on the constants that each module states.

- **MutexDistributor_proofs.** `TypeCorrect`. `LeaseExclusion`: calls of a machine that are not
  `Long` exclude each other; the invariant is that such a call in the guest holds its
  machine's lease (`LeaseInv`), and needs nothing of the queues.
  `QueueExclusion`: the queues alone keep the calls apart that have entries of their own (`OwnEntry`), whatever becomes
  of the leases and whatever calls that share an action or have no entry do.
  `OnePastQueue` is not inductive: `QueueInv` adds that every entry of a queue belongs
  to it, that the entry of a call with an action of its own is there once, that such a call in progress has
  its entry unless `addToQueue` failed, and that past the queue it is at the front. The cases of `AddToQueue` and
  `LeaveQueue` are lemmas about sequences: an `Unlock` of another action takes out another entry and leaves the
  front alone. `ArrivalOrder` follows from the same invariant, for every call whose action is not shared, with an entry or without.
  `LeaseImplementsGuestAccess` and `QueueImplementsGuestAccess` are the refinement of `GuestAccess`: by the leases
  for the calls of all executors that are not `Long`, by the queues for the calls of each executor that have entries of
  their own. None of these has a hypothesis beyond the named assumptions on the constants.
  TLC checks the latter refinement (`QueueGivesAccess`), and of the former its invariant, `OneInGuest`.
- **SharedMutex_proofs.** `TypeCorrect`, and `SectionExclusion`, with no assumption about who gives up. The
  strengthening (`SectionInv`) says that the object of the executor that holds the key keeps the key's value, and that
  a goroutine in a section of an undisturbed executor holds the key: two of them cannot, and no other
  executor's object has that value to delete it by.
- **ExecutorPackages_proofs.** `TypeCorrect`, `Answered`, and `Apart`: two features or injects of one
  machine never get into each other's entry, whatever others do to the Container.
  The invariant says whose data can be in each field on the way from the Container
  through the copy into Redis (`Sources`: the deployment itself, conditions, other
  machines), and that a feature or inject on that way holds the machine's mutex.
  `Deleted`: `GoneInv` says of a Delete that is past its `Get` that its deployment was
  answered, so that nobody uploads for it any more, and of one past its removal that the files are gone.
- **PackageAction**, in ExecutorPackages_proofs too, which extends both modules: that is why the names
  they would share (`RunInit`, `RunNext`, `runPc`) begin with `Run` in `PackageAction`. `RunTypeCorrect`; `ActionOncePerPanic`, where `RunInv` adds that a call
  that has not returned has run the action no more often than it panicked; `FlagIsRetry` and
  `SilentExhausted` by `LoopInv`, the tries, the lock and the flag together.
- **Machiner_proofs.** `TypeCorrect`; `OwnMachine`, from at most one machine per path and the
  clone's being there until its Create answers, since a Delete needs an answered UUID; `NoOrphans`, from the
  same: a Create that no request fails finds its clone; `FolderRaces`: a call of which vSphere fails no
  request retries once over the exercise folder and once over the deployment folder at
  most, because folders never go away. `Deleted`: while nothing has disturbed a Delete it is
  alone on its machine, no task of an earlier one left there, so the machine is as its own steps left it
  (`RemovalInv`).
- **Switcher_proofs.** `TypeCorrect`: which requests have taken effect is told by where a call is, and only a
  failed or dead call has one outstanding (`EffectInv`). `DeletesDoNotCollide`: a segment that is there
  after a Delete of it took effect was put again (`PutAgain`), so a Delete's last look fails for that cause
  alone. `OnlyDeletesKill`. `Implementation`: the refinement of `SegmentRegister`, step by step; a
  lemma per kind of step gives the status it maps to.
- **GeneralPackages_proofs.** `TypeCorrect`; `StreamsGetTheirFile` and `FilesMatch` from one invariant.
  `ContainerInv`: a Create that crossed no other is alone in the Container, so what it has written
  there, and what it marshals and stores, is its own. `TargetInv`: a Stream or Delete past its `Get` works on
  an answered Create. `FilesInv`: of a Create that crossed no other, a missing entry or
  file means that a Delete of it was asked for; the file goes first.
- **VSphereSession_proofs.** `TypeCorrect`. `OnlyForCause`: an undisturbed call or keep-alive that is logging in is the
  only one that does, and the session that it found or opened is alive (`AloneInv`). `Restored`: when the
  cookie has no session, either vSphere has ended it, or somebody has still to log in with
  a cookie of no session, or has failed or died (`RestoreInv`).
- **TemplaterNetwork_proofs.** `Implementation`: every step of the composition is one of `Templater` in which
  any request may fail, or a stutter. The facts about templates are proved of those steps, so
  they hold with the network and without it. `TypeCorrect`: the list has a name as often as there are calls that entered it and
  have not taken it out; without that count `Remove` could not be shown to find its name. `RefusedLate`:
  of two calls for one package that are past the check of the list both are in `late`, and so is a call on its way to an
  import whose entity is there (`LateInv`); that the one who checks an empty list finds the others just before their
  `Append` needs the count. `OwnImport`: no step but a Delete takes away a complete template. `FailsForCause`: an undisturbed import is alone and finds the network as its earlier steps left it
  (`Ready`). `NetworkRemoved`: while no import has failed, what is left of the network belongs to one
  that has still to remove it (`LeftInv`).

Only model-checked are the liveness properties `ServedOrStuck`, `CounterPassed`,
`EveryCallReturns` and `ReturnsUnlessLeaked`: fairness and `ENABLED` are out of the prover's reach.
Every other property of a passing run is a theorem. The two violations, `GuestExclusive` and
`EntryIsOwn`, are counterexamples that TLC finds.

## What is not modelled

Almost all of the repository's lines are the generated NSX-T client: thousands of functions of
one shape, of which the switcher calls four. Those are modelled by how they return. The capability server (a constant answer), the upload's
progress log, the conversion of names, environments and Markdown, the Deputy command
line and the parsing of its output, the checks of a configuration file, test helpers and packaging keep no state that several
steps could disagree about; nor do the general handler's queries (`GetPackagesByType`, `GetScenario`,
`CheckPackageExists`), which read. `AwaitProcessWithTimeout`, `Storage.Update`,
`IncrementVMCounter` and `IncrementActionCounter` have no callers. Redis is one server that keeps its keys
until they expire; vSphere refuses equal names in a folder. A package's several files are
one: they are uploaded and deleted together, and a failure half-way counts as
"some are there". The templater's removal of a found template's network cards is left out: it is best
effort, its errors are only logged, and no answer depends on it.

## Plan

1. *Done:* `GuestAccess`, `MutexDistributor`, `SharedMutex` with proofs: the core.
2. *Done:* `ExecutorPackages` on top of `GuestAccess`, with proofs.
3. *Done:* `PackageAction`, `Templater`, `TmpNetwork` checked; `Machiner` with proofs.
4. *Done:* `SegmentRegister` and `Switcher`; `GeneralPackages`; `VSphereSession`, checked.
5. *Done:* `TemplaterNetwork`, the composition of templater and network; the machine's whole life in
   `Machiner`, with `NoOrphanMachine` proved.
6. *Done:* proofs of every invariant and refinement that the runs check.
7. Left: stating the limit of `max_connections` and the identifier that a failed `Create` of the
   executor does not return as properties, once the code promises either.
