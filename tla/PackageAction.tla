--------------------------- MODULE PackageAction ---------------------------
(***************************************************************************)
(* ExecutePackageAction (library/vmware.go): running a package's action in *)
(* the guest of a virtual machine, through reboots and panics.             *)
(*                                                                         *)
(* Each attempt first reads the guest's environment.  An error that a      *)
(* reboot explains costs a try: the code waits for VMware tools and starts *)
(* over.  A panic is recovered by a deferred handler that takes a lock of  *)
(* the whole process, packageActionRetryFlag, and calls                    *)
(* ExecutePackageAction again while it holds it.                           *)
(***************************************************************************)
EXTENDS Naturals, FiniteSets

CONSTANTS
    Runs,           \* concurrent calls of ExecutePackageAction, one per machine
    MaxTries,       \* ExecutorRunTimeoutSec / ExecutorRunRetrySec, rounded down
    MaxReboots,     \* bound: how often the machine of a run may reboot
    MaxPanics       \* bound: how often a run may panic

NoRun == "none"

ASSUME PackageActionAssumption ==
    /\ MaxTries \in Nat /\ MaxReboots \in Nat /\ MaxPanics \in Nat
    /\ NoRun \notin Runs

VARIABLES
    runPc,      \* runPc[r]: where run r is
    tries,      \* tries[r]: the loop's counter in the innermost call
    retrying,   \* retrying[r]: the innermost call was made by the panic handler
    flagLock,   \* who holds packageActionRetryFlag
    flag,       \* packageActionRetryFlag.flag
    vm,         \* vm[r]: "up", "rebooting" or "deleted"
    executed,   \* executed[r]: how often the action has run in the guest
    reboots,    \* reboots[r]: reboots so far
    panics      \* panics[r]: panics so far

code    == <<runPc, tries, retrying, flagLock, flag>>
counts  == <<reboots, panics>>
runVars == <<code, vm, executed, counts>>

\* "env": before getVMEnvironment; "wait": in AwaitVMToolsToComeOnline;
\* "run": before Toolbox.Run of the action; "panicked": in the deferred handler,
\* before it has the lock; "ok" and "error": the call returned.
RunPcValues == {"env", "wait", "run", "panicked", "ok", "error"}

RunTypeOK ==
    /\ runPc \in [Runs -> RunPcValues]
    /\ tries \in [Runs -> 0..MaxTries]
    /\ retrying \in [Runs -> BOOLEAN]
    /\ flagLock \in Runs \cup {NoRun}
    /\ flag \in BOOLEAN
    /\ vm \in [Runs -> {"up", "rebooting", "deleted"}]
    /\ executed \in [Runs -> 0..(MaxPanics + 1)]
    /\ reboots \in [Runs -> 0..MaxReboots]
    /\ panics \in [Runs -> 0..MaxPanics]

RunInit ==
    /\ runPc = [r \in Runs |-> "env"]
    /\ tries = [r \in Runs |-> MaxTries]
    /\ retrying = [r \in Runs |-> FALSE]
    /\ flagLock = NoRun /\ flag = FALSE
    /\ vm = [r \in Runs |-> "up"]
    /\ executed = [r \in Runs |-> 0]
    /\ reboots = [r \in Runs |-> 0]
    /\ panics = [r \in Runs |-> 0]

Returned(r) == runPc[r] \in {"ok", "error"}

-----------------------------------------------------------------------------
\* A mutant of ReturnsWith: the handler returns without its deferred cleanup.
ReturnsLocked(r, result) ==
    /\ runPc' = [runPc EXCEPT ![r] = result]
    /\ UNCHANGED <<tries, retrying, flagLock, flag>>

\* A mutant of ReturnsWith: the handler unlocks and leaves the flag set.
ReturnsFlagged(r, result) ==
    /\ runPc' = [runPc EXCEPT ![r] = result]
    /\ retrying' = [retrying EXCEPT ![r] = FALSE]
    /\ flagLock' = IF flagLock = r THEN NoRun ELSE flagLock
    /\ UNCHANGED <<tries, flag>>

\* The innermost call returns.  If the panic handler made it, the handler returns
\* the same result, and its deferred function clears the flag and unlocks.
ReturnsWith(r, result) ==
    /\ runPc' = [runPc EXCEPT ![r] = result]
    /\ retrying' = [retrying EXCEPT ![r] = FALSE]
    /\ IF retrying[r]
       THEN flagLock' = NoRun /\ flag' = FALSE
       ELSE UNCHANGED <<flagLock, flag>>
    /\ UNCHANGED tries

RunGoes(r, place) ==
    /\ runPc' = [runPc EXCEPT ![r] = place]
    /\ UNCHANGED <<tries, retrying, flagLock, flag>>

\* The loop ends because no try is left.  The code after it returns what the
\* empty buffers hold, and no error.
OutOfTries(r) ==
    /\ runPc[r] = "env" /\ tries[r] = 0
    /\ ReturnsWith(r, "ok")
    /\ UNCHANGED <<vm, executed, counts>>

\* A mutant of ReadEnvironment: the loop does not look at the tries left.
ReadEnvironmentUnguarded(r) ==
    /\ runPc[r] = "env"
    /\ tries' = [tries EXCEPT ![r] = @ - 1]
    /\ \/ vm[r] = "up" /\ runPc' = [runPc EXCEPT ![r] = "run"]
       \/ vm[r] = "rebooting" /\ runPc' = [runPc EXCEPT ![r] = "wait"]
    /\ UNCHANGED <<retrying, flagLock, flag, vm, executed, counts>>

\* One try: getVMEnvironment succeeds, meets a reboot, or fails.
ReadEnvironment(r) ==
    /\ runPc[r] = "env" /\ tries[r] > 0
    /\ tries' = [tries EXCEPT ![r] = @ - 1]
    /\ \/ vm[r] = "up" /\ runPc' = [runPc EXCEPT ![r] = "run"]
       \/ vm[r] = "rebooting" /\ runPc' = [runPc EXCEPT ![r] = "wait"]
    /\ UNCHANGED <<retrying, flagLock, flag, vm, executed, counts>>

\* Any other error of getVMEnvironment: the call returns it.
EnvironmentFails(r) ==
    /\ runPc[r] = "env" /\ tries[r] > 0
    /\ ReturnsWith(r, "error")
    /\ UNCHANGED <<vm, executed, counts>>

\* AwaitVMToolsToComeOnline polls until the tools answer (then the loop starts
\* over), or until its own time is up or a request for the machine's properties
\* comes back empty, which may happen however the machine is by then.
ToolsOnline(r) ==
    /\ runPc[r] = "wait" /\ vm[r] = "up"
    /\ RunGoes(r, "env")
    /\ UNCHANGED <<vm, executed, counts>>

ToolsNotOnline(r) ==
    /\ runPc[r] = "wait"
    /\ ReturnsWith(r, "error")
    /\ UNCHANGED <<vm, executed, counts>>

\* Mutants of RunAction: its error is dropped; its error is taken for a
\* reboot.
RunActionDropError(r) ==
    /\ runPc[r] = "run"
    /\ \/ executed' = [executed EXCEPT ![r] = @ + 1]
       \/ UNCHANGED executed
    /\ ReturnsWith(r, "ok")
    /\ UNCHANGED <<vm, counts>>

RunActionAgain(r) ==
    /\ runPc[r] = "run"
    /\ \/ /\ executed' = [executed EXCEPT ![r] = @ + 1]
          /\ \/ vm[r] = "up" /\ ReturnsWith(r, "ok")
             \/ RunGoes(r, "wait")
       \/ UNCHANGED executed /\ RunGoes(r, "wait")
    /\ UNCHANGED <<vm, counts>>

\* Toolbox.Run of the action: it runs and the call succeeds, or it fails before
\* or after it took effect, and the call returns the error without another try.
RunAction(r) ==
    /\ runPc[r] = "run"
    /\ \/ /\ executed' = [executed EXCEPT ![r] = @ + 1]
          /\ \/ vm[r] = "up" /\ ReturnsWith(r, "ok")
             \/ ReturnsWith(r, "error")
       \/ UNCHANGED executed /\ ReturnsWith(r, "error")
    /\ UNCHANGED <<vm, counts>>

\* A nil pointer somewhere under an attempt, as when the machine's properties
\* came back empty; under Toolbox.Run the action may have taken effect already.
Panic(r) ==
    /\ panics[r] < MaxPanics
    /\ \/ runPc[r] = "env" /\ tries[r] > 0 /\ UNCHANGED executed
       \/ runPc[r] = "run" /\ \E n \in 0..1 : executed' = [executed EXCEPT ![r] = @ + n]
    /\ RunGoes(r, "panicked")
    /\ panics' = [panics EXCEPT ![r] = @ + 1]
    /\ UNCHANGED <<vm, reboots>>

\* The handler has the lock and the flag is clear: it waits for the tools,
\* whatever comes of that, sets the flag and makes the call again.  The other
\* branch, "repeating panic", would need a set flag under a free lock; invariant
\* FlagMeansRetry says that this does not happen.
Retry(r) ==
    /\ runPc[r] = "panicked" /\ flagLock = NoRun
    /\ ~flag
    /\ flagLock' = r /\ flag' = TRUE
    /\ retrying' = [retrying EXCEPT ![r] = TRUE]
    /\ tries' = [tries EXCEPT ![r] = MaxTries]
    /\ runPc' = [runPc EXCEPT ![r] = "env"]
    /\ UNCHANGED <<vm, executed, counts>>

-----------------------------------------------------------------------------
\* The machine of a run reboots, comes back, or is deleted.
VmChanges(r) ==
    /\ \/ /\ vm[r] = "up" /\ reboots[r] < MaxReboots
          /\ vm' = [vm EXCEPT ![r] = "rebooting"]
          /\ reboots' = [reboots EXCEPT ![r] = @ + 1]
       \/ vm[r] = "rebooting" /\ vm' = [vm EXCEPT ![r] = "up"] /\ UNCHANGED reboots
       \/ vm[r] # "deleted" /\ vm' = [vm EXCEPT ![r] = "deleted"] /\ UNCHANGED reboots
    /\ UNCHANGED <<code, executed, panics>>

RunStep(r) ==
    \/ OutOfTries(r) \/ ReadEnvironment(r) \/ EnvironmentFails(r)
    \/ ToolsOnline(r) \/ ToolsNotOnline(r)
    \/ RunAction(r)
    \/ Retry(r)

RunNext == \E r \in Runs : RunStep(r) \/ Panic(r) \/ VmChanges(r)

RunSpec == RunInit /\ [][RunNext]_runVars

\* A goroutine goes on unless it waits for the lock, and sync.Mutex hands the lock
\* to every waiter in the end.  Nothing makes a machine come back.
Fairness == \A r \in Runs :
    /\ WF_runVars(OutOfTries(r) \/ ReadEnvironment(r) \/ EnvironmentFails(r))
    /\ WF_runVars(ToolsOnline(r) \/ ToolsNotOnline(r))
    /\ WF_runVars(RunAction(r))
    /\ SF_runVars(Retry(r))

FairSpec == RunSpec /\ Fairness

-----------------------------------------------------------------------------
\* The flag is set exactly while the handler that holds the lock retries, so no
\* handler that gets the lock finds it set: the branch that reports a repeating
\* panic is never taken.
FlagMeansRetry ==
    /\ flag <=> flagLock # NoRun
    /\ \A r \in Runs : retrying[r] <=> flagLock = r

\* The action takes effect in the guest at most once more than the call panicked:
\* reboots and errors never make it run twice.
OncePerPanic == \A r \in Runs : executed[r] <= panics[r] + 1

\* A call that reports success for an action that never ran has used all its
\* tries up on reboots.
SilentOnlyWhenExhausted ==
    \A r \in Runs : runPc[r] = "ok" /\ executed[r] = 0 => tries[r] = 0

\* Every call returns, also when several panic at once and have to take turns; only
\* one that panics again in its retry may stop for good and keep the lock, and then
\* the calls that panic wait behind it while those that do not still return.
EveryCallReturns == \A r \in Runs :
    <>(Returned(r) \/ (panics[r] > 0 /\ \E s \in Runs : panics[s] > 1))
=============================================================================
