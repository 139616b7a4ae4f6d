SPECIFICATION Spec
CONSTANTS
    c1 = c1  c2 = c2  c3 = c3
    r1 = r1  r2 = r2
    Calls = {c1, c2, c3}
    Removals = {r1, r2}
    Folders = {"exercise", "deployment 1", "deployment 2"}
    Exercise <- OneExercise
    Deployment <- TwoDeployments
    VmName <- OneName
    Unlucky = {c1, c3, r1}
INVARIANTS TypeOK RacesAbsorbed OwnMachineAnswered NoOrphanMachine DeleteOutcome
CHECK_DEADLOCK FALSE
