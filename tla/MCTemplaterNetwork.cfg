SPECIFICATION NetFairSpec
CONSTANTS
    c1 = c1  c2 = c2  c3 = c3  t1 = t1  t2 = t2
    Calls = {c1, c2, c3}
    Templates = {t1, t2}
    Networked = {t1, t2}
    Name <- TwoForOne
    Faults = {"download", "vsphere", "delete", "crash"}
INVARIANTS NetTypeOK OwnImportComplete RefusedOnlyWhenLate NetworkFailsOnlyWhenDisturbed NoNetworkLeft
PROPERTIES ImplementsTemplater ReturnsUnlessLeaked
CHECK_DEADLOCK FALSE
