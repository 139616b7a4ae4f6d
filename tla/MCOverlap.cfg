SPECIFICATION Spec
CONSTANTS
    c1 = c1  c2 = c2  c3 = c3  c4 = c4
    x1 = x1  x2 = x2  v1 = v1  v2 = v2  a1 = a1  a2 = a2  a3 = a3
    Executors = {x1, x2}
    Vms = {v1}
    Actions = {a1, a2}
    Calls = {c1, c2, c3, c4}
    Streams = {c1}
    Long = {c1}
    Host <- TwoHosts
    VmId <- SameVm1
    ActionId <- OneShared
    MaxConnections = 2
    Faults = {}
INVARIANTS GuestExclusive
CHECK_DEADLOCK FALSE
