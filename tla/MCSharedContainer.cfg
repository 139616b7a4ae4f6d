SPECIFICATION Spec
CONSTANTS
    c1 = c1  c2 = c2  c3 = c3  v1 = v1  v2 = v2  d1 = d1  d2 = d2
    Deploys = {c1, c2}
    Removals = {d1, d2}
    Vms = {v1, v2}
    VmOf <- TwoMachines
    Conditions = {}
    Commands = {}
    Faults = {}
INVARIANTS EntryIsOwn
CHECK_DEADLOCK FALSE
