SPECIFICATION Spec
CONSTANTS
    Calls = {c1, c2, c3}
    Ticks = {k1}
    Unlucky = {c1}
INVARIANTS TypeOK FailsForCause RestoredAtRest
CHECK_DEADLOCK FALSE
