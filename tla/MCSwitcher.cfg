SPECIFICATION Spec
CONSTANTS
    c1 = c1  c2 = c2
    d1 = d1  d2 = d2  d3 = d3
    Creates = {c1, c2}
    Deletes = {d1, d2, d3}
    SegmentOf <- Segment
    Unlucky = {c1, d1}
INVARIANTS TypeOK DeleteFailsForCause KilledByDelete
PROPERTIES ImplementsRegister
CHECK_DEADLOCK FALSE
