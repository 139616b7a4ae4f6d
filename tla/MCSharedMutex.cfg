SPECIFICATION FairSpec
CONSTANTS
    g1 = g1  g2 = g2  g3 = g3  p1 = p1  p2 = p2
    Goroutines = {g1, g2, g3}
    Processes = {p1, p2}
    Host <- TwoAndOne
INVARIANTS TypeOK SectionsApart
PROPERTIES CounterPassed
CHECK_DEADLOCK FALSE
