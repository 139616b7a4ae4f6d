SPECIFICATION Spec
CONSTANTS
    Creates = {c1, c2}
    Streams = {s1}
    Deletes = {d1, d2}
    Faults = {"deputy", "redis", "io", "crash"}
INVARIANTS TypeOK StreamOutcome FilesMatchEntries
CHECK_DEADLOCK FALSE
