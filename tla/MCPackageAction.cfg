SPECIFICATION FairSpec
CONSTANTS
    Runs = {r1, r2}
    MaxTries = 2
    MaxReboots = 2
    MaxPanics = 2
INVARIANTS RunTypeOK FlagMeansRetry OncePerPanic SilentOnlyWhenExhausted
PROPERTIES EveryCallReturns
CHECK_DEADLOCK FALSE
