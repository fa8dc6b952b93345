CONSTANTS
    Execs = {e1, e2}
    MaxRuns = 2
    MaxCrashes = 1
SPECIFICATION FairSpec
INVARIANTS
    WorkerIsOrderly
PROPERTIES
    ImplementsLife
    EveryExecutorEnds
CHECK_DEADLOCK FALSE
