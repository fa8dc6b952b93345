SPECIFICATION FairSpec
CONSTANTS
    MaxRuns = 2
    Afresh = {1}
    Workers = {w1, w2}
    Reliable = {w2}
    Threads = {t1}
    NoWorker = NoWorker
    Presets = {p1, p2}
    NoPreset = NoPreset
    Serves <- ReliableIsChoosy
    Priorities = {0}
    ExecSlots = 1
    MaxFaults = 1
PROPERTIES
    EveryRunEnds
CHECK_DEADLOCK FALSE
