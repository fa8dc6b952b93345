SPECIFICATION Spec
CONSTANTS
    MaxRuns = 2
    Afresh = {1, 2}
    Workers = {w1}
    Reliable = {w1}
    Threads = {t1, t2}
    NoWorker = NoWorker
    Presets = {p1}
    NoPreset = NoPreset
    Serves <- AnyPreset
    Priorities = {0, 1}
    ExecSlots = 1
    MaxFaults = 0
SYMMETRY Symmetry
INVARIANTS
    AckedRunIsOver
    EndIsAnnounced
    RowsAreHonest
PROPERTIES
    ImplementsLifecycle
CHECK_DEADLOCK FALSE
