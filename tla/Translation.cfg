CONSTANTS
    NChunks = 3
    Threads = 2
    MaxSteps = 2
    BaseDelay = 1
    MaxDelay = 2
    Native = FALSE
    NTasks = 3
    Workers = 2
    MaxRetries = 2
    ExtraBody = TRUE
    Manifests <- MCManifests
    JoinFragments = {TRUE, FALSE}
    ExtendMs = 350
    SnapGap = 200
    MinBlank = 300
    MinDuration = 500
    TightPart = 120
    ScreenPart = 500
    JoinGap = 3000
    JoinSpan = 8000
    JoinLetters = 40
SPECIFICATION MCSpec
INVARIANTS
    ManifestIsHonest
    CallsAreOrderly
    NormalizedIsWhole
PROPERTIES
    HeldBack
    StageEnds
CHECK_DEADLOCK FALSE
