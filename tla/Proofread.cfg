CONSTANTS
    Ids = {1, 2}
    Segs = {"s1", "s2"}
    SegOf <- Where
    BatchSize = 2
    MaxGap = 2
    Markings <- AllMarkings
    Reviews <- MCReviews
    ApplyThreshold = 90
    MaxCommands = 3
    MaxReviews = 2
    MaxKills = 1
    Kana = {"a", "b"}
    Recording = 15500
    QwenPad = 800
    MfaPad = 700
    MaxOverlap = 120
    MinDuration = 500
    DisplayPad = 120
    MaxDuration = 8000
    Near = 2500
    Lines = {1, 2}
    MaxDistance = 1
    Placements <- MCPlacements
    Reports <- MCReports
    Manifests <- MCManifests
    Plans <- MCPlans
    Answers <- MCAnswers
SPECIFICATION MCSpec
INVARIANTS
    GateJudgesReview
    AppliedIsKept
    ChangedIsRealigned
    SuspectsFindTheirLine
    RealignedApart
CHECK_DEADLOCK FALSE
