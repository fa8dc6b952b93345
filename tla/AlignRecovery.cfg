SPECIFICATION MCSpec
CONSTANTS
    Segments = {g1, g2}
    Procs = {p1, p2}
    Nobody = Nobody
    Asked = {"cli", "retry", "coarse", "undo", "verify", "annotate", "flow"}
    MaxStarts = 2
    MaxCrashes = 1
    Bounds <- Padded
    ShortOnes = {1}
    MaxOverlap = 0
    MaxRecoveries = 6
    Reports <- MCReports
    Manifests <- MCLines
    Answers <- MCAnswers
    Texts <- MCTexts
    Empty = ""
    Marks = {"", "!"}
    Japanese = {"a", "ab"}
    Match <- MCMatch
    MaxCandidates = 3
    MaxRunCandidates = 2
    Padding = 1
    MaxFar = 1
    LowScore = 45
    TargetScore = 70
SYMMETRY Symmetric
INVARIANTS
    Reversible
    ExecutionsExclude
    ListIsFresh
    RecoveredApart
    WritebackIsJustified
CHECK_DEADLOCK FALSE
