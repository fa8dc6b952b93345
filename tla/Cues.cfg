CONSTANTS
    Inputs <- MCInputs
    InterpolationGap = 3
    ZeroDuration = 1
    FallbackLong = 8
    FallbackTarget = 3
    MaxWords = 2
    RuleGap = 3
    MaxGap = 5
    GapWindow = 3
    GapFactor = 2
    MinGroup = 1
    PrefixMin = 2
    SuffixMin = 2
    MinTokens = 4
    FillerGap = 2
    FillerWords = 4
    ReadableGap = 1
    TailGap = 8
    ReadableWords = 4
    PreferGap = 1
    InlineMinRest = 2
    InlineShort = 5
    MinProtected = 2
    MinOrdinary = 3
    MaxDisplay = 9
    MergeBatch = 3
    MergeWords = 4
    MergeDuration = 10
    MergeGap = 4
    MinReply = 2
    MaxReply = 6
    ReplyAlone = 3
    ReplyDistance = 6
SPECIFICATION Spec
INVARIANTS
    SplitIsSound
CHECK_DEADLOCK FALSE
