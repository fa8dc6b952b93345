SPECIFICATION PartsSpec
CONSTANTS
    MinSpeech = 2
    SpeechPad = 1
    MergeGap = 1
    MinSegment = 3
    Preferred = 4
    Minimal = 2
    Padding = 1
    DipPadding = 0
    SearchPercent = 40
    Recordings <- MCRecordings
    Settings <- MCSettings
    Transcribed <- MCTranscribed
    Modes = {"off", "full", "merge"}
    Defaults <- MCDefaults
    LongAt = 9
    HalfLong = 8
    MostLong = 7
    VeryLong = 11
    FreeItems = {3}
    Memories = {10, 99}
    Buckets = {5}
    MaxCommands = 5
    Texts <- MCTexts
    Timings <- MCTimings
    Answers <- MCAnswers
    FallbackWindow = 3000
    ZeroRun = 3
    MinCoverage = 20
    DenseCoverage = 50
    DenseZeros = 50
    ExpectedCps = 6
    MinChars = 8
    MaxSpan = 500
    MaxCps = 35
    MaxTokens = 12
    MaxRatio = 60
    TargetCps = 15
    NaturalCps = 8
    MaxExpand = 3
    CollapsedAt = 40
INVARIANTS
    SpeechIsHeard
    RowIsOfItsWindow
    RepairIsHonest
PROPERTIES
    EveryWindowEnds
CHECK_DEADLOCK FALSE
