CONSTANTS
    Segs <- MCSegs
    Tolerant <- MCTolerant
    Commands <- MCCommands
    MaxRuns = 3
    MaxKills = 1
    NMedia = 4
    Requested <- MCRequested
    PrepareWorkers = 2
    HistoryRuns = 2
    Words <- MCWord
    Directories <- MCDirectories
    HistoryOptions <- MCOptions
    ModelAnswers <- MCAnswers
    CueLists <- MCCueLists
    Durations = {0, 24}
    Responses <- MCResponses
    Ranges <- MCRanges
    PreRoll = 4
    PostRoll = 4
    MinLead = 1
    MinClip = 10
    MaxClip = 26
    MinSliced = 2
    Tolerance = 1
    MinCue = 1
    RefineBefore = 2
    RefineAfter = 1
    EndBefore = 1
    EndAfter = 2
SPECIFICATION MCSpec
CHECK_DEADLOCK FALSE
INVARIANTS
    ResumePasses
    ExportIsWhole
    BatchIsTrue
    ClipsAreWhole
    HistoryIsTrue
