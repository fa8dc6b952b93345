CONSTANTS
    MaxJobs = 2
    MaxCrashes = 1
    Users = {u1, u2}
    Cues = {c1, c2}
    Places = {p1, p2, p3}
    Texts = {t1}
    MaxUndo = 2
    MaxRev = 3
    MaxActivity = 3
    Contents = {x, y}
    Names = {n}
    Requests = {q1, q2}
    MaxRuns = 2
    MaxBlobs = 3
    MaxHalts = 1
    PageJobs = 5
SYMMETRY Symmetric
SPECIFICATION MCSpec
CHECK_DEADLOCK FALSE
INVARIANTS
    OneJob
    SavedEndIsTrue
    UndoLeadsBack
    BlobsKept
    PageIsTrue
