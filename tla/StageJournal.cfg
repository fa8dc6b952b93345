CONSTANTS
    Segments = {g1, g2}
    Outcomes = {"failed", "completed"}
    MaxRequests = 1
SPECIFICATION Spec
INVARIANTS
    ReportedIsKept
    EndedIsWhole
