CONSTANTS
    Segments = {g1, g2}
    Outcomes = {"blank", "completed"}
    MaxRequests = 1
SPECIFICATION Spec
INVARIANTS
    ResetRecomputes
