SPECIFICATION Spec
CONSTANTS
    Clients = {"c1", "c2"}
    Given = {"seed1", "auto1"}
    AutoIds <- MCAutoIds
    Ranked <- MCRanked
    TimeoutAfter = 3
    ErrTool = "consolidate"
    MaxCalls = 5
INVARIANTS CountBound DeleteIdempotent DeletedStaysHidden AckedIsFound LaterAddRefused
PROPERTIES Answered
CHECK_DEADLOCK FALSE
