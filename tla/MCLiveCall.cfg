SPECIFICATION Spec
CONSTANTS
    Latency = 1
    HookN = 4
    ProbeSleep = 4
    Deadline = 2
    Shared = FALSE
    CardEtag = "placeholder"
    Codes <- MCCodes
    Deltas = 4
    Paced = TRUE
    Tools <- MCTools
    PageSize = 2
    PageCap = 4
    MaxOthers = 1
    Drives = 3
    MaxRound = 2
    MaxMoves = 4
    MaxBusy = 1
    Boots = {1, 13, 16}
    MaxLength = 3
    Horizon = 7
    Hour = 2
    Skew = 2
    MaxLost = 1
INVARIANTS ConformingNeverFails PassIsEarned
PROPERTIES HandlerEnds
CHECK_DEADLOCK FALSE
