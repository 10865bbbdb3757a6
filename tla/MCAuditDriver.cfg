SPECIFICATION Spec
CONSTANTS
    N = 4
    Tools <- MCTools
    PromptTools <- MCPrompt
    Paces = {0, 2}
    Filled <- MCFilled
    OtherCalls = 2
    DefaultRetry = 2
    HintsAlways = {FALSE, TRUE}
    Replays = {FALSE, TRUE}
    Limit = 3
    Window = 4
INVARIANTS RowsOnce StatsHonest HeadroomKept RetriesBounded AllAccounted
PROPERTIES DriverEnds
CHECK_DEADLOCK FALSE
