SPECIFICATION Spec
CONSTANTS
    Timeout = 1
    Horizon = 3
    HasProbe = TRUE
    AsksChild = FALSE
    MayFork = TRUE
    MayCancel = TRUE
    ExitCodes = {0, 1}
INVARIANTS OutcomeExclusive ExitCodeHonest
PROPERTIES Returns ImplementsLaunch
CHECK_DEADLOCK FALSE
