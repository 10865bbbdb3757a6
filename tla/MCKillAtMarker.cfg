SPECIFICATION Spec
CONSTANTS
    Timeout = 1
    Horizon = 3
    MayFork = FALSE
    MayCancel = TRUE
    ExitCodes = {1}
    Script <- MCScript
    Marker = "COMMITTED_WRITE_DONE"
    Reach <- MCReach
    PreKill = TRUE
    HasDriver = TRUE
    MayUsurp = TRUE
INVARIANTS SeenIsEvidenced ScannerQuiet
PROPERTIES KillNeedsMarker ImplementsLaunch Returns
CHECK_DEADLOCK FALSE
