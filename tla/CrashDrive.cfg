SPECIFICATION Spec
CONSTANTS
    FirstTimeout = 1
    RelaunchTimeout = 1
    Horizon = 6
    ExitCodes = {1}
    Script <- MCScript
    Marker = "COMMITTED_WRITE_DONE"
    Reach <- MCReach
    PreKill = TRUE
    HasDriver = TRUE
    ProbeTalks = FALSE
INVARIANT DriveStaysInFirstLaunch
CHECK_DEADLOCK FALSE
