SPECIFICATION Spec
CONSTANTS
    Horizon = 9
    ExitCodes = {1}
    Script <- MCScript
    Marker = "COMMITTED_WRITE_DONE"
    Reach <- MCReach
    FirstTimeout = 1
    RelaunchTimeout = 1
    StrTimeout = 1
    StrWindow = 2
    StrHold = 3
    MintTimeout = 2
    ScanTimeout = 1
INVARIANTS TypeOK PassIsEarned OneAtATime PolledAlive NothingLeftRunning
PROPERTIES Terminates
CHECK_DEADLOCK FALSE
