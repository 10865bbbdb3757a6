SPECIFICATION Spec
CONSTANTS
    Horizon = 8
    MayFork = TRUE
    ExitCodes = {0, 1}
    Arms = {"HR-12", "SV-BOOT-01", "SV-SESS-02", "SV-SESS-05", "SV-CARD-09", "SV-BOOT-02", "SV-BOOT-03", "SV-BOOT-05"}
    RefuseTimeout = 1
    BootTimeout = 4
    BootWindow = 3
    KillTimeout = 6
    KillPoll = 3
    KillProbe = 4
INVARIANTS TypeOK ExitArmsSound ConformingNeverFails NotCutOff NothingLeftRunning
PROPERTIES HandlerEnds
CHECK_DEADLOCK FALSE
