SPECIFICATION Spec
CONSTANTS
    Timeout = 1
    Horizon = 3
    MayFork = TRUE
    ExitCodes = {0, 1}
    Arms = {"HR-12", "SV-BOOT-01", "SV-SESS-05", "SV-CARD-09", "SV-BOOT-02", "SV-BOOT-03", "SV-BOOT-05"}
INVARIANT Card09PassMeansRefused
CHECK_DEADLOCK FALSE
