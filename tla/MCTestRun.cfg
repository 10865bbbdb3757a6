SPECIFICATION Spec
CONSTANTS
    Handlers <- MCHandlers
    Defs <- MCDefs
    PhaseChoices <- MCPhases
    Requests <- MCRequests
    AdapterTests <- MCAdapters
    Adapters = {FALSE, TRUE}
    Profile = "core"
    Evidence <- MCEvidence
INVARIANTS OneResultEach PhaseOrder ExitZeroEarned
CHECK_DEADLOCK FALSE
