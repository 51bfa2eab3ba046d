CONSTANTS
    SlotLimit = 3
    SlotCount = 3
    AcceptedTarget = None
    BatchSize = 2
    MaxConcurrency = 2
    ProbeSize = 2
    RetryLimit = 1
    CallLimit = 1
    JudgeMode = "shadow"
    Faults = {"kill", "cancel", "raise"}
    MaxInvocations = 2
    GenerationLimit = 2
    AgentLimit = 3
    JudgeLimit = 1
    TotalLimit = 5
    Key = {k1, k2}
    Owner <- MCOwner
    Verdict <- MCVerdict
    RoleLimit <- MCRoleLimit
    None = None
SYMMETRY KeySymmetry
SPECIFICATION Spec
INVARIANTS ClaimsMatchThreads EarliestCandidateWins CachesCoherent NeverStalls
PROPERTIES UsesLedger NoWorkAfterTerminal CancelBoundsDispatch
