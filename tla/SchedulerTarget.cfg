CONSTANTS
    SlotLimit = 4
    SlotCount = 3
    AcceptedTarget = 2
    BatchSize = 3
    MaxConcurrency = 2
    ProbeSize = 3
    RetryLimit = 0
    CallLimit = 1
    JudgeMode = "off"
    Faults = {"kill"}
    MaxInvocations = 2
    GenerationLimit = 3
    AgentLimit = 4
    JudgeLimit = 0
    TotalLimit = 6
    Key = {k1, k2, k3}
    Owner <- MCOwner
    Verdict <- MCVerdict
    RoleLimit <- MCRoleLimit
    None = None
SYMMETRY KeySymmetry
SPECIFICATION Spec
INVARIANTS SchedulerInvariant TargetTakesTheEarliest ReportIsEarned
PROPERTIES KeepsContract
