CONSTANTS
    SlotLimit = 2
    SlotCount = 1
    AcceptedTarget = None
    BatchSize = 1
    MaxConcurrency = 1
    ProbeSize = 1
    RetryLimit = 0
    CallLimit = 1
    JudgeMode = "enforced"
    Faults = {"kill"}
    MaxInvocations = 2
    GenerationLimit = 1
    AgentLimit = 1
    JudgeLimit = 2
    TotalLimit = 4
    Key = {k1}
    Owner <- MCOwner
    Verdict <- MCVerdict
    RoleLimit <- MCRoleLimit
    None = None
SPECIFICATION Spec
INVARIANTS AdmittedPassTheJudge
