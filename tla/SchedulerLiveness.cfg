CONSTANTS
    SlotLimit = 3
    SlotCount = 3
    AcceptedTarget = 2
    BatchSize = 2
    MaxConcurrency = 2
    ProbeSize = 2
    RetryLimit = 1
    CallLimit = 1
    JudgeMode = "enforced"
    Faults = {"cancel"}
    MaxInvocations = 1
    GenerationLimit = 2
    AgentLimit = 3
    JudgeLimit = 1
    TotalLimit = 4
    Key = {k1, k2}
    Owner <- MCOwner
    Verdict <- MCVerdict
    RoleLimit <- MCRoleLimit
    None = None
SPECIFICATION FairSpec
INVARIANTS AdmittedPassTheJudge
PROPERTIES ProcessesEnd FinishedEpisodesAreKept CancelIsReported
