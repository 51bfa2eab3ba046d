CONSTANTS
    None = None
    Domains = {"contacts", "mobile", "workspace", "all_unique"}
    DomainSources <- MCSources
    DomainParse <- MCParse
    DomainFreeze <- MCFreeze
    DomainReopen <- MCReopen
    DomainSlots <- MCSlots
    DomainCapacity <- MCCapacity
    DomainSlot <- MCSlot
    DomainPrompt <- MCPrompt
    Proposals <- MCProposals
    FreeFields <- MCFreeFields
    DomainCompile <- MCCompile
    DomainKey <- MCKey
    DomainRestore <- MCRestore
    TamperedCases <- MCTampered
    LosesQuery <- MCLosesQuery
SPECIFICATION Spec
CHECK_DEADLOCK FALSE
INVARIANTS ResumeKeepsTheRun CapacityIsDistinctTasks AcceptedMeansRequested
