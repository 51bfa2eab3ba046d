CONSTANTS
    Run = {"dev", "test"}
    Reviewed <- MCReviewed
    Configurations <- MCConfigurations
    Submissions <- MCSubmissions
    Dimension = {"fidelity", "safety"}
    Policy <- AllPolicies
    CampaignId = {"one"}
    Campaign <- MCCampaign
    ReviewQuota = 2
    DomainQuota = 1
    AgreementMinimum = 5000
    FalsePassMaximum = 5000
    FalseFailMaximum = 5000
    DomainFalsePassMaximum = 5000
    Scale = 10000
    Request <- MCRequest
    Registered = {"judge", "other", "model"}
    MaxReports = 1
    None = None
SPECIFICATION AnySpec
CHECK_DEADLOCK FALSE
INVARIANTS ReviewIsSound ActivationsAreSound EnforcedRunsAreEarned
PROPERTIES ReviewOnlyGrows
