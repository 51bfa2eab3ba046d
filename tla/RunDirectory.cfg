CONSTANTS
    Process = {p1, p2}
    Source = {good, edited}
    TooSmall = {edited}
    Episode = {e1, e2}
    Sufficient = {{e1, e2}, {e1}}
    CohortId = {c1, c2}
    MaxDeaths = 2
    None = None
SYMMETRY DirectorySymmetry
SPECIFICATION Spec
INVARIANTS DirectoryInvariant PaidWorkIsResumable OneInitialState PublishedWhenQuiet ReviewFollowsEvidence
PROPERTIES EvidenceIsKept
