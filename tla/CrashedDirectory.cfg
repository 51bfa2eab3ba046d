CONSTANTS
    Process = {p1}
    Source = {good}
    TooSmall = {}
    Episode = {e1}
    Sufficient = {{e1}}
    CohortId = {c1}
    MaxDeaths = 1
    None = None
SPECIFICATION Spec
INVARIANTS CrashedIsResumable
