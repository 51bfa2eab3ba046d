CONSTANTS
    Process = {"p1"}
    Source = {"good", "edited"}
    TooSmall = {}
    Episode = {"shown", "uncompiled"}
    Sufficient = {{"shown", "uncompiled"}, {"shown"}}
    CohortId = {}
    MaxDeaths = 1
    Compiled = {"shown"}
    Demonstrated = {"shown"}
    None = None
SPECIFICATION ReplaySpec
INVARIANTS ReplayIsFaithful
