CONSTANTS
    Components = {"contacts"}
    Zone <- MCZone
    Present = 3
    Shares = {"s", "d"}
    PassPages = 6
    ResumeFloor = 0
    FreshFloor = 1
    SuccessFloor = 2
    FailureBackoffBase = 1
    PassMaxBackoff = 2
    MaxPullFaults = 1
    Aliases = {"tel", "mail"}
    Main = "tel"
    OnCard = {}
    MaxModeChanges = 1
    MaxStatusFaults = 1
    Workers = {"connect", "tick"}
    MaxEdits = 1
    MaxShares = 2
    DelaySteps = 1
    MaxProfileFaults = 1
    Refreshers = {1, 2}
    MaxCardEdits = 1
    MaxContactFaults = 1
INIT MCInit
NEXT MCNext
CHECK_DEADLOCK FALSE
INVARIANTS RetrySurvives
