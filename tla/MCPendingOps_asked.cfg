CONSTANTS
    High = High
    Low = Low
    Labels = {High, Low}
    Opposite <- MCOpposite
    Starts <- MCStarts
    None = None
    MaxRetries = 2
    FetchLimit = 1
    MaxOps = 1
    MaxSyncs = 0
    MaxFaults = 0
    MaxCrashes = 0
SPECIFICATION Spec
INVARIANT GivenUpWasAsked
