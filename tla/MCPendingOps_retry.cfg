CONSTANTS
    High = High
    Low = Low
    Labels = {High, Low}
    Opposite <- MCOpposite
    Starts <- MCStarts
    None = None
    MaxRetries = 2
    FetchLimit = 1
    MaxOps = 2
    MaxSyncs = 1
    MaxFaults = 1
    MaxCrashes = 1
SPECIFICATION FairSpec
INVARIANTS OneLivePerType OverlayIsOwn
PROPERTIES ChoiceStaysVisible QueueDrains OverlayEnds
