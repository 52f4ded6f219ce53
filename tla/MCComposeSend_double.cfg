CONSTANTS
    None = None
    NAtt = 2
    MaxEdits = 2
    MaxSends = 2
    MaxFaults = 1
    MaxCrashes = 0
SPECIFICATION Spec
INVARIANTS NoDoubleSend
CHECK_DEADLOCK FALSE
