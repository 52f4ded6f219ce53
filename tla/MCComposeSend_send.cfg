CONSTANTS
    None = None
    NAtt = 2
    MaxEdits = 2
    MaxSends = 2
    MaxFaults = 1
    MaxCrashes = 1
SPECIFICATION FairSpec
INVARIANTS VaultComplete NoVaultLitter SubmittedAsJournaled SendingHasWorker SavedTextSurvives
PROPERTIES SendAnswered
CHECK_DEADLOCK FALSE
