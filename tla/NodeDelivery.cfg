SPECIFICATION FairSpec
CONSTANTS
    MaxAttempts = 2
    Port = TRUE
    Rounds = 2
    MaxRenewals = 3
    MaxFaults = 1
    MaxInputs = 2
INVARIANTS
    TurnsExclusive
    JournalSound
    CompletionRemembered
PROPERTIES
    ComesToRest
CHECK_DEADLOCK FALSE
