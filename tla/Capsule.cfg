SPECIFICATION Spec
CONSTANTS
    Callers = {"main", "keeper"}
    MaxProcs = 2
    MaxGrants = 2
    MaxTurns = 1
    MaxInputs = 1
    MaxFaults = 1
INVARIANTS
    Ownership
    ProvenSilent
CHECK_DEADLOCK FALSE
