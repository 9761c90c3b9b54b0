SPECIFICATION Spec
CONSTANTS
    None = None
    Torn = Torn
    Contents <- ContentSet
    Clean <- CleanSet
    Correct <- CorrectSet
    Outputs <- OutputSet
    Requests <- RequestSet
    MaxRuns = 2
    MaxEdits = 1
    MaxCrashes = 1
CHECK_DEADLOCK FALSE
INVARIANTS
    RepairVerified
    EvidenceComplete
PROPERTY LoopEnds
