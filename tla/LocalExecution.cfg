SPECIFICATION Spec
CONSTANTS
    Tasks <- Ids
    Blueprints <- TwoEditions
    Revisions <- RevisionSet
    Roles <- RoleSet
    MaxFaults = 1
    MaxCrashes = 1
INVARIANTS
    TypeOK
    LedgerConsistent
    CompletedIsEvidenced
    VerdictHonest
PROPERTIES
    ImplementsTaskBoard
    ResumeCompletes
    ReachesVerdict
