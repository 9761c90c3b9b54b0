SPECIFICATION Spec
CONSTANTS
    None = None
    Torn = Torn
    e1 = e1
    e2 = e2
    Kinds <- NoKinds
    Outputs <- OutputSet
    Passing <- PassingSet
    Executors <- TwoExecutors
    Repository <- ThisRepository
    Hosts <- CurrentHost
    Layered = FALSE
    CloudDecisions <- CloudSet
    RemoteStatuses <- RemoteSet
    Budget <- EvidenceBudget
SYMMETRY Interchangeable
CHECK_DEADLOCK FALSE
INVARIANTS
    ReadinessEarned
    NoLegacyReadiness
