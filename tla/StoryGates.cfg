SPECIFICATION Spec
CONSTANTS
    None = None
    Torn = Torn
    e1 = e1
    e2 = e2
    Kinds <- KindSet
    Outputs <- PassingSet
    Passing <- PassingSet
    Executors <- OneExecutor
    Repository <- ThisRepository
    Hosts <- CurrentHost
    Layered = TRUE
    CloudDecisions <- CloudSet
    RemoteStatuses <- RemoteSet
    Budget <- GatesBudget
CHECK_DEADLOCK FALSE
INVARIANTS
    PacketOfReadyRecord
    HumanAskedInTime
