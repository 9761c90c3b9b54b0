SPECIFICATION Spec
CONSTANTS
    q1 = q1
    q2 = q2
    w1 = w1
    w2 = w2
    b1 = b1
    b2 = b2
    safe = safe
    escalated = escalated
    escalated2 = escalated2
    faulty = faulty
    Workers = {w1}
    Requests = {q1, q2}
    Safe = {safe}
    Escalated = {escalated, escalated2}
    Faulty = {faulty}
    Batches = {b1, b2}
    MaxCrashes = 1
SYMMETRY Symmetry
INVARIANTS
    OneFilePerRequest
    ApprovalMatchesRequest
    ExportedIsPacked
PROPERTIES
    ImplementsLifecycle
\* Every id may be spent on a request a crash has lost: the bounded system stops.
CHECK_DEADLOCK FALSE
