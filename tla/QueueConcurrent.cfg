SPECIFICATION Spec
CONSTANTS
    q1 = q1
    q2 = q2
    w1 = w1
    w2 = w2
    b1 = b1
    b2 = b2
    safe = safe
    escalated = escalated
    escalated2 = escalated2
    faulty = faulty
    Workers = {w1, w2}
    Requests = {q1}
    Safe = {safe}
    Escalated = {escalated}
    Faulty = {}
    Batches = {b1}
    MaxCrashes = 1
SYMMETRY Symmetry
INVARIANTS
    TypeOK
    ClassificationBinds
\* Every id may be spent on a request a crash has lost: the bounded system stops.
CHECK_DEADLOCK FALSE
