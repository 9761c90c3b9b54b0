SPECIFICATION Spec
CONSTANTS
    q1 = q1
    q2 = q2
    t1 = t1
    t2 = t2
    w1 = w1
    w2 = w2
    Workers = {w1}
    Requests = {q1}
    Tasks = {t1, t2}
    MaxApps = 3
    MaxLeases = 3
    MaxCrashes = 1
SYMMETRY Symmetry
INVARIANTS
    TypeOK
    RecordMatchesPlan
    JournalNeverAhead
    ResumedWorkPublished
PROPERTIES
    ImplementsRevisionStack
