SPECIFICATION Spec
CONSTANTS
    q1 = q1
    q2 = q2
    t1 = t1
    t2 = t2
    w1 = w1
    w2 = w2
    Workers = {w1, w2}
    Requests = {q1}
    Tasks = {t1}
    MaxApps = 2
    MaxLeases = 1
    MaxCrashes = 1
CONSTRAINT RaceAfterCrash
SYMMETRY Symmetry
INVARIANTS
    RevisionStoreSound
    JournalOrder
    ResultsAreLeased
