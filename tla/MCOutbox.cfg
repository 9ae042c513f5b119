SPECIFICATION FairSpec
CONSTANTS
    e1 = e1
    e2 = e2
    q1 = q1
    q2 = q2
    w1 = w1
    w2 = w2
    a1 = a1
    a2 = a2
    None = None
    Event = {e1, e2}
    Row = {1, 2}
    Request = {q1, q2}
    Worker = {w1, w2}
    Address = {a1, a2}
    MaxAttempts = 2
    MaxCrashes = 1
INVARIANTS
    EmailTypeOK
    AtMostOnce
    RecordsTrue
PROPERTIES
    QueuedIsHandled
