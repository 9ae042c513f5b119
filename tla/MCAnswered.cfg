SPECIFICATION FairSpec
CONSTANTS
    c1 = c1
    c2 = c2
    charge = charge
    commander = commander
    i1 = i1
    i2 = i2
    s1 = s1
    s2 = s2
    r1 = r1
    r2 = r2
    None = None
    Complaint = {c1}
    Legacy = {}
    Approved = {c1}
    Officer = {commander, i1}
    Station = {s1}
    Request = {r1, r2}
    Operations = {"approve", "assign", "status"}
    InitialPosting <- MCInitialPosting
    NewPostings <- MCCasePostings
    MaxApprovals = 1
    MaxHistory = 3
    MaxEntries = 0
PROPERTIES
    EveryRequestAnswered
