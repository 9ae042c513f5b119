SPECIFICATION Spec
CONSTANTS
    c1 = c1
    c2 = c2
    charge = charge
    commander = commander
    i1 = i1
    i2 = i2
    s1 = s1
    s2 = s2
    r1 = r1
    r2 = r2
    None = None
    Complaint = {c1, c2}
    Legacy = {c2}
    Approved = {}
    Officer = {charge, commander}
    Station = {s1, s2}
    Request = {r1, r2}
    Operations = {"register", "decide", "open", "refusal_review", "escalation", "ncc_escalation"}
    InitialPosting <- MCInitialPosting
    NewPostings <- MCDeskPostings
    MaxApprovals = 1
    MaxHistory = 2
    MaxEntries = 0
SYMMETRY Slots
PROPERTIES
    ImplementsCaseFile
