SPECIFICATION Spec
CONSTANTS
    c1 = c1
    c2 = c2
    charge = charge
    commander = commander
    i1 = i1
    i2 = i2
    s1 = s1
    s2 = s2
    r1 = r1
    r2 = r2
    None = None
    Complaint = {c1}
    Legacy = {}
    Approved = {}
    Officer = {charge, commander}
    Station = {s1, s2}
    Request = {r1, r2}
    Operations = {"register", "review", "decide", "open", "approve", "change", "material"}
    InitialPosting <- MCInitialPosting
    NewPostings <- MCDeskPostings
    MaxApprovals = 2
    MaxHistory = 2
    MaxEntries = 1
SYMMETRY Slots
INVARIANTS
    
    ApprovalOpensDocket
PROPERTIES
    ImplementsCaseFile
    ReviewerOnDuty
