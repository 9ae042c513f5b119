SPECIFICATION FileSpec
CONSTANTS
    c1 = c1
    c2 = c2
    i1 = i1
    i2 = i2
    s1 = s1
    s2 = s2
    None = None
    Complaint = {c1, c2}
    Officer = {i1, i2}
    Station = {s1, s2}
    Legacy = {c2}
    Approved = {}
    InitialPosting <- MCInitialPosting
    NewPostings <- MCNewPostings
    MaxApprovals = 2
    MaxHistory = 5
    MaxEntries = 1
SYMMETRY Staff
INVARIANTS
    FileTypeOK
    HistoryTellsStatus
    OneUnfinishedCase
    AssigneePosted
    DecisionFinal
    EscalationFollowsRefusal
PROPERTIES
    NothingReopens
    EntriesFollowDocket
    SchemaAccepts
