SPECIFICATION RecordsSpec
CONSTANTS
    None = None
    p1 = p1
    p2 = p2
    k1 = k1
    k2 = k2
    m1 = m1
    m2 = m2
    Request = {p1, p2}
    Mixes = {{"statement", "feedback", "invite"}, {"document"}, {"evaluate", "transition"}, {"consent", "register", "upload"}}
    Key = {k1, k2}
    MaxCommits = 3
    Invitation = {"request"}
    Manager = {m1, m2}
    Episode = {1, 2}
    DeskOfficer = {"desk"}
    Complainant = {"owner"}
    Address = {"address"}
    MaxGuesses = 1
    MaxPerOfficer = 3
    MaxPerAddress = 2
    MaxUploads = 1
SYMMETRY Symmetry
INVARIANTS
    CorrectionsInLine
    DocumentsOnce
    ConsentKept
    IntakeTogether
PROPERTIES
    AlertsForward
    FilesInScope
