SPECIFICATION EvidenceSpec
CONSTANTS
    None = None
    Desk = Desk
    i1 = i1
    i2 = i2
    k1 = k1
    k2 = k2
    p1 = p1
    p2 = p2
    Officer = {i1, i2}
    Key = {k1, k2}
    Request = {p1, p2}
    MaxEvents = 3
SYMMETRY Symmetry
INVARIANTS
    EvidenceTypeOK
    ChainUnbroken
    FilesAgree
PROPERTIES
    WrittenInCharge
