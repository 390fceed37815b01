SPECIFICATION Spec
CONSTANTS
    Bills = {b1, b2, b3}
    Clients = {c1}
    Times = {1, 2, 3}
    CreateRequests <- MCCreateRequests
    ListRequests <- MCListRequests
    MaxLength = 2
    MaxPeriod = 1
    DefaultLimit = 1
    MaxLimit = 2
    None = None
SYMMETRY MCSymmetry
INVARIANTS
    TypeOK
    WalkMissesNone
    ShortPageReachesTotal
