SPECIFICATION FairSpec
CONSTANTS
    Bills = {b1, b2}
    Passes = {p1}
    Times = {1, 2}
    Requests = {0, 3}
    DefaultLimit = 1
    MaxLimit = 2
    None = None
INVARIANTS
    TypeOK
    RunIdIsOwn
    BatchIsAccountedFor
PROPERTIES
    BackfilledUnlessStarved
