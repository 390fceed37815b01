SPECIFICATION Spec
CONSTANTS
    Bills = {b1}
    Tx = {t1, t2, t3}
    Readers = {r1}
    None = None
    Keys = {k1, k2}
    k1 = k1
    k2 = k2
    Payloads <- MCPayloads
    MaxTotal = 12
    Decimal <- MCDecimal
SYMMETRY MCSymmetry
INVARIANTS
    TypeOK
    TotalMatchesItems
    CheckedStatusHolds
    SnapshotIsCurrent
    AcknowledgedIsDurable
    RepliesAreSerial
    ViewIsConsistent
PROPERTIES
    FrozenOnceLeftOpen
    ImplementsLedger
    PersistIsAtomic
