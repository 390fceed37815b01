SPECIFICATION Spec
CONSTANTS
    None = None
    Primary = primary
    Keys = {k1, k2}
    Payloads <- MCPayloads
    MaxTotal = 12
    Decimal <- MCDecimal
    Updates = {u1, u2}
    Fallbacks = {}
    MaxAttempts = 2
SYMMETRY MCSymmetry
INVARIANTS
    TypeOK
    AnswersAreTrue
    RunningTotalNeverOverstates
CHECK_DEADLOCK FALSE
