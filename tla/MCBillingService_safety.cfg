SPECIFICATION ServiceSpec
CONSTANTS
    None = None
    Primary = primary
    Keys <- MCKeys
    Payloads <- MCOnePayload
    MaxTotal = 1
    Decimal <- MCDecimal
    Updates = {}
    Fallbacks = {f1, f2}
    Closers = {c1, c2}
    CloseTexts <- MCCloseTexts
    LineItemRequests <- MCLineItemRequests
    MaxLength = 2
    MaxPeriod = 1
    MaxAttempts = 1
SYMMETRY MCSymmetry
INVARIANTS
    ServiceTypeOK
    UpdateBillIsTrue
    CompensationStopsBilling
    InvoicedIsClosed
PROPERTIES
    UsesWorkflow
CHECK_DEADLOCK FALSE
