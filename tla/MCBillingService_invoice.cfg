SPECIFICATION ServiceSpec
CONSTANTS
    None = None
    Primary = primary
    Keys <- MCKeys
    Payloads <- MCOnePayload
    MaxTotal = 1
    Decimal <- MCDecimal
    Updates = {u1}
    Fallbacks = {f1}
    Closers = {c1}
    CloseTexts <- MCCloseTexts
    LineItemRequests <- MCLineItemRequests
    MaxLength = 2
    MaxPeriod = 1
    MaxAttempts = 2
INVARIANTS
    ClosedMeansInvoiced
CHECK_DEADLOCK FALSE
