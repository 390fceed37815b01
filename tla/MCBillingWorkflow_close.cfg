SPECIFICATION Spec
CONSTANTS
    None = None
    Primary = primary
    Keys = {k1}
    Payloads <- MCOnePayload
    MaxTotal = 1
    Decimal <- MCDecimal
    Updates = {u1}
    Fallbacks = {f1}
    MaxAttempts = 2
INVARIANTS
    CompletedRunsInvoiced
    InvoicesBounded
PROPERTIES
    InvoiceIsFinal
    ImplementsLedger
CHECK_DEADLOCK FALSE
