SPECIFICATION Spec
CONSTANTS
    None = None
    Primary = primary
    Keys = {k1}
    Payloads <- MCOnePayload
    MaxTotal = 1
    Decimal <- MCDecimal
    Updates = {u1}
    Fallbacks = {}
    MaxAttempts = 2
PROPERTIES
    BusinessErrorsAreFinal
CHECK_DEADLOCK FALSE
