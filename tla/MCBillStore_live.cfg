SPECIFICATION FairSpec
CONSTANTS
    Bills = {b1}
    Tx = {t1, t2}
    Readers = {}
    None = None
    Keys = {k1, k2}
    k1 = k1
    k2 = k2
    Payloads <- MCPayloads
    MaxTotal = 12
    Decimal <- MCDecimal
PROPERTIES
    TransactionsEnd
