\* One payment, in cash or cash and card; the bounds end every behaviour.
SPECIFICATION PaySpec
CONSTANTS
    k1 = k1
    x1 = x1
    None = None
    Clients = {k1}
    Txs = {x1}
    Due = 2
    Coins = {1, 2}
    MaxIn = 3
    KioskOf <- OneKiosk
    Splits = TRUE
INVARIANTS
    KioskTypeOK
    
    CompletedWasPaid
    CancelledIsOwed
    HeldKnowsDocument
CHECK_DEADLOCK FALSE
