\* Liveness of the station and the kiosk together.
SPECIFICATION FairPaySpec
CONSTANTS
    k1 = k1
    x1 = x1
    None = None
    Clients = {k1}
    Txs = {x1}
    Due = 1
    Coins = {1}
    MaxIn = 1
    KioskOf <- OneKiosk
    Splits = FALSE
PROPERTIES
    TransactionEnds
    
CHECK_DEADLOCK FALSE
