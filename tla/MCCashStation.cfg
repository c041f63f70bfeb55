\* Two clients, a transaction after another, coins that ask for change; the bounds end every behaviour.
SPECIFICATION Spec
CONSTANTS
    c1 = c1
    c2 = c2
    x1 = x1
    x2 = x2
    None = None
    Clients = {c1, c2}
    Txs = {x1, x2}
    Due = 1
    Coins = {1, 2}
    MaxIn = 2
SYMMETRY Symmetry
INVARIANTS
    TypeOK
    OneCustomer
    
    
    
PROPERTY
    EndsForGood
CHECK_DEADLOCK FALSE
