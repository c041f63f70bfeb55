\* A till that reaches the printer itself; people send the ticket again twice.
SPECIFICATION Spec
CONSTANTS
    Reach = TRUE
    MaxRetries = 2
INVARIANTS
    TypeOK
    
    ServerPrintsOnce
