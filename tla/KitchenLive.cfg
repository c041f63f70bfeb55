\* Liveness: nobody sends a ticket again.
SPECIFICATION FairSpec
CONSTANTS
    Reach = TRUE
    MaxRetries = 0
PROPERTY
    TicketEnds
