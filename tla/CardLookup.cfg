\* One charge, a terminal whose status calls are heard. A charge may be settled for good.
SPECIFICATION FairSpec
CONSTANTS
    StatusHeard = TRUE
INVARIANT
    WordIsTrue

    
CHECK_DEADLOCK FALSE
