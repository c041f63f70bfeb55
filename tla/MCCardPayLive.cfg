\* Two settle runs that overlap: the terminal is let go of, and every attempt on disk is settled.
SPECIFICATION FairSpec
CONSTANTS
    p1 = p1
    r1 = r1
    r2 = r2
    t1 = t1
    None = None
    NoCard = NoCard
    Payments = {p1}
    Sweeps = {r1, r2}
    Terminals = {t1}
    Reconfig = {NoCard, t1}
    Lock = FALSE
PROPERTIES
    TerminalFreed
    
