\* Two customers, one sweep, one terminal that may be set to no card or taken out of the settings; the card lock is on.
SPECIFICATION Spec
CONSTANTS
    p1 = p1
    p2 = p2
    r1 = r1
    t1 = t1
    None = None
    NoCard = NoCard
    Payments = {p1, p2}
    Sweeps = {r1}
    Terminals = {t1}
    Reconfig = {NoCard, None, t1}
    Lock = TRUE
SYMMETRY Symmetry
INVARIANTS
    TypeOK
    ChargeAccounted
    CompletedWasCharged
    CancelledWasNotCharged
    PaidWasCharged
    OneCardAtATime
PROPERTIES
    SettledForGood
    NoFrameWhileUnresolved
