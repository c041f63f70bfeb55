\* A crash between the document and the order.
SPECIFICATION Spec
CONSTANTS
    p1 = p1
    r1 = r1
    t1 = t1
    None = None
    NoCard = NoCard
    Payments = {p1}
    Sweeps = {r1}
    Terminals = {t1}
    Reconfig = {}
    Lock = FALSE
INVARIANT
    ApprovalReachesOrder
