SPECIFICATION Spec
CONSTANTS
    Acceptors = {p}
    Dispatchers = {d1, d2, d3}
    Request = {r1, r2, r3, r4}
    MAXREQ = 1
    NoReq = NoReq
    Indeterminate = Indeterminate
    SpuriousWakeups = TRUE
    MallocMayFail = TRUE
SYMMETRY Symmetry
CHECK_DEADLOCK FALSE
INVARIANTS
    TypeOK
    HandOver
    OneOwner
PROPERTY ImplementsOneSlot
