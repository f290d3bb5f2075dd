SPECIFICATION Spec
CONSTANTS
    Acceptors = {p}
    Dispatchers = {d1, d2}
    Request = {r1, r2, r3}
    MAXREQ = 2
    NoReq = NoReq
    Indeterminate = Indeterminate
    SpuriousWakeups = FALSE
    MallocMayFail = FALSE
SYMMETRY Symmetry
CHECK_DEADLOCK FALSE
INVARIANT PopBlocksOnlyWhenEmpty
