SPECIFICATION Spec
CONSTANTS
    Dispatchers = {d1, d2}
    Clients = {c1, c2}
    page = page
    index = index
    image = image
    beyond = beyond
    garbled = garbled
    Resource = {page, index, image, beyond, garbled}
    ClientPages = {page}
    Exists = {page, index, image, beyond}
    Ref <- SiteRef
    IdxRef <- SiteIdxRef
    Longer <- SiteLonger
    MAXNUMREF = 10
    Addr = {a1, a2, a3}
    Cell = {e1, e2, e3}
    Junk = Junk
    Nobody = Nobody
    NoReq = NoReq
    CanExpire = TRUE
    CanTruncate = TRUE
    MallocMayFail = TRUE
SYMMETRY Symmetry
CHECK_DEADLOCK FALSE
INVARIANTS
    TypeOK
    OneCarrier
    CacheSound
    
    
