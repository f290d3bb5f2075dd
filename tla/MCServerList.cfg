SPECIFICATION Spec
CONSTANTS
    Threads = {d1, d2, d3}
    Servers = {s1, s2}
    Entry = {e1, e2}
    Head = Head
    NoEntry = NoEntry
    NoServer = NoServer
    Nobody = Nobody
    MaxStored = 1
INVARIANTS
    TypeOK
    ListSound
    WayOut
    MissMeansMoved
SYMMETRY Symmetry
