SPECIFICATION FairSpec
CONSTANTS
    Conn = {c1, c2, c3, c4, c5}
    MAXNUMTHREADWORKING = 2
    MaxFd = 5
CHECK_DEADLOCK FALSE
INVARIANTS
    TypeOK
    CountersMatch
    AtMostWorking
    ExitMeansLeaks
PROPERTY AdmitsAgain
