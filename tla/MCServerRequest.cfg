\* A connection ends: the run may stop.
CHECK_DEADLOCK FALSE
SPECIFICATION FairSpec
CONSTANTS Base = 2  MaxFile = 3  EXPIRE = 2  SHORT = 8  PIECE = 4
INVARIANTS TypeOK AnswersTheRange
PROPERTY RequestEnds
