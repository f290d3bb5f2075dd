\* The run follows one page; it stops when the client has it or gives up.
CHECK_DEADLOCK FALSE
SPECIFICATION ExchangeSpec
CONSTANTS Base = 2  MaxFile = 4  EXPIRE = 2  SHORT = 8  PIECE = 2
          LenCells = 3  BufSize = 24  Memory <- Recycled
INVARIANTS ExchangeTypeOK AnswerIsPrefix WholeOrNothing GoodIsNotBad
