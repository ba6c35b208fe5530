SPECIFICATION ServerFairSpec
CONSTANTS
  Request = {r1, r2}
  Conn = {c1, c2}
  NoConn = NoConn
  Size = 2
INVARIANTS
  AnswerTruthful
  OwnTransaction
PROPERTY Answered
CHECK_DEADLOCK FALSE
