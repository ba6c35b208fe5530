SPECIFICATION FairSpec
CONSTANTS
  Thread = {t1, t2, t3}
  Conn = {c1, c2}
  NoConn = NoConn
  NoTxn = NoTxn
  Size = 2
INVARIANTS
  Accounting
  NoLostWakeup
PROPERTIES
  KeepsContract
  BorrowEnds
