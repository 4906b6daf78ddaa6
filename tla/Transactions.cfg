CONSTANTS
  t1 = t1  t2 = t2  t3 = t3
  m1 = m1  m2 = m2
  Tasks = {t1, t2, t3}
  Managers = {m1, m2}
  WithTxn = {m1}
  Uses <- MCUses
  MaxConns = 1
  MaxDepth = 2
  MaxWrites = 1
  None = None
SPECIFICATION FairSpec
CHECK_DEADLOCK FALSE
INVARIANTS
  TxInv
  WorkHidden
PROPERTIES
  CallsEnd
  TransactionsImplemented
