SPECIFICATION SourcesSpec
CONSTANTS
  c1 = c1
  c2 = c2
  t1 = t1
  t2 = t2
  f1 = f1
  f2 = f2
  Free = Free
  Caller = {c1, c2}
  Tx = {t1, t2}
  Filter = {f1, f2}
  Throwing = {f1}
  MaxReceived <- MCMaxReceived
  MaxCalls <- MCMaxCalls
INVARIANTS
  StoredOnce
PROPERTIES
  NoWayOut
  UnhealthyToTheEnd
  StuckForGood
  BatchesComeBack
CHECK_DEADLOCK FALSE
