SPECIFICATION ConcurrentSpec
CONSTANTS
  t1 = t1
  t2 = t2
  id = id
  k1 = k1
  k2 = k2
  Threads = {t1, t2}
  Null = Null
  Cols = {id}
  CellValues <- MCCellValues
  NotNull = {}
  Indexed = {id}
  MaxRid = 2
INVARIANT UniqueBetweenCalls
CHECK_DEADLOCK FALSE
