SPECIFICATION TableSpec
CONSTANTS
  id = id
  note = note
  k1 = k1
  k2 = k2
  s1 = s1
  Null = Null
  Cols <- MCCols
  CellValues <- MCCellValues
  NotNull <- MCNotNull
  Indexed <- MCIndexed
  MaxRid = 3
INVARIANTS TypeOK IndexMirrorsRows IndexedUnique
PROPERTY ImplementsRowStore
