SPECIFICATION DmlSpec
CONSTANTS
  Null = Null
  Cols <- MCCols
  CellValues <- MCCellValues
  NotNull <- MCNotNull
  Indexed <- MCIndexed
  Defaults <- MCDefaults
  Statements <- MCStatements
  MaxRid = 4
INVARIANTS DmlTypeOK TouchesOnlyMatching NothingMissed EffectIsHits
PROPERTY ImplementsTable
