SPECIFICATION MCSpec
CONSTANTS
  MaxFile = 6
  MaxTears = 1
  Columns = {"a"}
  Texts = {"t"}
  MaxPieces = 8
INVARIANTS
  StatementsAsWritten
  ReplayReadsExecuted
  ClauseAsWritten
CHECK_DEADLOCK FALSE
