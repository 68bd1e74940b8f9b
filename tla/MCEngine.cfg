SPECIFICATION EngineSpec
CONSTANTS
  d1 = d1
  d2 = d2
  t1 = t1
  k1 = k1
  k2 = k2
  NoDb = NoDb
  Dbs = {d1, d2}
  Tables = {t1}
  Keys = {k1, k2}
  Threads = {h1}
  Statements <- MCStatements
  MaxClock = 4
  MaxCrashes = 1
  MaxLost = 1
INVARIANTS EngineTypeOK CurrentExists JournalTellsTables
PROPERTIES RevertedIsTold RevertStaysHome
