SPECIFICATION EntryRouterSpec
CONSTANTS
  c1 = c1
  c2 = c2
  d1 = d1
  d2 = d2
  t1 = t1
  Clients <- MCClients
  Statements <- MCStatements
  Script <- MCScript
  Dbs = {d1, d2}
  Tables = {t1}
  Keys = {}
  None = None
  MaxStorages = 3
  MaxDeaths = 2
INVARIANTS
  RouterTypeOK
  AtMostOnce
  AnswerTellsTruth
PROPERTIES
  EveryoneAnswered
  StatementFollowsUse
CHECK_DEADLOCK FALSE
