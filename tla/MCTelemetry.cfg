SPECIFICATION TelemetrySpec
CONSTANTS
  t1 = t1
  t2 = t2
  Threads <- MCThreads
  HitsWindow = 5
  LatenciesWindow = 2
  ErrorsWindow = 3
  RateWindow = 1
  MaxTime = 7
  MaxRequests = 4
INVARIANTS
  TelTypeOK
  NothingUnderreported
  ReportExactAtLastRequest
SYMMETRY ThreadSymmetry
CHECK_DEADLOCK FALSE
