SPECIFICATION ItbSpec
CONSTANTS
  Nonce = {n1}
  Upload = {u1}
  View = {}
  MaxDocs = 3
  MaxAge = 1
  MaxClock = 2
  Deliveries = {"request_uri"}
  DbFaults = {"connect", "lost_ack"}
  TimedTables = {"sd", "sdo"}
  NULL = NULL
  doc = doc
  sig = sig
  csv1 = csv1
  csv2 = csv2
  Content <- MCContent
  Bodies <- MCBodies
INVARIANTS
  ItbTypeOK
  LogsAreTrue
  TesterSeesLogs
  DecodedAsSent
PROPERTIES
  OkReachesTester
CHECK_DEADLOCK FALSE
