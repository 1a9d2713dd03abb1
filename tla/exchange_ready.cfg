SPECIFICATION Spec
CONSTANTS
  Nonce = {n1}
  Upload = {u1, u2}
  View = {v1}
  MaxDocs = 1
  MaxAge = 1
  MaxClock = 2
  Deliveries = {"request_uri"}
  DbFaults = {}
  TimedTables = {"sd", "sdo"}
  NULL = NULL
INVARIANTS
  ReadyMeansSigned
CHECK_DEADLOCK FALSE
