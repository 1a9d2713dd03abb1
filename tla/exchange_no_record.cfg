SPECIFICATION Spec
CONSTANTS
  Nonce = {n1}
  Upload = {u1, u2}
  View = {v1}
  MaxDocs = 1
  MaxAge = NULL
  MaxClock = 2
  Deliveries = {"request_uri", "link"}
  DbFaults = {}
  TimedTables = {"sd", "sdo"}
  NULL = NULL
INVARIANTS
  NoRecordMeansOver
CHECK_DEADLOCK FALSE
