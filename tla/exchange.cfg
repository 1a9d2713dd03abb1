SPECIFICATION Spec
CONSTANTS
  Nonce = {n1, n2}
  Upload = {u1, u2}
  View = {v1}
  MaxDocs = 2
  MaxAge = 1
  MaxClock = 2
  Deliveries = {"request_uri", "link"}
  DbFaults = {"connect", "rollback", "lost_ack"}
  TimedTables = {"sd", "sdo"}
  NULL = NULL
SYMMETRY Symmetry
INVARIANTS
  TypeOK
  ClosedMeansAnswered
  OkIsDurable
  PageShowsAnAnswer
PROPERTIES
  QuietIsFinal
  NoAdmissionAfterOk
CHECK_DEADLOCK FALSE
