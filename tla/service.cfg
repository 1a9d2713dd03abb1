SPECIFICATION FairServiceSpec
CONSTANTS
  Nonce = {n1}
  Upload = {u1}
  View = {v1}
  MaxDocs = 1
  MaxAge = 1
  MaxClock = 2
  Deliveries = {"request_uri", "link"}
  DbFaults = {"connect", "lost_ack"}
  TimedTables = {"sd", "sdo"}
  NULL = NULL
  UNSET = UNSET
  MISSING = MISSING
  MALFORMED = MALFORMED
  Setups <- MCSetups
INVARIANTS
  ServiceTypeOK
PROPERTIES
  ExpiredIsPurged
  ImplementsExchange
  ImplementsMailbox
  ImplementsAnswerBox
CHECK_DEADLOCK FALSE
