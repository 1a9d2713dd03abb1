SPECIFICATION FairSpec
CONSTANTS
  Doc = {d1, d2}
  Tab = {t1}
  Handler = {h1}
  Nonce = {n1, n2}
  Navigation = {"abort", "address", "reload"}
  Restored = {"wallet", "waiting"}
  SavesUnmodified = TRUE
  DbFaults = {"rollback", "lost_ack"}
  NULL = NULL
INVARIANTS
  SignedUnderOwnName
  PollsShownRequest
PROPERTIES
  WaitingEnds
