SPECIFICATION Spec
CONSTANTS
  Doc = {d1}
  Tab = {t1, t2}
  Handler = {h1, h2}
  Nonce = {n1}
  Navigation = {"abort", "address", "reload"}
  Restored = {"select"}
  SavesUnmodified = TRUE
  DbFaults = {"rollback", "lost_ack"}
  NULL = NULL
SYMMETRY Symmetry
INVARIANTS
  TypeOK
  NonceHasOptions
PROPERTIES
  TakenIsShown
