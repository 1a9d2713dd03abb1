SPECIFICATION Spec
CONSTANTS
  Doc = {d1, d2}
  Refused = {d2}
  Level = {"AdES-B-B", "AdES-B-T"}
  NULL = NULL
INVARIANTS
  TypeOK
  PackagingFits
  ConfirmedIsShown
  StoredIsConfirmed
PROPERTIES
  ConfirmedIsFrozen
