SPECIFICATION Spec
CONSTANTS
  Doc = {d1}
  Refused = {}
  Level = {"AdES-B-B"}
  NULL = NULL
INVARIANTS
  AsicIsDetached
