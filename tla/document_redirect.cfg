SPECIFICATION Spec
CONSTANTS
  Doc = {d1}
  Refused = {d1}
  Level = {"AdES-B-B"}
  NULL = NULL
INVARIANTS
  RedirectMeansStored
