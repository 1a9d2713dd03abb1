SPECIFICATION Spec
CONSTANTS
  Endpoint = {e1, e2}
INVARIANTS
  CompleteIsAccepted
