SPECIFICATION Spec
CONSTANTS
  Uploads = {u1}
  Old = Old
  Validations = {v1, v2}
  Removals = {}
  Activations = {a1}
  Workers = {}
  MaxAttempts = 1
  None = None
INVARIANT SuspensionHolds
CHECK_DEADLOCK FALSE
