\* A client that leaves.
CONSTANTS
  Clients = {c1}
  MaxLen = 1
  MaxBytes = 2
SPECIFICATION Spec
INVARIANTS ServerSurvives
CHECK_DEADLOCK FALSE
