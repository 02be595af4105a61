\* A second worker can swallow the wakeup meant for the client.
CONSTANTS
  Workers = {w1, w2}
  Clients = {c1}
  Limits = {1}
  MaxTasks = 4
SYMMETRY Symmetry
SPECIFICATION Spec
INVARIANT NoStall
CHECK_DEADLOCK FALSE
