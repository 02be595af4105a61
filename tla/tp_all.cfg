\* The smallest limit and one that is never reached; tasks that enqueue tasks and
\* tasks that do not.  No symmetry: liveness is checked.
CONSTANTS
  Workers = {w1, w2}
  Clients = {c1, c2}
  Limits = {1, 5}
  MaxTasks = 5
SPECIFICATION FairSpec
INVARIANTS TypeOK FifoExactlyOnce DrainedAtDestruction NoStrandedWorker
PROPERTIES EveryTaskStarts DestructorReturns
CHECK_DEADLOCK FALSE
