\* A queue that refuses or overwrites when it is full.  No symmetry: liveness
\* is checked.
CONSTANTS
  Consumers = {c1, c2, c3}
  maxMessageCount = 2
  MaxPush = 6
SPECIFICATION FairSpec
INVARIANTS TypeOK KeepsNewest NoStrandedConsumer
PROPERTIES AcceptedNotLost ImplementsLossyFifo SleepersServed
CHECK_DEADLOCK FALSE
