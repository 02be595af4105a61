\* Two calls of Flush beside Write.
CONSTANTS
  NBuf = 3
  buffer_size_ = 5
  MaxMsg = 3
  MaxFlush = 2
SPECIFICATION Spec
INVARIANTS NoBufferRace
CHECK_DEADLOCK FALSE
