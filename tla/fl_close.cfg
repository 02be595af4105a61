\* The last messages of a program.
CONSTANTS
  NBuf = 2
  buffer_size_ = 2
  MaxMsg = 2
  MaxFlush = 0
SPECIFICATION Spec
INVARIANT ClosedIsWritten
CHECK_DEADLOCK FALSE
