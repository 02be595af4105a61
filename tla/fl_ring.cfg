\* Write and Flush overlap, but neither moves current_buffer_ during a call of the
\* other; buffers change hands when they are full and when they are flushed.
CONSTANTS
  NBuf = 3
  buffer_size_ = 2
  MaxMsg = 7
  MaxFlush = 2
SPECIFICATION FairSpecApart
INVARIANTS TypeOK NoBufferRace NothingLost
PROPERTIES QueuedIsWritten WriteReturns
CHECK_DEADLOCK FALSE
