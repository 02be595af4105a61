\* Two peers that may reset, one of them with two bytes, two user threads, a
\* queue that holds one piece.
CONSTANTS
  Peers = {p1, p2}
  Users = {u1, u2}
  maxMessageCount = 1
  Resets = TRUE
  MaxBytes = 2
  Brief = {p2}
SPECIFICATION FairSpec
INVARIANTS TypeOK BytesInOrder HandlersArmed NotAllBlocked
PROPERTY EveryPeerServed
CHECK_DEADLOCK FALSE
