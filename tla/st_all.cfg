\* Two clients in turn; messages arrive in pieces.
CONSTANTS
  Clients = {c1, c2}
  MaxLen = 2
  MaxBytes = 3
SPECIFICATION FairSpec
INVARIANTS TypeOK StreamIntact
PROPERTIES RecvDataReturns ServerMovesOn
CHECK_DEADLOCK FALSE
