\* Short texts and texts with one character wrong.
CONSTANTS
  Inputs <- MCInputs
  OutOfRange <- MCOutOfRange
SPECIFICATION FairSpec
INVARIANTS TypeOK JsonIsParsed AcceptedIsJson
PROPERTIES Terminates
CHECK_DEADLOCK FALSE
