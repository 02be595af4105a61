\* Programs with a console, a file, both or none, flushed by the timer and by
\* the users, to the end.
CONSTANTS
  Policies = {"console", "file"}
  AddLate = FALSE
  MaxMsg = 4
SPECIFICATION FairSpec
INVARIANTS TypeOK EachPolicyInOrder PoliciesOutliveUse
PROPERTIES UsesConsole LoggedIsPrinted DestructorsReturn
CHECK_DEADLOCK FALSE
