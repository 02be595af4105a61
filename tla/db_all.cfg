\* Two connections used through Model and one of a wrapper.
CONSTANTS
  Models = {m1, m2}
  Wrappers = {w1}
  MaxRows = 2
  MaxCalls = 4
SPECIFICATION Spec
INVARIANTS TypeOK AnswersHold NothingLeftOpen
PROPERTIES QueryIsSnapshot
CHECK_DEADLOCK FALSE
