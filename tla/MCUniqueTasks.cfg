SPECIFICATION Spec
CONSTANTS
  k1 = k1
  Calls = {c1, c2, c3}
  Key <- OneKey
  NoKey = NoKey
  NoResult = NoResult
  Pruners = {p1}
  MaxRequeues = 1
CHECK_DEADLOCK FALSE
SYMMETRY CallSymmetry
INVARIANTS TypeOK OneActivePerKey AnswerWasActive GivesUpAfterTwoFinishes
PROPERTIES ActivePrunedOnlyIfRequeued ImplementsUniqueWork
