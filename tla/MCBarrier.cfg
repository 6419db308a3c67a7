SPECIFICATION Spec
CONSTANTS
  r1 = r1
  Resources = {r1}
  Recreatable = {r1}
CHECK_DEADLOCK FALSE
INVARIANT
  TypeOK
  AllGoneIsFresh
  RecreationHappened
PROPERTY
  CancelReturns
  WaitEnds
