CONSTANTS
  R = R
  C = C
  E = E
  D = D
  Resources = {R, C, E, D}
  Phases <- MCPhases
  Owners <- MCOwners
  Finalized = {R, E}
  Recreatable = {R, E}
  Withdrawn = {R}
  Counted = {D}
  LastUid = 2
  MaxFaults = 0
  MaxStarts = 2
SPECIFICATION Spec
CHECK_DEADLOCK FALSE
INVARIANT FailedHadNoEffect
