CONSTANTS
  R = R
  C = C
  E = E
  D = D
  Resources = {R, C, E, D}
  Phases <- MCPhases
  Owners <- MCOwners
  Finalized = {R, E}
  Recreatable = {R, E}
  Withdrawn = {R}
  Counted = {D}
  LastUid = 2
  MaxFaults = 1
  MaxStarts = 2
SPECIFICATION Spec
CHECK_DEADLOCK FALSE
INVARIANTS TypeOK TouchedIsAuthorized CompletedIsGone
PROPERTIES PausedIsDurable StripIsSafe SettledAfterPause ImplementsContract RunEnds
