CONSTANTS
  Processes = {p1, p2}
  Origin = origin
  NoOwner = none
  RetainLatest = 1
  MaxSteps = 1
  MaxDeaths = 1
  Collectors = {c1, c2}
SPECIFICATION Spec
INVARIANTS SharedTypeOK LockMeansLoading  KeepsLatest NeverStuck
PROPERTIES InProgressKept
CHECK_DEADLOCK FALSE
SYMMETRY Symmetry
