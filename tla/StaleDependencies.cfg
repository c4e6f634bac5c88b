SPECIFICATION Spec
CONSTANTS
  None = None
  Ended = Ended
  Provider = provider
  Undecided = undecided
  policy = policy
  fake = fake
  minimal = minimal
  Cases = {c1, c2}
  Runs = {r1}
  Proposers = {agent}
  Replays = {v1}
  Signatures = {bugfix}
  Contents = {clean, changed}
  Overrides <- MCOverrides
  Variables <- MCVariables
  Values <- MCValues
INVARIANTS
  ChangedOnlyIfChanged
CHECK_DEADLOCK FALSE
