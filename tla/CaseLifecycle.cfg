SPECIFICATION Spec
CONSTANTS
  None = None
  Ended = Ended
  Provider = provider
  Undecided = undecided
  policy = policy
  fake = fake
  minimal = minimal
  Cases = {c1, c2, c3}
  Runs = {r1}
  Proposers = {agent}
  Replays = {v1}
  Signatures = {bugfix}
  Contents = {clean}
  Overrides <- MCOverrides
  Variables <- MCVariables
  Values <- MCValues
SYMMETRY IdSymmetry
INVARIANTS
  CasesTypeOK
  VerifiedOnEvidence
  NoDuplicateVerified
  ConflictOnlyBySuperseding
  SupersededForEvidence
PROPERTIES
  ImplementsCaseReview
CHECK_DEADLOCK FALSE
