CONSTANTS
  a = a
  b = b
  backslash_a = backslash_a
  parent = parent
  Outside = Outside
  Absent = Absent
  Unknown = Unknown
  Redacted = Redacted
  Garbled = Garbled
  Files <- TwoFiles
  Spellings <- Paths
  Plain <- PlainPaths
  Canon <- Resolution
  v = v
  secret = secret
  Contents = {v, secret}
  Secrets = {secret}
  MaxRecent = 1
  Setups <- FiveSetups
  Workspaces <- OneWorkspace
  MaxCalls = 2
  Modes <- ReplayModes
  Usual <- UsualMode
  MaxDamages = 2
  MaxEdits = 1
SPECIFICATION Spec
INVARIANTS EvidenceTypeOK RunAccounted MemoryFresh ArtifactsCurrent BundleJudged ForkFaithful
CHECK_DEADLOCK FALSE
