CONSTANTS
  a = a
  b = b
  backslash_a = backslash_a
  parent = parent
  v = v
  secret = secret
  Outside = Outside
  Absent = Absent
  Unknown = Unknown
  Redacted = Redacted
  Garbled = Garbled
  Files <- TwoFiles
  Spellings <- Paths
  Plain <- PlainPaths
  Canon <- Resolution
  Contents = {v, secret}
  Secrets = {secret}
  MaxRecent = 1
  Setups <- OneSetup
  Workspaces <- OneWorkspace
  MaxCalls = 0
  Modes <- ReplayModes
  Usual <- UsualMode
  MaxDamages = 0
  MaxEdits = 0
SPECIFICATION Spec
INVARIANTS ExtraDifferencesConfounded
CHECK_DEADLOCK FALSE
