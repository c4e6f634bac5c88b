SPECIFICATION SessionSpec
CONSTANTS
  patch = patch
  undo = undo
  patched = patched
  Initial = Initial
  Tools <- MCTools
  Writes <- MCTools
  Contents <- MCContents
  Leads <- MCLeads
  Accepted <- MCAccepted
  Allowed <- MCTools
  Setups <- MCSetups
  MaxBatch = 1
  MaxSteps = 2
  MaxAttempts = 2
  MaxModelCalls = 2
  MaxToolCalls = 2
  MaxAsks = 3
  MaxCrashes = 2
INVARIANTS
  SessionTypeOK
  AlteredTwiceOnlyAstray
  ReuseGrounded
  Recoverable
CHECK_DEADLOCK FALSE
