SPECIFICATION SessionSpec
CONSTANTS
  patch = patch
  undo = undo
  patched = patched
  Initial = Initial
  Tools <- MCTools
  Writes <- MCTools
  Contents <- MCContents
  Leads <- MCLeads
  Accepted <- MCAccepted
  Allowed <- MCTools
  Setups <- MCSetups
  MaxBatch = 2
  MaxSteps = 2
  MaxAttempts = 2
  MaxModelCalls = 2
  MaxToolCalls = 2
  MaxAsks = 2
  MaxCrashes = 1
INVARIANTS
  BatchAnswered
CHECK_DEADLOCK FALSE
