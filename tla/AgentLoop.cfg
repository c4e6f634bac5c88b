SPECIFICATION Spec
CONSTANTS
  spoil = spoil
  command = command
  right = right
  wrong = wrong
  Initial = Initial
  Tools <- MCTools
  Writes <- MCWrites
  Contents <- MCContents
  Leads <- MCLeads
  Accepted <- MCAccepted
  Allowed <- MCAllowed
  Setups <- MCSetups
  MaxBatch = 2
  MaxSteps = 4
  MaxAttempts = 3
  MaxModelCalls = 3
  MaxToolCalls = 3
INVARIANTS
  TypeOK
  BatchAnswered
  ToolBudget
  AppliedAtMostOnce
  RetriesBounded
  CompletionJustified
  ReportTruthful
PROPERTIES
  Terminates
  ImplementsTaskCompletion
CHECK_DEADLOCK FALSE
