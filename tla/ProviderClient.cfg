SPECIFICATION Spec
CONSTANTS
  None = None
  Threads = {t1, t2}
  Requests = {q1, q2}
  MaxConcurrency = 1
  MaxRetries = 2
  Transient <- MCTransient
  Fatal <- MCFatal
INVARIANTS
  ClientTypeOK
  PermitsBalance
  RetriesUsedUp
  ResponseCorrelated
PROPERTIES
  PermitsReturn
