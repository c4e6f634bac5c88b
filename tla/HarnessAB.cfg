CONSTANTS
  s = s
  t = t
  u = u
  v = v
  w = w
  Tasks <- FiveTasks
  categoryOf <- Category
  Plans <- ThreePlans
  MaxModelCalls = 2
  MaxToolCalls = 3
  MaxBatch = 3
SPECIFICATION Spec
SYMMETRY TaskSymmetry
INVARIANTS HarnessTypeOK SampleBalanced NoOutageCounted ConclusionSound
CHECK_DEADLOCK FALSE
