SPECIFICATION Spec
CONSTANTS
  b1 = b1
  b2 = b2
  b3 = b3
  t1 = t1
  t2 = t2
  Blobs <- ThreeBlobs
  Tasks <- TwoTasks
  NoTask = NoTask
  TargetFrames = 2
  MaxPack = 4
  MaxCalls = 4
  MaxCrashes = 0
  MaxFaults = 0
SYMMETRY Interchangeable
CHECK_DEADLOCK FALSE
INVARIANTS GetFinds
