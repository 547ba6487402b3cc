SPECIFICATION HSpec
CONSTANTS
  IPs = {ip1}
  Endpoints = {ep1}
  Calls = {c1, c2, c3, c4}
  MaxPerWindow = 1
  Burst = 1
  WindowMs = 1
  Durations = {1}
  Never = Never
  MaxTime = 3
  MaxStepBack = 1
SYMMETRY CallSymmetry
INVARIANTS HTypeOK SlidingWindowBound BlockLeavesNoTrace AdmittedStillCounted BlockServed
PROPERTIES CleanupTransparent
