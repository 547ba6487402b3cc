SPECIFICATION HSpec
CONSTANTS
  IPs = {ip1, ip2}
  Endpoints = {ep1}
  Calls = {c1, c2, c3}
  MaxPerWindow = 1
  Burst = 0
  WindowMs = 1
  Durations = {1, 2}
  Never = Never
  MaxTime = 3
  MaxStepBack = 0
PROPERTIES ImplementsIdeal
