SPECIFICATION Spec
CONSTANTS
  Workers = {w1, w2}
  Requests = {r1, r2, r3}
  ip1 = ip1
  login = login
  api = api
  Profiles <- LimitProfiles
  IPs = {ip1}
  Endpoints = {login, api}
  General = General
  RateLimiting = TRUE
  MaxPerWindow = 2
  Burst = 0
  WindowMs = 1
  EndpointLimit <- NestedLimits
  BlocklistOn = FALSE
  DatabaseOpens = {FALSE}
  AutoBlockTime = 2
  Never = Never
  NoOne = NoOne
  NoJob = NoJob
  DatabaseMayFail = FALSE
  AutoUnblock = TRUE
  LogBlocked = FALSE
  AdminActs = FALSE
  MaxTime = 2
  MaxRestarts = 1
CHECK_DEADLOCK FALSE
SYMMETRY Interchangeable
INVARIANTS PassesWithinLimit EndpointPassesWithinLimit
