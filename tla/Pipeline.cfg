SPECIFICATION Spec
CONSTANTS
  Workers = {w1, w2}
  Requests = {r1, r2}
  ip1 = ip1
  login = login
  api = api
  Profiles <- AllProfiles
  IPs = {ip1}
  Endpoints = {login}
  General = General
  RateLimiting = TRUE
  MaxPerWindow = 1
  Burst = 0
  WindowMs = 0
  EndpointLimit <- LoginLimit
  BlocklistOn = TRUE
  DatabaseOpens = {TRUE, FALSE}
  AutoBlockTime = 1
  Never = Never
  NoOne = NoOne
  NoJob = NoJob
  DatabaseMayFail = TRUE
  AutoUnblock = TRUE
  LogBlocked = TRUE
  AdminActs = TRUE
  MaxTime = 1
  MaxRestarts = 1
CHECK_DEADLOCK FALSE
SYMMETRY Interchangeable
INVARIANTS TypeOK RequestsConserved AuditExact ListedNeverPasses
