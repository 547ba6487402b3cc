SPECIFICATION FairSpec
CONSTANTS
  Workers = {w1, w2}
  Requests = {r1, r2}
  ip1 = ip1
  login = login
  api = api
  Profiles <- ListProfiles
  IPs = {ip1}
  Endpoints = {login}
  General = General
  RateLimiting = TRUE
  MaxPerWindow = 1
  Burst = 0
  WindowMs = 1
  EndpointLimit <- LoginLimit
  BlocklistOn = TRUE
  DatabaseOpens = {TRUE}
  AutoBlockTime = 2
  Never = Never
  NoOne = NoOne
  NoJob = NoJob
  DatabaseMayFail = FALSE
  AutoUnblock = TRUE
  LogBlocked = TRUE
  AdminActs = FALSE
  MaxTime = 2
  MaxRestarts = 0
CHECK_DEADLOCK FALSE

PROPERTIES EveryRequestAnswered
