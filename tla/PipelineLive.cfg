SPECIFICATION FairSpec
CONSTANTS
  Workers = {w1, w2}
  Requests = {r1, r2}
  ip1 = ip1
  login = login
  api = api
  Profiles <- AllProfiles
  IPs = {ip1}
  Endpoints = {login}
  General = General
  RateLimiting = TRUE
  MaxPerWindow = 1
  Burst = 0
  WindowMs = 0
  EndpointLimit <- LoginLimit
  BlocklistOn = TRUE
  DatabaseOpens = {TRUE}
  AutoBlockTime = 1
  Never = Never
  NoOne = NoOne
  NoJob = NoJob
  DatabaseMayFail = FALSE
  AutoUnblock = TRUE
  LogBlocked = FALSE
  AdminActs = TRUE
  MaxTime = 1
  MaxRestarts = 0
CHECK_DEADLOCK TRUE

PROPERTIES EveryRequestAnswered
