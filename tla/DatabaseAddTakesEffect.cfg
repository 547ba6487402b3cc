SPECIFICATION Spec
CONSTANTS
  IPs = {ip1, ip2, junk}
  ValidIPs = {ip1, ip2}
  AutoBlockTime = 2
  Null = Null
  Requests = {r1}
  Scores = {0, 100}
  WritesMayFail = TRUE
  MaxTime = 5
  MaxRows = 1

PROPERTIES AddTakesEffect
