SPECIFICATION Spec
CONSTANTS
  Pids = {p1, p2}
  IPs = {i1, i2}
  MaxClients = 1
  MaxPerIp = 0
  Timeouts = FALSE
  UintMax = 15
  CountBound = 3
PROPERTY FullMeansFull
CHECK_DEADLOCK FALSE
