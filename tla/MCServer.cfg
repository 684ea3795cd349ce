SPECIFICATION FairSpec
CONSTANTS
  Pids = {p1, p2, p3}
  IPs = {i1, i2, i3}
  MaxClients = 2
  MaxPerIp = 1
  Timeouts = TRUE
  UintMax = 15
  CountBound = 3
INVARIANT TypeOK
INVARIANT NeverUndercounts
INVARIANT PerIpLimit
INVARIANT ClientLimit
INVARIANT CountFound
INVARIANT NoZombieForgotten
PROPERTY ZombiesReaped
CHECK_DEADLOCK FALSE
