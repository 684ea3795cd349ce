SPECIFICATION FairSpec
CONSTANTS
  Sessions = {s1}
  IdleTimeout = TRUE
  ConnTimeout = TRUE
  AcceptTimeout = TRUE
  SockNameFails = FALSE
PROPERTY IdleSessionDropped
CHECK_DEADLOCK FALSE
