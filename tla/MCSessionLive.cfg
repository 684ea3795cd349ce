SPECIFICATION FairSpec
CONSTANTS
  Sessions = {s1}
  IdleTimeout = TRUE
  ConnTimeout = FALSE
  AcceptTimeout = FALSE
  SockNameFails = FALSE
PROPERTY HandshakeEnds
PROPERTY PortFreed
CHECK_DEADLOCK FALSE
