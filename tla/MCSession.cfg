SPECIFICATION Spec
CONSTANTS
  Sessions = {s1, s2}
  IdleTimeout = TRUE
  ConnTimeout = TRUE
  AcceptTimeout = TRUE
  SockNameFails = TRUE
SYMMETRY Symmetry
INVARIANT TypeOK
INVARIANT FramesMatch
INVARIANT Quiescent
INVARIANT NoHalfSession
INVARIANT DataFdReleased
INVARIANT FileNotTimedOut
CHECK_DEADLOCK FALSE
