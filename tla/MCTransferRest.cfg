SPECIFICATION FairSpec
CONSTANTS
  Sessions = {s1}
  Names = {a}
  Inodes = {i1}
  Devices = {}
  None = None
  Hole = Hole
  Data = {x}
  RestArgs <- Args
  MaxLen = 2
  IntMod = 16
PROPERTY EveryDownloadEnds
CHECK_DEADLOCK FALSE
