SPECIFICATION Spec
CONSTANTS
  LF = "LF"
  CR = "CR"
  SP = "SP"
  Letters = {"a", "A"}
  UpperOf <- Capital
  Handled <- Known
  Unimplemented <- NoHandler
  MaxLine = 6
  MaxField = 3
  MaxSent = 6
  Download = TRUE
  Limited = TRUE
  Portions = {1, 2, 4}
  Delays = {0, 1, 3}
  Setbacks = {1, 3}
  Floor = 1
  MaxMoved = 8
  MaxBehind = 8
  FileModes <- Modes
  StrKeys = {"addr"}
  BoolKeys = {"pasv"}
  UintKeys = {"umask", "port"}
  OtherKeys = {"other"}
  TrueValues <- Yes
  FalseValues <- No
  ConfValues <- Values
  Default <- Before
  UintMod = 64
  LongMax = 127
  MaxValue = 5
  MaxLines = 3
INVARIANT StreamCut
INVARIANT CommandIsLine
INVARIANT RateKept
INVARIANT ShowsAll
INVARIANT LastSettingWins
CHECK_DEADLOCK FALSE
