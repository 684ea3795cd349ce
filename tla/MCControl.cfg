SPECIFICATION Spec
CONSTANTS
  Sessions = {s1, s2}
  Users = {}
  Names = {a, b}
  Dirs = {d1, d2}
  Files = {f1}
  Top = Top
  Root = Root
  LongNames = {b}
  None = None
SYMMETRY Symmetry
INVARIANT TypeOK
INVARIANT OneAnswer
PROPERTY FailsByOthers
CHECK_DEADLOCK FALSE
