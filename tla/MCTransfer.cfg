SPECIFICATION Spec
CONSTANTS
  Sessions = {s1, s2}
  Names = {a, b}
  Inodes = {i1, i2}
  Devices = {d1}
  None = None
  Hole = Hole
  Data = {x}
  RestArgs <- Args
  MaxLen = 4
  IntMod = 3
SYMMETRY Symmetry
INVARIANT TypeOK
INVARIANT NoLockLeft
INVARIANT WriterAlone
INVARIANT CompleteIsWhole
INVARIANT RemainingExact
PROPERTY ImplementsStore
CHECK_DEADLOCK FALSE
