SPECIFICATION Spec
CHECK_DEADLOCK FALSE
CONSTANTS
  Keys = {1, 2, 3}
  Values = {v1, v2}
  NoValue = NoValue
  Node = {n1, n2, n3}
  NULL = NULL
  Buckets = 2
  FreeInterrupts = TRUE
INVARIANT TypeOK
INVARIANT ListsSound
INVARIANT NoFreedUse
PROPERTY ImplementsMap
