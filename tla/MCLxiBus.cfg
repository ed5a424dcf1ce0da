\* The driver implements I2CBus when every held write carries a byte.
CONSTANTS
  Addresses = {0, 127}
  ReadLengths = {1, 3}
  u1 = u1
  u2 = u2
  UserBuf <- MCUserBuf
  Data <- MCData
  Requests <- HoldsWithData
  U16 = 65536
  Block = {p1, p2}
  NULL = NULL
  Freed = Freed
  NoOp = NoOp
SPECIFICATION Spec
PROPERTY ImplementsBus
