\* A write with no byte after the address, ended by STOP.
CONSTANTS
  Addresses = {0, 127, 128}
  ReadLengths = {0, 1, 3}
  u1 = u1
  u2 = u2
  UserBuf <- MCUserBuf
  Data <- MCData
  Requests <- AllRequests
  U16 = 65536
  Block = {p1, p2}
  NULL = NULL
  Freed = Freed
  NoOp = NoOp
SPECIFICATION Spec
PROPERTY EmptyWriteAccepted
