\* Every sequence of i2c_write/i2c_read calls, empty writes, a NULL buffer, a bad address and
\* lengths beyond those of a message included: U16 is small, so that such transfers are short.
CONSTANTS
  Addresses = {0, 127, 128}
  ReadLengths = {0, 1, 3}
  u1 = u1
  u2 = u2
  UserBuf <- MCUserBuf
  Data <- MCData
  Requests <- AllRequests
  U16 = 2
  Block = {p1, p2}
  NULL = NULL
  Freed = Freed
  NoOp = NoOp
SPECIFICATION FairSpec
INVARIANTS TypeOK HeapOwned KernelMemory IInv
PROPERTIES RejectsOnlyUnsupported CompletesOnlySupported CallEnds
