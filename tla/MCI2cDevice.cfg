\* Two handles, two devices, an address without one and one that is not 7 bits wide.
CONSTANTS
  Handle = {h1, h2}
  Addresses = {1, 2, 128}
  Attached = {1, 2}
  Registers = {0, 1}
  Values = {256}
  Widths = {2}
  Counts = {0, 2}
  Local = Local
  NoOperation = NoOperation
  Closed = Closed
  MaxBytes = 2
  UserBuf <- MCUserBuf
  Data <- MCData
  Requests <- MCRequests
  U16 = 65536
  Block = {p1}
  NULL = NULL
  Freed = Freed
  NoOp = NoOp
SPECIFICATION DeviceSpec
INVARIANTS OnlyBadAddressRejected NoSessionLeft
PROPERTIES ImplementsFile
