\* A clean line, and arrays of two bytes: a read may be short.
CONSTANTS
  ReadLengths = {2}
  Stale = {}
  Requests <- Calls
  DeviceByte = {1, 2}
  StaleBytes <- MCStale
  SizeLimit = 3
  U16 = 5
  MaxLine = 1
  NoOp = NoOp
SPECIFICATION Spec
PROPERTIES ReceivesAll
