\* Reads of one byte and of several, some short, of negative sizes, late bytes,
\* hang-ups.
CONSTANTS
  ReadLengths = {2, 3}
  Stale = {0, 1}
  Requests <- Calls
  DeviceByte = {1, 2}
  StaleBytes <- MCStale
  SizeLimit = 3
  U16 = 5
  MaxLine = 1
  NoOp = NoOp
SPECIFICATION Spec
INVARIANTS TypeOK InStep FailsJustly
PROPERTIES AnswersOwnCall CallEnds
