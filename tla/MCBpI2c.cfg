\* Late bytes, NACKs and a line that may hang up at any point.
CONSTANTS
  Addresses = {127, 128}
  ReadLengths = {0, 1, 2}
  u1 = u1
  UserBuf <- MCUserBuf
  Data <- MCData
  Requests <- AllRequests
  StaleBytes <- MCStale
  DeviceByte <- MCDeviceByte
  NakChoices = {0, 1}
  DFLT_AUTOACK = 1
  MaxSession = 2
  NoOp = NoOp
SPECIFICATION Spec
INVARIANTS TypeOK AckPattern
PROPERTIES CutOnlyAtNack AnswersConsumed ImplementsBus
