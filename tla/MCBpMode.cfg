\* Both roles, any mode left behind, late answers, a line that may hang up.
CONSTANTS
  Roles = {"SPI", "I2C"}
  NZEROS_RAW = 3
  SHORT_TRIES = 2
  RAW_TRIES = 3
  STATE_RETRIES = 3
SPECIFICATION Spec
INVARIANTS TypeOK ModeAgreement InSync TimelySucceeds
PROPERTIES Ends
