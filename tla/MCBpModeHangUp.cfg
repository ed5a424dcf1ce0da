\* A hang-up while the host waits for an answer.
CONSTANTS
  Roles = {"SPI"}
  NZEROS_RAW = 1
  SHORT_TRIES = 1
  RAW_TRIES = 2
  STATE_RETRIES = 1
SPECIFICATION Spec
PROPERTIES EndsOnDeadLine
