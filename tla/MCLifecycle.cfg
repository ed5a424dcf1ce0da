\* Up to three -d options, of five builds; an int has three bits.
CONSTANTS
  ttyA = ttyA
  ttyB = ttyB
  i2cdev = i2cdev
  File <- MCFile
  Options <- MCOptions
  Builds <- MCBuilds
  bp_dflt_config_SPI <- MCConfigSpi
  bp_dflt_config_I2C <- MCConfigI2c
  MAX_ADAPTERS = 2
  INT_RANGE = 8
  MaxOptions = 3
SPECIFICATION WorkbenchSpec
INVARIANTS TypeOK SlotsAgree NothingMissing ConfiguredAsAsked CallsServed CleanExit EarlyExitClean
