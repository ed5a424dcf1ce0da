----------------------------- MODULE Workbench ------------------------------
(***************************************************************************)
(* Lifecycle with the workbench at work: it calls the STM32 API and ehwe.c *)
(* on any slot, whatever became of the options, and the driver found there *)
(* is one of Drivers.  A call that returns leaves the registry as it was;  *)
(* its effect on a device is in BpSpi, BpI2c and LxiI2c.                   *)
(***************************************************************************)
EXTENDS Lifecycle, Drivers

\* What is behind SPI1, I2C1 and so on.
DriverAt(s) ==
  IF slot[s] = NoDriver THEN DriverOf("none", s[1])
                        ELSE DriverOf(adapters[slot[s]].adapter, adapters[slot[s]].role)

\* How each call on a slot ends.
CallOutcome(s, f) ==
  CASE f \in DOMAIN spi_api  -> Outcome(DriverAt(s), spi_api[f])
    [] f \in DOMAIN i2c_api  -> Outcome(DriverAt(s), i2c_api[f])
    [] f \in DOMAIN ehwe_api -> EhweOutcome(DriverAt(s), build.pointer, ehwe_api[f])

Calls(s) == IF s[1] = "SPI" THEN DOMAIN spi_api ELSE DOMAIN i2c_api \cup DOMAIN ehwe_api
Settings(s) == IF s[1] = "SPI" THEN configAPI_spi ELSE configAPI_i2c

CallReturns ==
  /\ pc = "work" /\ \E s \in Slots : \E f \in Calls(s) : CallOutcome(s, f) = "returns"
  /\ UNCHANGED vars

CallAborts ==
  /\ pc = "work" /\ \E s \in Slots : \E f \in Calls(s) : CallOutcome(s, f) = "aborts"
  /\ Abort /\ UNCHANGED <<input, adapters, driver, slot, bpVars>>

CallCrashes ==
  /\ pc = "work" /\ \E s \in Slots : \E f \in Calls(s) : CallOutcome(s, f) = "crashes"
  /\ Exit("crashed") /\ UNCHANGED <<input, adapters, driver, slot, bpVars>>

\* The functions of the configuration have no wrapper; a program calls them in
\* the driver's table, where some are missing.
SettingCalled ==
  /\ pc = "work" /\ \E s \in Slots : \E c \in Settings(s) : Setting(DriverAt(s), c) = "crash"
  /\ Exit("crashed") /\ UNCHANGED <<input, adapters, driver, slot, bpVars>>

WorkbenchNext == Next \/ CallReturns \/ CallAborts \/ CallCrashes \/ SettingCalled
WorkbenchSpec == Init /\ [][WorkbenchNext]_vars
-----------------------------------------------------------------------------
(* Properties *)

SpiSlots == {s \in Slots : s[1] = "SPI"}
I2cSlots == Slots \ SpiSlots
Wip(s) == DriverAt(s) = lxispi_driver

\* While the workbench runs the API can be used: an SPI call returns on every
\* slot, given or not, unless i2c-dev was asked for SPI, and a loop that waits
\* while TXE or RXNE is RESET, or while BSY is SET, ends; an I2C call of the
\* STM32 library always returns; i2c_write and i2c_read find their driver and
\* all the methods they call on every I2C slot that was given, but for i2c-dev
\* where pointers are short.
CallsServed ==
  pc = "work" =>
    /\ \A s \in SpiSlots : Wip(s) \/
         /\ \A f \in DOMAIN spi_api : CallOutcome(s, f) = "returns"
         /\ \A flag \in {SPI_I2S_FLAG_TXE, SPI_I2S_FLAG_RXNE} :
              SPI_I2S_GetFlagStatus(DriverAt(s), flag) # RESET
         /\ SPI_I2S_GetFlagStatus(DriverAt(s), SPI_I2S_FLAG_BSY) # SET
    /\ \A s \in I2cSlots : \A f \in DOMAIN i2c_api : CallOutcome(s, f) = "returns"
    /\ \A s \in I2cSlots : \A f \in DOMAIN ehwe_api :
         slot[s] # NoDriver /\ (build.pointer = 8 \/ DriverAt(s) = bpi2c_driver)
           => CallOutcome(s, f) = "returns"
=============================================================================
