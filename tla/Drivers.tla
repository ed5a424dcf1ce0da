------------------------------- MODULE Drivers ------------------------------
(***************************************************************************)
(* The drivers as the workbench meets them: the method tables of           *)
(* buspirate.c, lxi.c and stm32.c, whose empty entries are NULL, and what  *)
(* a call of the STM32 API or of ehwe.c through such a table comes to.     *)
(* What the methods do to a device is in BpSpi, BpI2c and LxiI2c.          *)
(***************************************************************************)
EXTENDS Integers, Sequences

\* driver.h: the methods of a driver, and the settings of its configuration.
driverAPI_any == {"actuate_config", "newddata", "getStatus"}
driverAPI_spi ==
  driverAPI_any \cup {"sendData", "receiveData", "sendrecieveData", "sendrecieveData_ncs", "setCS"}
driverAPI_i2c ==
  driverAPI_any \cup {"receiveByte", "sendByte", "sendData", "receiveData", "sendrecieveData",
                      "start", "stop", "autoAck"}
configAPI_i2c == {"speed", "power_on", "pullups", "aux_on", "cs_active"}
configAPI_spi ==
  configAPI_i2c \cup {"output_type", "clk_pol_idle", "output_clk_edge", "input_sample_end"}

\* A driver: the methods and the settings its table has functions for.
Driver(role, methods, settings) == [role |-> role, methods |-> methods, settings |-> settings]

\* The set and get functions of the Bus Pirate; i2c-dev's are in no table.
bpspi_config == configAPI_spi
bpi2c_config == configAPI_i2c

bpspi_driver == Driver("SPI", driverAPI_spi, bpspi_config)
bpi2c_driver == Driver("I2C", driverAPI_i2c, bpi2c_config)
lxispi_driver == Driver("SPI", {"sendrecieveData"}, {})

\* Mutant: the entry of stop is forgotten.
lxii2c_driver_unstoppable ==
  Driver("I2C", {"sendByte", "sendData", "receiveData", "start", "autoAck", "newddata"}, {})

lxii2c_driver ==
  Driver("I2C", {"sendByte", "sendData", "receiveData", "start", "stop", "autoAck", "newddata"}, {})

nodriverAPI_spi == Driver("SPI", driverAPI_spi \ {"actuate_config", "newddata"}, {})
nodriverAPI_i2c == Driver("I2C", driverAPI_i2c \ {"actuate_config", "newddata"}, {})

Stubs == {nodriverAPI_spi, nodriverAPI_i2c}

\* The driver of an adapter, or the stub of a slot without one.
DriverOf(adapter, role) ==
  CASE adapter = "bp"  -> IF role = "SPI" THEN bpspi_driver ELSE bpi2c_driver
    [] adapter = "lxi" -> IF role = "SPI" THEN lxispi_driver ELSE lxii2c_driver
    [] OTHER           -> IF role = "SPI" THEN nodriverAPI_spi ELSE nodriverAPI_i2c

\* Methods that are a failing assertion: not supported, or not yet written.
Unwritten ==
  {<<lxispi_driver, "sendrecieveData">>, <<lxii2c_driver, "autoAck">>,
   <<bpi2c_driver, "sendrecieveData">>}

\* Every set and get function a table has returns E_UNKNOWN and does nothing.
Setting(d, s) == IF s \in d.settings THEN "E_UNKNOWN" ELSE "crash"
-----------------------------------------------------------------------------
(* The calls of the API: the methods each makes, in order. *)

spi_api ==
  [SPI_I2S_SendData |-> <<"sendData">>,
   SPI_I2S_ReceiveData |-> <<"receiveData">>,
   SPI_I2S_GetFlagStatus |-> <<"getStatus">>,
   SPI_I2S_SendReceiveData |-> <<"sendrecieveData">>,
   SPI_I2S_SendReceiveData_ncs |-> <<"sendrecieveData_ncs">>,
   SPI_I2S_SendDataArray |-> <<"sendrecieveData">>,
   SPI_I2S_SendDataArray_ncs |-> <<"sendrecieveData_ncs">>,
   SPI_I2S_ReceiveDataArray |-> <<"sendrecieveData">>,
   SPI_I2S_ReceiveDataArray_ncs |-> <<"sendrecieveData_ncs">>,
   SPI_I2S_SetCS |-> <<"setCS">>,
   SPI_I2S_SendData_ncs |-> <<"sendrecieveData_ncs">>,
   SPI_I2S_ReceiveData_ncs |-> <<"sendrecieveData_ncs">>]

\* The I2C calls of the STM32 library do nothing.
i2c_api ==
  [f \in {"I2C_GenerateSTART", "I2C_GenerateSTOP", "I2C_AcknowledgeConfig",
          "I2C_Send7bitAddress", "I2C_SendData", "I2C_ReceiveData", "I2C_CheckEvent",
          "I2C_ClearFlag", "I2C_GetFlagStatus"} |-> <<>>]

ehwe_api ==
  [i2c_write |-> <<"start", "sendByte", "sendData", "stop">>,
   i2c_read |-> <<"start", "sendByte", "receiveData", "stop">>]

Works(d, method) == method \in d.methods /\ <<d, method>> \notin Unwritten

\* How a call of these methods ends, unless a device is in the way: the first
\* that does not work is a jump to NULL or a failing assertion.
Outcome(d, methods) ==
  LET failing == {n \in DOMAIN methods : ~Works(d, methods[n])}
      first == CHOOSE n \in failing : \A k \in failing : n <= k
  IN  IF failing = {} THEN "returns"
      ELSE IF methods[first] \in d.methods THEN "aborts" ELSE "crashes"

\* ehwe.c takes the driver from ddata, of which a stub has none, and has ddata
\* laid out as the Bus Pirate's: the i2c-dev one has the driver at the same
\* place only where a pointer is aligned to 8 bytes.
FindsDriver(d, pointer) == d \notin Stubs /\ (d = lxii2c_driver => pointer = 8)

EhweOutcome(d, pointer, methods) ==
  IF FindsDriver(d, pointer) THEN Outcome(d, methods) ELSE "crashes"
-----------------------------------------------------------------------------
(* Flags, which a program polls. *)

RESET == 0
SET == 1
SPI_I2S_FLAG_RXNE == 1
SPI_I2S_FLAG_TXE == 2
SPI_I2S_FLAG_BSY == 128

\* The answer of a driver is the flags it was asked for, the stub's is all ones.
bpspi_getStatus(flags) == flags
nod_getStatus == 65535

SPI_I2S_GetFlagStatus(d, flag) == IF d \in Stubs THEN nod_getStatus ELSE bpspi_getStatus(flag)
=============================================================================
