------------------------------ MODULE BpConfig ------------------------------
(***************************************************************************)
(* The configuration of a Bus Pirate as it goes over the line.  Each       *)
(* setting is a bit-field of a one-byte struct of buspirate/local.h with   *)
(* the command in its upper part, and bpspi_configure and bpi2c_configure  *)
(* write those bytes.  Where a compiler puts the first bit-field differs;  *)
(* _BIT_FIELDS_HTOL has to say it, and buspirate_init can test it.         *)
(***************************************************************************)
EXTENDS Integers

Bit == 0..1

\* struct config_SPI and config_I2C, autoAck left out: it stays in the driver.
config_SPI == [speed : 0..7, power_on : Bit, pullups : Bit, aux : Bit, cs_active : Bit,
               output_type : Bit, clk_pol_idle : Bit, output_clk_edge : Bit,
               input_sample_end : Bit]
config_I2C == [speed : 0..3, power_on : Bit, pullups : Bit, aux : Bit, cs_active : Bit]

SPICMD_CONFIG_PEREPHERIALS == 4
SPICMD_CONFIG_SPEED == 12
SPICMD_CONFIG_BUS == 8
I2CCMD_CONFIG_PEREPHERIALS == 4
I2CCMD_CONFIG_SPEED == 24

\* A build: the macro, what the compiler does, the width of a pointer, whether
\* the test is built in, which adapters are supported at all (ADAPTER_BUSPIRATE,
\* ADAPTER_LXI) and which of them has a driver for which role.
BusRole == {"SPI", "I2C"}
Driven == {"bp", "lxi"}
Build == {b \in [BIT_FIELDS_HTOL : BOOLEAN, high_first : BOOLEAN, pointer : {4, 8},
                 ENABLE_BITFIELD_TEST : BOOLEAN, support : SUBSET Driven,
                 drivers : SUBSET (Driven \X BusRole)] :
            b.drivers \subseteq b.support \X BusRole}

InOrder(build) == build.BIT_FIELDS_HTOL = build.high_first
-----------------------------------------------------------------------------
(* The structs: the command on top, or all fields the other way round. *)

Pereph(build, cmd, c) ==
  IF InOrder(build)
    THEN 16 * cmd + 8 * c.power_on + 4 * c.pullups + 2 * c.aux + c.cs_active
    ELSE cmd + 16 * c.power_on + 32 * c.pullups + 64 * c.aux + 128 * c.cs_active

confspi_pereph(build, c) == Pereph(build, SPICMD_CONFIG_PEREPHERIALS, c)
confi2c_pereph(build, c) == Pereph(build, I2CCMD_CONFIG_PEREPHERIALS, c)

\* Mutant: the speed is taken for a field of two bits.
confspi_speed_short(build, c) == 8 * SPICMD_CONFIG_SPEED + (c.speed % 4)

confspi_speed(build, c) ==
  IF InOrder(build) THEN 8 * SPICMD_CONFIG_SPEED + c.speed
                    ELSE SPICMD_CONFIG_SPEED + 32 * c.speed
confi2c_speed(build, c) ==
  IF InOrder(build) THEN 4 * I2CCMD_CONFIG_SPEED + c.speed
                    ELSE I2CCMD_CONFIG_SPEED + 64 * c.speed
confspi_bus(build, c) ==
  IF InOrder(build)
    THEN 16 * SPICMD_CONFIG_BUS + 8 * c.output_type + 4 * c.clk_pol_idle
         + 2 * c.output_clk_edge + c.input_sample_end
    ELSE SPICMD_CONFIG_BUS + 16 * c.output_type + 32 * c.clk_pol_idle
         + 64 * c.output_clk_edge + 128 * c.input_sample_end

\* What bpspi_configure and bpi2c_configure write.
bpspi_configure(build, c) ==
  <<confspi_speed(build, c), confspi_bus(build, c), confspi_pereph(build, c)>>
bpi2c_configure(build, c) == <<confi2c_speed(build, c), confi2c_pereph(build, c)>>

\* The assertions of buspirate_init on the raw value of a struct of each kind.
TestSpi == [speed |-> 3, power_on |-> 1, pullups |-> 1, aux |-> 0, cs_active |-> 0,
            output_type |-> 1, clk_pol_idle |-> 0, output_clk_edge |-> 1,
            input_sample_end |-> 0]
TestI2c == [speed |-> 2, power_on |-> 0, pullups |-> 1, aux |-> 1, cs_active |-> 0]

buspirate_init(build) ==
  build.ENABLE_BITFIELD_TEST =>
    /\ <<"bp", "SPI">> \in build.drivers => bpspi_configure(build, TestSpi) = <<99, 138, 76>>
    /\ <<"bp", "I2C">> \in build.drivers => bpi2c_configure(build, TestI2c) = <<98, 70>>
-----------------------------------------------------------------------------
(* The adapter (external): it takes the command from the upper bits and the *)
(* settings from the others, and a byte of another form for another command.*)

Unset == -1
Unconfigured ==
  [s \in {"speed", "power_on", "pullups", "aux", "cs_active", "output_type",
          "clk_pol_idle", "output_clk_edge", "input_sample_end"} |-> Unset]

BitOf(byte, n) == (byte \div n) % 2

WithPereph(c, byte) ==
  [c EXCEPT !.power_on = BitOf(byte, 8), !.pullups = BitOf(byte, 4),
            !.aux = BitOf(byte, 2), !.cs_active = BitOf(byte, 1)]

TakenSpi(c, byte) ==
  IF byte \div 8 = 12 THEN [c EXCEPT !.speed = byte % 8]
  ELSE IF byte \div 16 = 4 THEN WithPereph(c, byte)
  ELSE IF byte \div 16 = 8
    THEN [c EXCEPT !.output_type = BitOf(byte, 8), !.clk_pol_idle = BitOf(byte, 4),
                   !.output_clk_edge = BitOf(byte, 2), !.input_sample_end = BitOf(byte, 1)]
  ELSE c

TakenI2c(c, byte) ==
  IF byte \div 4 = 24 THEN [c EXCEPT !.speed = byte % 4]
  ELSE IF byte \div 16 = 4 THEN WithPereph(c, byte) ELSE c

\* An adapter newly in its mode, after the bytes of its configuration.
ConfiguredSpi(bytes) == TakenSpi(TakenSpi(TakenSpi(Unconfigured, bytes[1]), bytes[2]), bytes[3])
ConfiguredI2c(bytes) == TakenI2c(TakenI2c(Unconfigured, bytes[1]), bytes[2])

\* The settings a driver asked for are the adapter's.
Agrees(c, asked) == \A s \in DOMAIN asked : c[s] = asked[s]
=============================================================================
