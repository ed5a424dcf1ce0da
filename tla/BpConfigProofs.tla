--------------------------- MODULE BpConfigProofs ---------------------------
(***************************************************************************)
(* TLAPS proofs about BpConfig: with the bit-fields in order an adapter    *)
(* has the settings it was sent, whatever they are, and the self-test of   *)
(* buspirate_init passes only with the bit-fields in order.                *)
(***************************************************************************)
EXTENDS BpConfig, TLAPS

\* The byte of a command and four bits: the command and each bit come back.
LEMMA FourBits ==
  ASSUME NEW cmd \in 0..15, NEW a \in Bit, NEW b \in Bit, NEW c \in Bit, NEW d \in Bit,
         NEW byte, byte = 16 * cmd + 8 * a + 4 * b + 2 * c + d
  PROVE  /\ byte \div 16 = cmd
         /\ BitOf(byte, 8) = a /\ BitOf(byte, 4) = b /\ BitOf(byte, 2) = c /\ BitOf(byte, 1) = d
  <1> USE DEF Bit
  <1>1. byte \div 16 = cmd
    OBVIOUS
  <1>2. byte \div 8 = 2 * cmd + a /\ (2 * cmd + a) % 2 = a
    OBVIOUS
  <1>3. byte \div 4 = 4 * cmd + 2 * a + b /\ (4 * cmd + 2 * a + b) % 2 = b
    OBVIOUS
  <1>4. byte \div 2 = 8 * cmd + 4 * a + 2 * b + c /\ (8 * cmd + 4 * a + 2 * b + c) % 2 = c
    OBVIOUS
  <1>5. byte \div 1 = byte /\ byte % 2 = d
    OBVIOUS
  <1> QED
    BY <1>1, <1>2, <1>3, <1>4, <1>5 DEF BitOf

\* The bytes of a configuration in order, and what the adapter reads in them.
LEMMA PerephByte ==
  ASSUME NEW build, InOrder(build), NEW power_on \in Bit, NEW pullups \in Bit, NEW aux \in Bit,
         NEW cs_active \in Bit, NEW c,
         c.power_on = power_on, c.pullups = pullups, c.aux = aux, c.cs_active = cs_active
  PROVE  LET byte == Pereph(build, 4, c)
         IN  /\ byte \in 64..79 /\ byte \div 16 = 4
             /\ BitOf(byte, 8) = power_on /\ BitOf(byte, 4) = pullups
             /\ BitOf(byte, 2) = aux /\ BitOf(byte, 1) = cs_active
  <1> DEFINE byte == Pereph(build, 4, c)
  <1>1. byte = 16 * 4 + 8 * power_on + 4 * pullups + 2 * aux + cs_active
    BY DEF Pereph
  <1>2. byte \in 64..79
    BY <1>1 DEF Bit
  <1> QED
    BY <1>1, <1>2, FourBits

LEMMA BusByte ==
  ASSUME NEW build, InOrder(build), NEW output_type \in Bit, NEW clk_pol_idle \in Bit,
         NEW output_clk_edge \in Bit, NEW input_sample_end \in Bit, NEW c,
         c.output_type = output_type, c.clk_pol_idle = clk_pol_idle,
         c.output_clk_edge = output_clk_edge, c.input_sample_end = input_sample_end
  PROVE  LET byte == confspi_bus(build, c)
         IN  /\ byte \in 128..143 /\ byte \div 16 = 8
             /\ BitOf(byte, 8) = output_type /\ BitOf(byte, 4) = clk_pol_idle
             /\ BitOf(byte, 2) = output_clk_edge /\ BitOf(byte, 1) = input_sample_end
  <1> DEFINE byte == confspi_bus(build, c)
  <1>1. byte = 16 * 8 + 8 * output_type + 4 * clk_pol_idle + 2 * output_clk_edge + input_sample_end
    BY DEF confspi_bus, SPICMD_CONFIG_BUS
  <1>2. byte \in 128..143
    BY <1>1 DEF Bit
  <1> QED
    BY <1>1, <1>2, FourBits

\* The adapter has the settings of an SPI configuration, all nine of them.
THEOREM SpiArrives ==
  ASSUME NEW build \in Build, InOrder(build), NEW c \in config_SPI
  PROVE  Agrees(ConfiguredSpi(bpspi_configure(build, c)), c)
  <1> DEFINE s == confspi_speed(build, c)
             b == confspi_bus(build, c)
             p == confspi_pereph(build, c)
             c1 == TakenSpi(Unconfigured, s)
             c2 == TakenSpi(c1, b)
             c3 == TakenSpi(c2, p)
  <1>1. c.speed \in 0..7 /\ c.power_on \in Bit /\ c.pullups \in Bit /\ c.aux \in Bit
        /\ c.cs_active \in Bit /\ c.output_type \in Bit /\ c.clk_pol_idle \in Bit
        /\ c.output_clk_edge \in Bit /\ c.input_sample_end \in Bit
    BY DEF config_SPI
  <1>2. s = 96 + c.speed /\ s \div 8 = 12 /\ s % 8 = c.speed
    BY <1>1 DEF confspi_speed, SPICMD_CONFIG_SPEED
  <1>3. b \in 128..143 /\ b \div 16 = 8 /\ BitOf(b, 8) = c.output_type /\ BitOf(b, 4) = c.clk_pol_idle
        /\ BitOf(b, 2) = c.output_clk_edge /\ BitOf(b, 1) = c.input_sample_end
    BY <1>1, BusByte
  <1>4. p \in 64..79 /\ p \div 16 = 4 /\ BitOf(p, 8) = c.power_on /\ BitOf(p, 4) = c.pullups
        /\ BitOf(p, 2) = c.aux /\ BitOf(p, 1) = c.cs_active
    BY <1>1, PerephByte DEF confspi_pereph, SPICMD_CONFIG_PEREPHERIALS
  <1>5. b \div 8 # 12 /\ p \div 8 # 12
    BY <1>3, <1>4
  <1> HIDE DEF s, b, p
  <1>6. c1 = [Unconfigured EXCEPT !.speed = c.speed]
    BY <1>2 DEF TakenSpi
  <1>7. c2 = [c1 EXCEPT !.output_type = c.output_type, !.clk_pol_idle = c.clk_pol_idle,
                        !.output_clk_edge = c.output_clk_edge,
                        !.input_sample_end = c.input_sample_end]
    BY <1>3, <1>5 DEF TakenSpi
  <1>8. c3 = [c2 EXCEPT !.power_on = c.power_on, !.pullups = c.pullups, !.aux = c.aux,
                        !.cs_active = c.cs_active]
    BY <1>4, <1>5 DEF TakenSpi, WithPereph
  <1>9. Agrees(c3, c)
    <2> HIDE DEF c3
    <2> SUFFICES ASSUME NEW f \in DOMAIN c PROVE c3[f] = c[f]
      BY DEF Agrees
    <2> QED
      BY <1>6, <1>7, <1>8 DEF Unconfigured, config_SPI
  <1>10. ConfiguredSpi(bpspi_configure(build, c)) = c3
    BY DEF ConfiguredSpi, bpspi_configure, s, b, p
  <1> QED
    BY <1>9, <1>10

\* The adapter has the settings of an I2C configuration.
THEOREM I2cArrives ==
  ASSUME NEW build \in Build, InOrder(build), NEW c \in config_I2C
  PROVE  Agrees(ConfiguredI2c(bpi2c_configure(build, c)), c)
  <1> DEFINE s == confi2c_speed(build, c)
             p == confi2c_pereph(build, c)
             c1 == TakenI2c(Unconfigured, s)
             c2 == TakenI2c(c1, p)
  <1>1. c.speed \in 0..3 /\ c.power_on \in Bit /\ c.pullups \in Bit /\ c.aux \in Bit
        /\ c.cs_active \in Bit
    BY DEF config_I2C
  <1>2. s = 96 + c.speed /\ s \div 4 = 24 /\ s % 4 = c.speed
    BY <1>1 DEF confi2c_speed, I2CCMD_CONFIG_SPEED
  <1>3. p \in 64..79 /\ p \div 16 = 4 /\ BitOf(p, 8) = c.power_on /\ BitOf(p, 4) = c.pullups
        /\ BitOf(p, 2) = c.aux /\ BitOf(p, 1) = c.cs_active
    BY <1>1, PerephByte DEF confi2c_pereph, I2CCMD_CONFIG_PEREPHERIALS
  <1>4. p \div 4 # 24
    BY <1>3
  <1> HIDE DEF s, p
  <1>5. c1 = [Unconfigured EXCEPT !.speed = c.speed]
    BY <1>2 DEF TakenI2c
  <1>6. c2 = [c1 EXCEPT !.power_on = c.power_on, !.pullups = c.pullups, !.aux = c.aux,
                        !.cs_active = c.cs_active]
    BY <1>3, <1>4 DEF TakenI2c, WithPereph
  <1>7. Agrees(c2, c)
    <2> HIDE DEF c2
    <2> SUFFICES ASSUME NEW f \in DOMAIN c PROVE c2[f] = c[f]
      BY DEF Agrees
    <2> QED
      BY <1>5, <1>6 DEF Unconfigured, config_I2C
  <1>8. ConfiguredI2c(bpi2c_configure(build, c)) = c2
    BY DEF ConfiguredI2c, bpi2c_configure, s, p
  <1> QED
    BY <1>7, <1>8

\* A build whose self-test passes has its bit-fields in order, if it has a
\* driver for the Bus Pirate at all.
THEOREM TestFindsOrder ==
  ASSUME NEW build \in Build, build.ENABLE_BITFIELD_TEST, buspirate_init(build),
         NEW role \in BusRole, <<"bp", role>> \in build.drivers
  PROVE  InOrder(build)
  <1> SUFFICES ASSUME ~InOrder(build) PROVE FALSE
    OBVIOUS
  <1>1. CASE role = "SPI"
    <2>1. bpspi_configure(build, TestSpi) = <<99, 138, 76>>
      BY <1>1 DEF buspirate_init
    <2>2. bpspi_configure(build, TestSpi)[1] = 12 + 32 * 3
      BY DEF bpspi_configure, confspi_speed, TestSpi, SPICMD_CONFIG_SPEED
    <2> QED
      BY <2>1, <2>2
  <1>2. CASE role = "I2C"
    <2>1. bpi2c_configure(build, TestI2c) = <<98, 70>>
      BY <1>2 DEF buspirate_init
    <2>2. bpi2c_configure(build, TestI2c)[1] = 24 + 64 * 2
      BY DEF bpi2c_configure, confi2c_speed, TestI2c, I2CCMD_CONFIG_SPEED
    <2> QED
      BY <2>1, <2>2
  <1> QED
    BY <1>1, <1>2 DEF BusRole
=============================================================================
