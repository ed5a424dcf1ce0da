---------------------------- MODULE MCLifecycle -----------------------------
(* A small instance of Workbench: options of every fate, builds of every kind. *)
EXTENDS Workbench

CONSTANTS ttyA, ttyB, i2cdev

MCFile == {ttyA, ttyB, i2cdev}
Of(adapter, role, index, clock, file) ==
  [adapter |-> adapter, role |-> role, index |-> index, clock |-> clock, file |-> file]

MCOptions == {
  Of("bp", "SPI", 1, "master", ttyA), Of("bp", "I2C", 1, "master", ttyA),
  Of("bp", "I2C", 9, "slave", ttyB), Of("bp", "SPI", 3, "master", ttyB),
  Of("lxi", "I2C", 1, "master", i2cdev), Of("lxi", "SPI", 2, "master", i2cdev),
  Of("lxi", "I2C", 0, "other", i2cdev), Of("bp", "CAN", 1, "master", ttyA),
  Of("pp", "SPI", 1, "master", ttyB), Of("other", "other", 2, "other", i2cdev)}

\* Builds: the usual one, one with its bit-fields the wrong way round and found
\* out, one that is not, one for short pointers without SPI for i2c-dev, and
\* one without i2c-dev.
AllDrivers == Driven \X BusRole
MCBuild(agree, tested, pointer, support, drivers) ==
  [BIT_FIELDS_HTOL |-> agree, high_first |-> TRUE, pointer |-> pointer,
   ENABLE_BITFIELD_TEST |-> tested, support |-> support, drivers |-> drivers]
MCBuilds == {
  MCBuild(TRUE, FALSE, 8, Driven, AllDrivers), MCBuild(FALSE, TRUE, 8, Driven, AllDrivers),
  MCBuild(FALSE, FALSE, 8, Driven, AllDrivers),
  MCBuild(TRUE, TRUE, 4, Driven, AllDrivers \ {<<"lxi", "SPI">>}),
  MCBuild(TRUE, TRUE, 8, {"bp"}, {"bp"} \X BusRole)}

MCConfigSpi == [speed |-> 7, power_on |-> 1, pullups |-> 0, aux |-> 1, cs_active |-> 0,
                output_type |-> 1, clk_pol_idle |-> 0, output_clk_edge |-> 0, input_sample_end |-> 1]
MCConfigI2c == [speed |-> 1, power_on |-> 1, pullups |-> 1, aux |-> 0, cs_active |-> 0]
=============================================================================
