----------------------------- MODULE Lifecycle ------------------------------
(***************************************************************************)
(* From the -d options to the exit of the process: the constructors, main  *)
(* of src/main.c with adapters_parse, adapters_init_adapter and            *)
(* adapters_deinit_adapter of adapters.c, apis_init_api and stm32_init_api *)
(* of src/apis, and the parse, init and deinit functions of the Bus Pirate *)
(* and of the i2c-dev adapters.  Each adapter is parsed, then initialised  *)
(* and put into the slot of its role and index, from which the workbench   *)
(* (embedded_main) reaches its driver.  Bringing a Bus Pirate up or down   *)
(* is one step here; BpMode has it in detail.                              *)
(***************************************************************************)
EXTENDS BpConfig, Sequences

CONSTANTS
  Options,      \* the -d options a user may give
  Builds,       \* how the program may have been built, and for what
  bp_dflt_config_SPI, bp_dflt_config_I2C,  \* build-system defaults
  MAX_ADAPTERS, \* MAX_SPI_ADAPTERS and MAX_I2C_ADAPTERS
  INT_RANGE,    \* number of values of an int, 2^32
  File,         \* device files
  MaxOptions    \* bound: number of -d options

ROLES == BusRole \cup {"DSPI", "QSPI", "CAN"}
ADAPTERS == Driven \cup {"pp", "hif"}
DIRECTIONS == {"master", "slave"}

\* An option; "other" stands for a word that is none of these.
Option == [adapter : ADAPTERS \cup {"other"}, role : ROLES \cup {"other"},
           index : Nat, clock : DIRECTIONS \cup {"other"}, file : File]

ASSUME OptionAssumption ==
  /\ Options \subseteq Option
  /\ MAX_ADAPTERS \in Nat \ {0} /\ MaxOptions \in Nat

ASSUME BuildAssumption ==
  /\ Builds \subseteq Build
  /\ bp_dflt_config_SPI \in config_SPI /\ bp_dflt_config_I2C \in config_I2C
  /\ INT_RANGE \in Nat /\ INT_RANGE % 2 = 0 /\ INT_RANGE \div 2 > MAX_ADAPTERS + 1

VARIABLES
  build,        \* the build that runs
  options,      \* opts.adapter_strs
  pc,           \* "constructors", "parse", "init", "api", "work", "deinit" or "exit"
  i,            \* the element ITERATE is at
  adapters,     \* ehwe.adapters
  driver,       \* of each of them: "none", "live" or "freed"
  slot,         \* SPI_stm32_drv and I2C_stm32_drv; 0 is the no-driver stub
  mode,         \* of the Bus Pirate behind each file, whatever it was left in
  config,       \* the settings of that Bus Pirate
  status        \* "running", "exit 0", "exit 1", "aborted" or "crashed"

input == <<build, options>>
progress == <<pc, i, status>>
bpVars == <<mode, config>>
vars == <<input, progress, adapters, driver, slot, bpVars>>

NULL == -1
NoDriver == 0
AnyMode == BusRole \cup {"console", "BBIO"}
Slots == BusRole \X (1..MAX_ADAPTERS)
BpFile == {o.file : o \in {o \in Options : o.adapter = "bp"}}

Init ==
  /\ build \in Builds
  /\ options \in UNION {[1..n -> Options] : n \in 0..MaxOptions}
  /\ pc = "constructors" /\ i = 1 /\ status = "running"
  /\ adapters = <<>> /\ driver = <<>>
  /\ slot = [s \in Slots |-> NULL]
  /\ mode \in [BpFile -> AnyMode] /\ config = [f \in BpFile |-> Unconfigured]

\* ITERATE: to the next element, or past the loop.
NextElement(list, again, after) ==
  IF i < Len(list) THEN pc' = again /\ i' = i + 1 ELSE pc' = after /\ i' = 1
SkipEmpty(list, here, after) == list = <<>> /\ pc = here /\ pc' = after /\ i' = 1

Exit(code) == pc' = "exit" /\ status' = code /\ UNCHANGED i

\* A failed ASSERT or ASSURE ends the process where it stands.
Abort == Exit("aborted")
-----------------------------------------------------------------------------
(* The constructors: buspirate_init may find its bit-fields out of order;  *)
(* adapters_init, lxi_init and apis_init have their patterns compiled;     *)
(* stm32_init puts the stub into every slot.                               *)

Constructors ==
  /\ pc = "constructors"
  /\ IF buspirate_init(build)
       THEN pc' = "parse" /\ slot' = [s \in Slots |-> NoDriver] /\ UNCHANGED <<i, status>>
       ELSE Abort /\ UNCHANGED slot
  /\ UNCHANGED <<input, adapters, driver, bpVars>>
-----------------------------------------------------------------------------
(* The parsing of an option *)

\* atoi: a long, as wide as a pointer and at most LONG_MAX, cut to an int.
LONG_MAX ==
  (IF build.pointer = 8 THEN (INT_RANGE * INT_RANGE) \div 2 ELSE INT_RANGE \div 2) - 1
atoi(n) ==
  LET int == (IF n > LONG_MAX THEN LONG_MAX ELSE n) % INT_RANGE
  IN  IF int < INT_RANGE \div 2 THEN int ELSE int - INT_RANGE

\* Mutant: the role is left to the init function to check.
ParsesAnyRole(o) == o.clock \in DIRECTIONS

buspirate_parse(o) == o.role \in BusRole /\ o.clock \in DIRECTIONS
lxi_parse(o) == o.role \in BusRole /\ o.clock \in DIRECTIONS

\* adapters_parse hands the option to the parser of its adapter, if the build
\* supports that; pp and hif are in the pattern but in no build of this tree.
adapters_parse(o) ==
  /\ o.adapter \in ADAPTERS /\ o.role \in ROLES
  /\ o.adapter = "bp" /\ "bp" \in build.support => buspirate_parse(o)
  /\ o.adapter = "lxi" /\ "lxi" \in build.support => lxi_parse(o)

\* What it makes of the option: devid stays DEV_INVALID without a parser, and
\* nobody will look at the clock owner.
Adapter(o) == [adapter |-> IF o.adapter \in build.support THEN o.adapter ELSE "invalid",
               role |-> o.role, index |-> atoi(o.index), file |-> o.file]

Parse ==
  /\ pc = "parse" /\ options # <<>>
  /\ IF adapters_parse(options[i])
       THEN /\ adapters' = Append(adapters, Adapter(options[i]))
            /\ driver' = Append(driver, "none")
            /\ NextElement(options, "parse", "init")
            /\ UNCHANGED status
       ELSE Exit("exit 1") /\ UNCHANGED <<adapters, driver>>
  /\ UNCHANGED <<input, slot, bpVars>>

ParseNothing ==
  /\ SkipEmpty(options, "parse", "init")
  /\ UNCHANGED <<input, status, adapters, driver, slot, bpVars>>
-----------------------------------------------------------------------------
(* The initialisation of an adapter, and of the API for it *)

ThisAdapter == adapters[i]
HasDriver(a) == <<a.adapter, a.role>> \in build.drivers

\* rawMode_enter and rawMode_toMode, for the adapter that is a Bus Pirate.
SetMode(m) ==
  mode' = IF ThisAdapter.adapter = "bp" THEN [mode EXCEPT ![ThisAdapter.file] = m] ELSE mode

SetConfig(c) ==
  config' = IF ThisAdapter.adapter = "bp" THEN [config EXCEPT ![ThisAdapter.file] = c] ELSE config

\* A failure on the way leaves it in any mode, with settings nobody knows.
LeaveHalfway == (\E m \in AnyMode : SetMode(m)) /\ SetConfig(Unconfigured)

\* The default configuration goes over the line when the mode is entered.
DefaultConfig ==
  IF ThisAdapter.role = "SPI" THEN ConfiguredSpi(bpspi_configure(build, bp_dflt_config_SPI))
                              ELSE ConfiguredI2c(bpi2c_configure(build, bp_dflt_config_I2C))

\* buspirate_init_adapter or lxi_init_adapter: opened, configured, driver set.
InitDriver ==
  /\ pc = "init" /\ adapters # <<>> /\ HasDriver(ThisAdapter)
  /\ driver' = [driver EXCEPT ![i] = "live"]
  /\ SetMode(ThisAdapter.role) /\ SetConfig(DefaultConfig)
  /\ pc' = "api"
  /\ UNCHANGED <<input, i, status, adapters, slot>>

\* ... when the file cannot be opened or the adapter does not answer.
InitFails ==
  /\ pc = "init" /\ adapters # <<>> /\ HasDriver(ThisAdapter)
  /\ Abort /\ LeaveHalfway
  /\ UNCHANGED <<input, adapters, driver, slot>>

\* A role left out of a supported adapter is an error of its init function; an
\* invalid adapter is only logged by adapters_init_adapter, and stm32_init_api
\* aborts over it.
InitWithout ==
  /\ pc = "init" /\ adapters # <<>> /\ ~HasDriver(ThisAdapter)
  /\ IF ThisAdapter.adapter = "invalid" THEN pc' = "api" /\ UNCHANGED <<i, status>>
                                        ELSE Exit("exit 1")
  /\ UNCHANGED <<input, adapters, driver, slot, bpVars>>

InitNothing ==
  /\ SkipEmpty(adapters, "init", "work")
  /\ UNCHANGED <<input, status, adapters, driver, slot, bpVars>>

SlotOf(a) == <<a.role, a.index>>

\* Mutants: only the index is asserted; the first adapter keeps its slot.
AcceptedByIndex(a) == a.index \in 1..MAX_ADAPTERS
InitApiFirstWins ==
  /\ pc = "api"
  /\ IF AcceptedByIndex(ThisAdapter) /\ ThisAdapter.adapter \in Driven
       THEN /\ slot' = [slot EXCEPT ![SlotOf(ThisAdapter)] = IF @ = NoDriver THEN i ELSE @]
            /\ NextElement(adapters, "init", "work")
            /\ UNCHANGED status
       ELSE Abort /\ UNCHANGED slot
  /\ UNCHANGED <<input, adapters, driver, bpVars>>

\* stm32_init_api: the index and the adapter are asserted.
Accepted(a) == a.adapter \in Driven /\ a.index \in 1..MAX_ADAPTERS

InitApi ==
  /\ pc = "api"
  /\ IF Accepted(ThisAdapter)
       THEN /\ slot' = [slot EXCEPT ![SlotOf(ThisAdapter)] = i]
            /\ NextElement(adapters, "init", "work")
            /\ UNCHANGED status
       ELSE Abort /\ UNCHANGED slot
  /\ UNCHANGED <<input, adapters, driver, bpVars>>
-----------------------------------------------------------------------------
\* embedded_main returns; what it returns is overwritten by mlist_close.
WorkbenchReturns ==
  /\ pc = "work"
  /\ IF adapters = <<>> THEN Exit("exit 0") ELSE pc' = "deinit" /\ i' = 1 /\ UNCHANGED status
  /\ UNCHANGED <<input, adapters, driver, slot, bpVars>>

\* The workbench, or a driver under it, ends the process.
WorkbenchEnds ==
  /\ pc = "work" /\ Abort
  /\ UNCHANGED <<input, adapters, driver, slot, bpVars>>

\* rawMode_toMode(ENTER_RESET) writes too few zeros to fetch a Bus Pirate
\* that is back at its console already.
CanReset == ThisAdapter.adapter = "bp" => mode[ThisAdapter.file] # "console"

\* Mutants: the driver's pointer is left dangling; the last adapter is skipped.
DeinitDangling ==
  /\ pc = "deinit" /\ driver[i] = "live" /\ CanReset
  /\ driver' = [driver EXCEPT ![i] = "dangling"]
  /\ SetMode("console") /\ SetConfig(Unconfigured)
  /\ IF i < Len(adapters) THEN i' = i + 1 /\ UNCHANGED <<pc, status>> ELSE Exit("exit 0")
  /\ UNCHANGED <<input, adapters, slot>>
DeinitSkipsLast ==
  /\ pc = "deinit" /\ driver[i] = "live" /\ CanReset
  /\ driver' = [driver EXCEPT ![i] = "freed"]
  /\ SetMode("console") /\ SetConfig(Unconfigured)
  /\ IF i + 1 < Len(adapters) THEN i' = i + 1 /\ UNCHANGED <<pc, status>> ELSE Exit("exit 0")
  /\ UNCHANGED <<input, adapters, slot>>

\* buspirate_deinit_adapter or lxi_deinit_adapter: driver.any is asserted.
Deinit ==
  /\ pc = "deinit" /\ driver[i] = "live" /\ CanReset
  /\ driver' = [driver EXCEPT ![i] = "freed"]
  /\ SetMode("console") /\ SetConfig(Unconfigured)
  /\ IF i < Len(adapters) THEN i' = i + 1 /\ UNCHANGED <<pc, status>> ELSE Exit("exit 0")
  /\ UNCHANGED <<input, adapters, slot>>

DeinitFails ==
  /\ pc = "deinit"
  /\ Abort
  /\ IF driver[i] = "live" THEN LeaveHalfway ELSE UNCHANGED bpVars
  /\ UNCHANGED <<input, adapters, driver, slot>>

Ended == pc = "exit" /\ UNCHANGED vars

Next ==
  \/ Constructors \/ ParseNothing \/ Parse \/ InitNothing \/ InitDriver \/ InitFails \/ InitWithout
  \/ InitApi \/ WorkbenchReturns \/ WorkbenchEnds \/ Deinit \/ DeinitFails \/ Ended

Spec == Init /\ [][Next]_vars
-----------------------------------------------------------------------------
(* Properties *)

TypeOK ==
  /\ pc \in {"constructors", "parse", "init", "api", "work", "deinit", "exit"}
  /\ status \in {"running", "aborted", "crashed", "exit 0", "exit 1"}
  /\ build \in Builds /\ i \in 1..MaxOptions + 1
  /\ Len(adapters) <= Len(options) /\ DOMAIN driver = DOMAIN adapters
  /\ \A a \in DOMAIN driver : driver[a] \in {"none", "live", "freed"}
  /\ slot \in [Slots -> NULL..MaxOptions]
  /\ mode \in [BpFile -> AnyMode] /\ DOMAIN config = BpFile

\* The options given for a slot, and the last of them.
Given(s) == {o \in DOMAIN options : <<options[o].role, options[o].index>> = s}
LastGiven(s) == IF Given(s) = {} THEN NoDriver
                ELSE CHOOSE o \in Given(s) : \A p \in Given(s) : p <= o

IndicesFit == \A o \in DOMAIN options : options[o].index < INT_RANGE \div 2

\* While the workbench runs, a slot is the driver of the last option given for
\* its role and index, and the stub when there was none: no option was dropped
\* on the way and none reached the slot of another role or index.  Where a long
\* is longer than an int the indices have to fit: atoi makes others of those
\* that do not (buspirate.c:274), and they may get past the assertions.
SlotsAgree ==
  (IndicesFit \/ build.pointer = 4) /\ pc = "work" => \A s \in Slots : slot[s] = LastGiven(s)

\* The workbench runs only with everything that was asked for: every option
\* has its adapter, one the build has a driver for, and that driver is live.
\* So the assertion of adapters_deinit_adapter holds for each.
NothingMissing ==
  /\ pc = "work" => /\ Len(adapters) = Len(options)
                    /\ \A a \in DOMAIN driver : driver[a] = "live" /\ HasDriver(adapters[a])
  /\ pc = "deinit" => driver[i] = "live"

OneRolePerFile ==
  \A a, b \in DOMAIN options : options[a].file = options[b].file => a = b

\* Each Bus Pirate has the default settings of its role then, when no two
\* options name the same file, in a build that tests the order of its
\* bit-fields or has it right: the bytes bpspi_configure and bpi2c_configure
\* write are the commands they were meant to be.
ConfiguredAsAsked ==
  OneRolePerFile /\ pc = "work" /\ (build.ENABLE_BITFIELD_TEST \/ InOrder(build)) =>
    \A a \in DOMAIN adapters : adapters[a].adapter = "bp" =>
      IF adapters[a].role = "SPI" THEN Agrees(config[adapters[a].file], bp_dflt_config_SPI)
                                  ELSE Agrees(config[adapters[a].file], bp_dflt_config_I2C)

\* After a normal end every driver is freed, one whose slot was taken over by
\* a later option included, and every Bus Pirate is back at its console.
CleanExit ==
  status = "exit 0" =>
    /\ \A a \in DOMAIN driver : driver[a] = "freed"
    /\ \A a \in DOMAIN adapters :
         adapters[a].adapter = "bp" => mode[adapters[a].file] = "console"

\* An exit with status 1 has brought up no adapter that it then leaves behind
\* in its mode, unless an option asks for a role the build has left out.
EarlyExitClean ==
  status = "exit 1" =>
    \/ \A a \in DOMAIN driver : driver[a] = "none"
    \/ \E a \in DOMAIN adapters :
         adapters[a].adapter \in Driven /\ adapters[a].role \in BusRole /\ ~HasDriver(adapters[a])
=============================================================================
