--------------------------- MODULE LifecycleProofs --------------------------
(***************************************************************************)
(* TLAPS proofs about Lifecycle and Workbench, for any options, builds,    *)
(* default configurations and number of slots.  The invariant says how far *)
(* each phase has come: the adapters made of the options before i, the     *)
(* slots filled by those before i, the lines brought up or down so far.    *)
(***************************************************************************)
EXTENDS Workbench, BpConfigProofs, SequenceTheorems

DriverState == {"none", "live", "freed"}
AdapterSet == {Adapter(o) : o \in Options}

Shape ==
  /\ pc \in {"constructors", "parse", "init", "api", "work", "deinit", "exit"}
  /\ status \in {"running", "aborted", "crashed", "exit 0", "exit 1"}
  /\ build \in Builds
  /\ options \in Seq(Options) /\ Len(options) <= MaxOptions
  /\ adapters \in Seq(AdapterSet) /\ Len(adapters) <= Len(options)
  /\ driver \in Seq(DriverState) /\ Len(driver) = Len(adapters)
  /\ i \in 1..MaxOptions + 1
  /\ slot \in [Slots -> NULL..MaxOptions]
  /\ mode \in [BpFile -> AnyMode]
  /\ config = [f \in BpFile |-> config[f]]

\* Each adapter is that of its option.
Made ==
  \A k \in 1..Len(adapters) : adapters[k] = Adapter(options[k]) /\ adapters_parse(options[k])

\* The first n adapters have been brought up.
Brought(n) ==
  \A k \in 1..n : driver[k] = "live" /\ HasDriver(adapters[k]) /\ Accepted(adapters[k])

Phase ==
  /\ status = "running" <=> pc # "exit"
  /\ pc \in {"constructors", "parse"} => \A k \in 1..Len(adapters) : driver[k] = "none"
  /\ pc = "constructors" => i = 1 /\ adapters = <<>>
  /\ pc = "parse" => i = Len(adapters) + 1 /\ (options # <<>> => i <= Len(options))
  /\ pc \in {"parse", "init", "api", "work"} => buspirate_init(build)
  /\ pc \in {"init", "api", "work", "deinit"} => Len(adapters) = Len(options)
  /\ pc = "init" /\ adapters # <<>> => i <= Len(adapters)
  /\ pc = "init" /\ adapters = <<>> => i = 1
  /\ pc = "init" => Brought(i - 1)
  /\ pc = "api" =>
       /\ i <= Len(adapters) /\ Brought(i - 1)
       /\ (driver[i] = "live" /\ HasDriver(adapters[i])) \/ adapters[i].adapter = "invalid"
  /\ pc = "work" => Brought(Len(adapters))
  /\ pc = "deinit" =>
       /\ i <= Len(adapters)
       /\ \A k \in 1..Len(adapters) : driver[k] = IF k < i THEN "freed" ELSE "live"
  /\ status = "exit 0" => \A k \in 1..Len(adapters) : driver[k] = "freed"
  /\ EarlyExitClean

\* A slot is the last of the first n adapters given for it, or the stub.
SlotIs(s, n) ==
  \/ slot[s] = NoDriver /\ \A k \in 1..n : SlotOf(adapters[k]) # s
  \/ /\ slot[s] \in 1..n /\ SlotOf(adapters[slot[s]]) = s
     /\ \A k \in 1..n : k > slot[s] => SlotOf(adapters[k]) # s

SlotPhase ==
  /\ pc = "parse" => \A s \in Slots : SlotIs(s, 0)
  /\ pc \in {"init", "api"} => \A s \in Slots : SlotIs(s, i - 1)
  /\ pc = "work" => \A s \in Slots : SlotIs(s, Len(adapters))

ConfigOf(role) ==
  IF role = "SPI" THEN ConfiguredSpi(bpspi_configure(build, bp_dflt_config_SPI))
                  ELSE ConfiguredI2c(bpi2c_configure(build, bp_dflt_config_I2C))

\* The first n Bus Pirates have their settings, or are back at their consoles.
LinesUp(n) ==
  OneRolePerFile => \A k \in 1..n : adapters[k].adapter = "bp" =>
    config[adapters[k].file] = ConfigOf(adapters[k].role)
LinesDown(n) ==
  \A k \in 1..n : adapters[k].adapter = "bp" => mode[adapters[k].file] = "console"

LinePhase ==
  /\ pc = "init" => LinesUp(i - 1)
  /\ pc = "api" => LinesUp(i)
  /\ pc = "work" => LinesUp(Len(adapters))
  /\ pc = "deinit" => LinesDown(i - 1)
  /\ status = "exit 0" => LinesDown(Len(adapters))

IInv == Shape /\ Made /\ Phase /\ SlotPhase /\ LinePhase
-----------------------------------------------------------------------------
(* Facts about single elements *)

\* An adapter with a driver has its place among the slots' roles, and the build
\* has it: it is one of the Bus Pirate or of i2c-dev.
LEMMA DriverRole ==
  ASSUME Shape, NEW a, HasDriver(a)
  PROVE  a.adapter \in Driven /\ a.role \in BusRole
  BY BuildAssumption DEF Shape, BuildAssumption, Build, HasDriver

LEMMA SlotInSlots ==
  ASSUME Shape, NEW a, HasDriver(a), Accepted(a)
  PROVE  SlotOf(a) \in Slots
  BY DriverRole DEF SlotOf, Slots, Accepted

\* The adapter init, api and deinit are at.
LEMMA ThisTyped ==
  ASSUME Shape, i <= Len(adapters)
  PROVE  ThisAdapter \in AdapterSet /\ i \in 1..Len(adapters) /\ i \in 1..Len(driver)
  <1>1. adapters \in Seq(AdapterSet) /\ driver \in Seq(DriverState) /\ Len(driver) = Len(adapters)
    BY DEF Shape
  <1>2. i \in 1..MaxOptions + 1 /\ MaxOptions \in Nat
    BY OptionAssumption DEF Shape, OptionAssumption
  <1>3. i \in 1..Len(adapters)
    BY <1>1, <1>2
  <1> QED
    BY <1>1, <1>3 DEF ThisAdapter

\* The file of an adapter that is a Bus Pirate is one of the lines.
LEMMA FileOfBp ==
  ASSUME Shape, Made, NEW k \in 1..Len(adapters), adapters[k].adapter = "bp"
  PROVE  adapters[k].file \in BpFile
  <1>1. options[k] \in Options /\ adapters[k] = Adapter(options[k])
    <2>1. options \in Seq(Options) /\ adapters \in Seq(AdapterSet) /\ Len(adapters) <= Len(options)
      BY DEF Shape
    <2>2. k \in 1..Len(options)
      BY <2>1
    <2> QED
      BY <2>1, <2>2 DEF Made
  <1>2. options[k].adapter = "bp" /\ adapters[k].file = options[k].file
    BY <1>1 DEF Adapter
  <1> QED
    BY <1>1, <1>2 DEF BpFile

\* Bringing a line up or down keeps the types of both functions.
LEMMA LinesTyped ==
  ASSUME Shape, Made, i <= Len(adapters), NEW m \in AnyMode, NEW c, SetMode(m), SetConfig(c)
  PROVE  /\ mode' \in [BpFile -> AnyMode]
         /\ config' = [f \in BpFile |-> config'[f]]
         /\ ThisAdapter.adapter = "bp" =>
              mode'[ThisAdapter.file] = m /\ config'[ThisAdapter.file] = c
         /\ \A f \in BpFile : f # ThisAdapter.file \/ ThisAdapter.adapter # "bp" =>
              mode'[f] = mode[f] /\ config'[f] = config[f]
  <1>1. ThisAdapter.adapter = "bp" => ThisAdapter.file \in BpFile
    BY ThisTyped, FileOfBp DEF ThisAdapter
  <1>2. mode \in [BpFile -> AnyMode] /\ config = [f \in BpFile |-> config[f]]
    BY DEF Shape
  <1>3. CASE ThisAdapter.adapter = "bp"
    <2>1. mode' = [mode EXCEPT ![ThisAdapter.file] = m]
          /\ config' = [config EXCEPT ![ThisAdapter.file] = c]
      BY <1>3 DEF SetMode, SetConfig
    <2>2. config' = [f \in BpFile |-> IF f = ThisAdapter.file THEN c ELSE config[f]]
      BY <1>2, <2>1, ZenonT(30)
    <2> QED
      BY <1>1, <1>2, <1>3, <2>1, <2>2
  <1>4. CASE ThisAdapter.adapter # "bp"
    BY <1>2, <1>4 DEF SetMode, SetConfig
  <1> QED
    BY <1>3, <1>4
-----------------------------------------------------------------------------
(* The initial states *)

LEMMA OptionsSeq ==
  ASSUME NEW o \in UNION {[1..n -> Options] : n \in 0..MaxOptions}
  PROVE  o \in Seq(Options) /\ Len(o) <= MaxOptions
  <1>1. PICK n \in 0..MaxOptions : o \in [1..n -> Options]
    OBVIOUS
  <1>2. n \in Nat /\ n <= MaxOptions
    BY <1>1, OptionAssumption DEF OptionAssumption
  <1>3. o \in Seq(Options) /\ Len(o) = n
    BY <1>1, <1>2, SeqDef, LenProperties
  <1> QED
    BY <1>2, <1>3

LEMMA InitIInv == Init => IInv
  <1> SUFFICES ASSUME Init PROVE IInv
    OBVIOUS
  <1>1. MaxOptions \in Nat /\ MAX_ADAPTERS \in Nat
    BY OptionAssumption DEF OptionAssumption
  <1>2. options \in Seq(Options) /\ Len(options) <= MaxOptions
    BY OptionsSeq DEF Init
  <1>3. adapters = <<>> /\ driver = <<>> /\ i = 1 /\ pc = "constructors" /\ status = "running"
        /\ build \in Builds /\ slot = [s \in Slots |-> NULL] /\ mode \in [BpFile -> AnyMode]
        /\ config = [f \in BpFile |-> Unconfigured]
    BY DEF Init
  <1>4. Shape
    <2>1. slot \in [Slots -> NULL..MaxOptions]
      BY <1>1, <1>3 DEF NULL
    <2>2. config = [f \in BpFile |-> config[f]]
      BY <1>3
    <2>3. adapters \in Seq(AdapterSet) /\ driver \in Seq(DriverState)
          /\ Len(adapters) = 0 /\ Len(driver) = 0
      BY <1>3
    <2> QED
      BY <1>1, <1>2, <1>3, <2>1, <2>2, <2>3 DEF Shape
  <1>5. Made
    BY <1>3 DEF Made
  <1>6. Phase
    BY <1>3 DEF Phase, EarlyExitClean
  <1>7. SlotPhase /\ LinePhase
    BY <1>3 DEF SlotPhase, LinePhase
  <1> QED
    BY <1>4, <1>5, <1>6, <1>7 DEF IInv
-----------------------------------------------------------------------------
(* The steps *)

\* What the same build makes of an option is the same.
LEMMA SameBuild ==
  ASSUME build' = build
  PROVE  /\ AdapterSet' = AdapterSet /\ \A o : Adapter(o)' = Adapter(o)
         /\ \A o : adapters_parse(o)' <=> adapters_parse(o)
  <1>1. AdapterSet' = AdapterSet /\ \A o : Adapter(o)' = Adapter(o)
    BY DEF AdapterSet, Adapter, atoi, LONG_MAX
  <1>2. \A o : adapters_parse(o)' <=> adapters_parse(o)
    BY Zenon DEF adapters_parse, buspirate_parse, lxi_parse
  <1> QED
    BY <1>1, <1>2

\* A step that changes no adapter keeps each that of its option.
LEMMA MadeKept ==
  ASSUME Made, UNCHANGED <<input, adapters>>
  PROVE  Made'
  BY SameBuild DEF Made, input

\* The end of the process, wherever it stands.
LEMMA EndsStep ==
  ASSUME IInv, pc' = "exit", status' \in {"aborted", "crashed"},
         UNCHANGED <<input, i, adapters, driver, slot>>,
         mode' \in [BpFile -> AnyMode], config' = [f \in BpFile |-> config'[f]]
  PROVE  IInv'
  <1>1. Shape'
    BY SameBuild DEF IInv, Shape, input
  <1>2. Made'
    BY MadeKept DEF IInv
  <1>3. Phase'
    BY DEF Phase, EarlyExitClean
  <1>4. SlotPhase' /\ LinePhase'
    BY DEF SlotPhase, LinePhase
  <1> QED
    BY <1>1, <1>2, <1>3, <1>4 DEF IInv

\* An end that leaves the Bus Pirates as they are.
LEMMA EndsQuietly ==
  ASSUME IInv, pc' = "exit", status' \in {"aborted", "crashed"},
         UNCHANGED <<input, i, adapters, driver, slot, bpVars>>
  PROVE  IInv'
  <1>1. mode' \in [BpFile -> AnyMode] /\ config' = [f \in BpFile |-> config'[f]]
    BY DEF IInv, Shape, bpVars
  <1> QED
    BY <1>1, EndsStep

\* An end that leaves one of them halfway.
LEMMA EndsHalfway ==
  ASSUME IInv, i <= Len(adapters), pc' = "exit", status' \in {"aborted", "crashed"},
         UNCHANGED <<input, i, adapters, driver, slot>>, LeaveHalfway
  PROVE  IInv'
  <1>1. PICK m \in AnyMode : SetMode(m) /\ SetConfig(Unconfigured)
    BY DEF LeaveHalfway
  <1>2. mode' \in [BpFile -> AnyMode] /\ config' = [f \in BpFile |-> config'[f]]
    BY <1>1, LinesTyped DEF IInv
  <1> QED
    BY <1>2, EndsStep

LEMMA ConstructorsStep == IInv /\ Constructors => IInv'
  <1> SUFFICES ASSUME IInv, Constructors PROVE IInv'
    OBVIOUS
  <1>1. CASE ~buspirate_init(build)
    BY <1>1, EndsQuietly DEF Constructors, Abort, Exit
  <1>2. CASE buspirate_init(build)
    <2>1. /\ pc = "constructors" /\ pc' = "parse" /\ slot' = [s \in Slots |-> NoDriver]
          /\ UNCHANGED <<build, options, i, status, adapters, driver, mode, config>>
      BY <1>2 DEF Constructors, input, bpVars
    <2>2. i = 1 /\ adapters = <<>> /\ status = "running" /\ Len(adapters) = 0
      BY <2>1 DEF IInv, Phase
    <2>3. options \in Seq(Options) /\ MaxOptions \in Nat
      BY OptionAssumption DEF IInv, Shape, OptionAssumption
    <2>4. slot' \in [Slots -> NULL..MaxOptions]
      BY <2>1, <2>3 DEF NULL, NoDriver
    <2>5. Shape'
      BY <2>1, <2>4, SameBuild DEF IInv, Shape
    <2>6. Made'
      BY <2>1, MadeKept DEF IInv, input
    <2>7. options # <<>> => 1 <= Len(options)
      BY <2>3, EmptySeq
    <2>8. Phase'
      BY <1>2, <2>1, <2>2, <2>7 DEF Phase, EarlyExitClean
    <2>9. SlotPhase'
      BY <2>1 DEF SlotPhase, SlotIs
    <2>10. LinePhase'
      BY <2>1, <2>2 DEF LinePhase
    <2> QED
      BY <2>5, <2>6, <2>8, <2>9, <2>10 DEF IInv
  <1> QED
    BY <1>1, <1>2

LEMMA ParseStep == IInv /\ Parse => IInv'
  <1> SUFFICES ASSUME IInv, Parse PROVE IInv'
    OBVIOUS
  <1>1. /\ pc = "parse" /\ options # <<>> /\ status = "running" /\ buspirate_init(build)
        /\ UNCHANGED <<build, options, slot, mode, config>>
    BY DEF Parse, IInv, Phase, input, bpVars
  <1>2. /\ options \in Seq(Options) /\ adapters \in Seq(AdapterSet) /\ driver \in Seq(DriverState)
        /\ Len(driver) = Len(adapters) /\ Len(options) <= MaxOptions /\ MaxOptions \in Nat
    BY OptionAssumption DEF IInv, Shape, OptionAssumption
  <1>3. /\ i = Len(adapters) + 1 /\ i <= Len(options) /\ i \in 1..Len(options)
        /\ \A k \in 1..Len(adapters) : driver[k] = "none"
    <2>1. /\ i = Len(adapters) + 1 /\ i <= Len(options)
          /\ \A k \in 1..Len(adapters) : driver[k] = "none"
      BY <1>1 DEF IInv, Phase
    <2> QED
      BY <1>2, <2>1
  <1>4. CASE ~adapters_parse(options[i])
    <2>1. pc' = "exit" /\ status' = "exit 1" /\ UNCHANGED <<i, adapters, driver>>
      BY <1>4 DEF Parse, Exit
    <2>2. Shape'
      BY <1>1, <2>1, SameBuild DEF IInv, Shape
    <2>3. Made'
      BY <1>1, <2>1, MadeKept DEF IInv, input
    <2>4. EarlyExitClean'
      <3>1. DOMAIN driver = 1..Len(adapters)
        BY <1>2, LenProperties
      <3> QED
        BY <1>3, <2>1, <3>1 DEF EarlyExitClean
    <2>5. Phase'
      BY <2>1, <2>4 DEF Phase
    <2>6. SlotPhase' /\ LinePhase'
      BY <2>1 DEF SlotPhase, LinePhase
    <2> QED
      BY <2>2, <2>3, <2>5, <2>6 DEF IInv
  <1>5. CASE adapters_parse(options[i])
    <2>1. /\ adapters' = Append(adapters, Adapter(options[i])) /\ driver' = Append(driver, "none")
          /\ NextElement(options, "parse", "init") /\ status' = status
      BY <1>5 DEF Parse
    <2>2. Adapter(options[i]) \in AdapterSet
      BY <1>2, <1>3 DEF AdapterSet
    <2>3. /\ adapters' \in Seq(AdapterSet) /\ driver' \in Seq(DriverState)
          /\ Len(adapters') = i /\ Len(driver') = i
          /\ \A k \in 1..i : k < i => adapters'[k] = adapters[k] /\ driver'[k] = driver[k]
          /\ adapters'[i] = Adapter(options[i]) /\ driver'[i] = "none"
      BY <1>2, <1>3, <2>1, <2>2 DEF DriverState
    <2>4. /\ i < Len(options) => pc' = "parse" /\ i' = i + 1
          /\ i = Len(options) => pc' = "init" /\ i' = 1
      BY <1>2, <1>3, <2>1 DEF NextElement
    <2>5. pc' \in {"parse", "init"} /\ i' \in 1..MaxOptions + 1
      BY <1>2, <1>3, <2>4
    <2>6. Shape'
      BY <1>1, <1>2, <1>3, <2>1, <2>3, <2>5, SameBuild DEF IInv, Shape
    <2>7. Made'
      <3> SUFFICES ASSUME NEW k \in 1..i
                   PROVE  adapters'[k] = Adapter(options[k]) /\ adapters_parse(options[k])
        BY <1>1, <2>3, SameBuild DEF Made, adapters_parse, buspirate_parse, lxi_parse
      <3>1. CASE k = i
        BY <1>5, <2>3, <3>1
      <3>2. CASE k # i
        BY <1>2, <1>3, <2>3, <3>2 DEF IInv, Made
      <3> QED
        BY <3>1, <3>2
    <2>8. \A k \in 1..Len(adapters') : driver'[k] = "none"
      <3> SUFFICES ASSUME NEW k \in 1..i PROVE driver'[k] = "none"
        BY <2>3
      <3>1. CASE k = i
        BY <2>3, <3>1
      <3>2. CASE k # i
        <4>1. k \in 1..Len(adapters) /\ k < i
          BY <1>2, <1>3, <3>2
        <4> QED
          BY <1>3, <2>3, <4>1
      <3> QED
        BY <3>1, <3>2
    <2>9. Phase'
      <3>1. adapters' # <<>> /\ 1 <= Len(adapters')
        BY <1>2, <1>3, <2>3
      <3>2. i' - 1 = 0 \/ pc' = "parse"
        BY <1>2, <1>3, <2>4
      <3>3. pc' = "parse" => i' = Len(adapters') + 1 /\ i' <= Len(options)
        BY <1>2, <1>3, <2>3, <2>4
      <3>4. pc' = "init" => i' = 1 /\ Len(adapters') = Len(options)
        BY <1>2, <1>3, <2>3, <2>4
      <3>5. pc' = "init" => Brought(i - 1)'
        BY <3>4 DEF Brought
      <3> QED
        BY <1>1, <2>1, <2>5, <2>8, <3>1, <3>3, <3>4, <3>5 DEF Phase, EarlyExitClean
    <2>10. SlotPhase'
      <3>1. \A s \in Slots : slot[s] = NoDriver
        BY <1>1 DEF IInv, SlotPhase, SlotIs
      <3>2. pc' = "init" => 1..(i' - 1) = {}
        BY <1>2, <1>3, <2>4
      <3>3. pc' = "init" => \A s \in Slots : SlotIs(s, i - 1)'
        BY <1>1, <3>1, <3>2 DEF SlotIs
      <3>4. \A s \in Slots : SlotIs(s, 0)'
        BY <1>1, <3>1 DEF SlotIs
      <3> QED
        BY <2>5, <3>3, <3>4 DEF SlotPhase
    <2>11. LinePhase'
      <3>1. pc' = "init" => 1..(i' - 1) = {}
        BY <1>2, <1>3, <2>4
      <3>2. pc' = "init" => LinesUp(i - 1)'
        BY <3>1 DEF LinesUp
      <3> QED
        BY <1>1, <2>1, <2>5, <3>2 DEF LinePhase
    <2> QED
      BY <2>6, <2>7, <2>9, <2>10, <2>11 DEF IInv
  <1> QED
    BY <1>4, <1>5

LEMMA ParseNothingStep == IInv /\ ParseNothing => IInv'
  <1> SUFFICES ASSUME IInv, ParseNothing PROVE IInv'
    OBVIOUS
  <1>1. /\ options = <<>> /\ pc = "parse" /\ pc' = "init" /\ i' = 1
        /\ UNCHANGED <<build, options, status, adapters, driver, slot, mode, config>>
    BY DEF ParseNothing, SkipEmpty, input, bpVars
  <1>2. adapters = <<>> /\ Len(options) = 0 /\ Len(adapters) = 0 /\ status = "running"
        /\ buspirate_init(build) /\ MaxOptions \in Nat
    <2>1. adapters \in Seq(AdapterSet) /\ Len(adapters) <= 0
      BY <1>1 DEF IInv, Shape
    <2> QED
      BY <1>1, <2>1, EmptySeq, OptionAssumption DEF IInv, Phase, OptionAssumption
  <1>3. Shape'
    BY <1>1, <1>2, SameBuild DEF IInv, Shape
  <1>4. Made'
    BY <1>1, MadeKept DEF IInv, input
  <1>5. Phase'
    BY <1>1, <1>2 DEF Phase, EarlyExitClean, Brought
  <1>6. SlotPhase'
    BY <1>1 DEF IInv, SlotPhase, SlotIs
  <1>7. LinePhase'
    BY <1>1, <1>2 DEF LinePhase, LinesUp
  <1> QED
    BY <1>3, <1>4, <1>5, <1>6, <1>7 DEF IInv

LEMMA InitNothingStep == IInv /\ InitNothing => IInv'
  <1> SUFFICES ASSUME IInv, InitNothing PROVE IInv'
    OBVIOUS
  <1>1. /\ adapters = <<>> /\ pc = "init" /\ pc' = "work" /\ i' = 1
        /\ UNCHANGED <<build, options, status, adapters, driver, slot, mode, config>>
    BY DEF InitNothing, SkipEmpty, input, bpVars
  <1>2. Len(adapters) = 0 /\ Len(options) = 0 /\ i = 1 /\ status = "running"
        /\ buspirate_init(build) /\ MaxOptions \in Nat
    BY <1>1, OptionAssumption DEF IInv, Phase, OptionAssumption
  <1>3. Shape'
    BY <1>1, <1>2, SameBuild DEF IInv, Shape
  <1>4. Made'
    BY <1>1, MadeKept DEF IInv, input
  <1>5. Phase'
    BY <1>1, <1>2 DEF Phase, EarlyExitClean, Brought
  <1>6. SlotPhase'
    BY <1>1, <1>2 DEF IInv, SlotPhase, SlotIs
  <1>7. LinePhase'
    BY <1>1, <1>2 DEF LinePhase, LinesUp
  <1> QED
    BY <1>3, <1>4, <1>5, <1>6, <1>7 DEF IInv

\* What holds at an adapter to be initialised.
LEMMA AtInit ==
  ASSUME IInv, pc = "init", adapters # <<>>
  PROVE  /\ i \in 1..Len(adapters) /\ i <= Len(adapters) /\ Len(driver) = Len(adapters)
         /\ i \in 1..Len(options) /\ Len(adapters) = Len(options)
         /\ ThisAdapter = Adapter(options[i]) /\ adapters_parse(options[i])
         /\ driver \in Seq(DriverState) /\ adapters \in Seq(AdapterSet)
         /\ status = "running" /\ buspirate_init(build) /\ Brought(i - 1)
  <1>1. i <= Len(adapters) /\ Len(adapters) = Len(options) /\ status = "running"
        /\ buspirate_init(build) /\ Brought(i - 1)
    BY DEF IInv, Phase
  <1>2. i \in 1..Len(adapters) /\ Len(driver) = Len(adapters)
        /\ driver \in Seq(DriverState) /\ adapters \in Seq(AdapterSet)
    BY <1>1, ThisTyped DEF IInv, Shape
  <1> QED
    BY <1>1, <1>2 DEF IInv, Made, ThisAdapter

LEMMA InitFailsStep == IInv /\ InitFails => IInv'
  BY AtInit, EndsHalfway DEF InitFails, Abort, Exit

\* The files of two adapters differ when those of their options do.
LEMMA OtherFile ==
  ASSUME Shape, Made, OneRolePerFile, NEW a \in 1..Len(adapters), NEW b \in 1..Len(adapters),
         a # b
  PROVE  adapters[a].file # adapters[b].file
  <1>1. options \in Seq(Options) /\ adapters \in Seq(AdapterSet) /\ Len(adapters) <= Len(options)
    BY DEF Shape
  <1>2. a \in DOMAIN options /\ b \in DOMAIN options
    BY <1>1, LenProperties
  <1>3. adapters[a] = Adapter(options[a]) /\ adapters[b] = Adapter(options[b])
    BY DEF Made
  <1>4. \A o : Adapter(o).file = o.file
    BY DEF Adapter
  <1> QED
    BY <1>2, <1>3, <1>4 DEF OneRolePerFile

LEMMA InitDriverStep == IInv /\ InitDriver => IInv'
  <1> SUFFICES ASSUME IInv, InitDriver PROVE IInv'
    OBVIOUS
  <1>1. /\ pc = "init" /\ adapters # <<>> /\ HasDriver(ThisAdapter) /\ pc' = "api"
        /\ driver' = [driver EXCEPT ![i] = "live"]
        /\ SetMode(ThisAdapter.role) /\ SetConfig(DefaultConfig)
        /\ UNCHANGED <<build, options, i, status, adapters, slot>>
    BY DEF InitDriver, input
  <1>2. /\ i \in 1..Len(adapters) /\ i <= Len(adapters) /\ Len(driver) = Len(adapters)
        /\ Len(adapters) = Len(options)
        /\ driver \in Seq(DriverState) /\ adapters \in Seq(AdapterSet)
        /\ status = "running" /\ buspirate_init(build) /\ Brought(i - 1)
    BY <1>1, AtInit
  <1>3. ThisAdapter.role \in AnyMode /\ ThisAdapter.role \in BusRole
    BY <1>1, DriverRole DEF IInv, AnyMode
  <1>4. /\ mode' \in [BpFile -> AnyMode] /\ config' = [f \in BpFile |-> config'[f]]
        /\ ThisAdapter.adapter = "bp" => config'[ThisAdapter.file] = DefaultConfig
        /\ \A f \in BpFile : f # ThisAdapter.file \/ ThisAdapter.adapter # "bp" =>
             config'[f] = config[f]
    BY <1>1, <1>2, <1>3, LinesTyped DEF IInv
  <1>5. /\ driver' \in Seq(DriverState) /\ Len(driver') = Len(driver) /\ driver'[i] = "live"
        /\ \A k \in 1..Len(driver) : k # i => driver'[k] = driver[k]
    BY <1>1, <1>2, ExceptSeq DEF DriverState
  <1>6. Shape'
    BY <1>1, <1>4, <1>5, SameBuild DEF IInv, Shape
  <1>7. Made'
    BY <1>1, MadeKept DEF IInv, input
  <1>8. Brought(i - 1)'
    <2> SUFFICES ASSUME NEW k \in 1..(i - 1)
                 PROVE  driver'[k] = "live" /\ HasDriver(adapters[k]) /\ Accepted(adapters[k])
      BY <1>1 DEF Brought, HasDriver, Accepted
    <2>1. k \in 1..Len(driver) /\ k # i
      BY <1>2
    <2> QED
      BY <1>2, <1>5, <2>1 DEF Brought
  <1>9. Phase'
    BY <1>1, <1>2, <1>5, <1>8 DEF Phase, EarlyExitClean, HasDriver, ThisAdapter
  <1>10. SlotPhase'
    BY <1>1 DEF IInv, SlotPhase, SlotIs, SlotOf
  <1>11. LinesUp(i)'
    <2> SUFFICES ASSUME OneRolePerFile, NEW k \in 1..i, adapters[k].adapter = "bp"
                 PROVE  config'[adapters[k].file] = ConfigOf(adapters[k].role)
      BY <1>1 DEF LinesUp, OneRolePerFile, ConfigOf
    <2>1. CASE k = i
      BY <1>4, <2>1 DEF ThisAdapter, DefaultConfig, ConfigOf
    <2>2. CASE k # i
      <3>1. k \in 1..Len(adapters) /\ k \in 1..(i - 1)
        BY <1>2, <2>2
      <3>2. adapters[k].file \in BpFile /\ adapters[k].file # ThisAdapter.file
        BY <1>2, <2>2, <3>1, FileOfBp, OtherFile DEF IInv, ThisAdapter
      <3>3. config[adapters[k].file] = ConfigOf(adapters[k].role)
        BY <1>1, <3>1 DEF IInv, LinePhase, LinesUp
      <3> QED
        BY <1>4, <3>2, <3>3
    <2> QED
      BY <2>1, <2>2
  <1>12. LinePhase'
    BY <1>1, <1>2, <1>11 DEF LinePhase
  <1> QED
    BY <1>6, <1>7, <1>9, <1>10, <1>12 DEF IInv

LEMMA InitWithoutStep == IInv /\ InitWithout => IInv'
  <1> SUFFICES ASSUME IInv, InitWithout PROVE IInv'
    OBVIOUS
  <1>1. /\ pc = "init" /\ adapters # <<>> /\ ~HasDriver(ThisAdapter)
        /\ UNCHANGED <<build, options, i, adapters, driver, slot, mode, config>>
    BY DEF InitWithout, input, bpVars, Exit
  <1>2. /\ i \in 1..Len(adapters) /\ i <= Len(adapters) /\ Len(adapters) = Len(options)
        /\ ThisAdapter = Adapter(options[i]) /\ adapters_parse(options[i])
        /\ driver \in Seq(DriverState) /\ adapters \in Seq(AdapterSet)
        /\ status = "running" /\ buspirate_init(build) /\ Brought(i - 1)
    BY <1>1, AtInit
  <1>3. Made'
    BY <1>1, MadeKept DEF IInv, input
  <1>4. CASE ThisAdapter.adapter = "invalid"
    <2>1. pc' = "api" /\ status' = status
      BY <1>4 DEF InitWithout
    <2>2. Shape'
      BY <1>1, <2>1, SameBuild DEF IInv, Shape
    <2>3. Brought(i - 1)'
      BY <1>1, <1>2 DEF Brought, HasDriver, Accepted
    <2>4. Phase'
      BY <1>1, <1>2, <1>4, <2>1, <2>3 DEF Phase, EarlyExitClean, ThisAdapter
    <2>5. SlotPhase'
      BY <1>1, <2>1 DEF IInv, SlotPhase, SlotIs, SlotOf
    <2>6. LinesUp(i)'
      <3>1. \A k \in 1..i : k \in 1..(i - 1) \/ k = i
        BY <1>2
      <3>2. LinesUp(i - 1)
        BY <1>1 DEF IInv, LinePhase
      <3> QED
        BY <1>1, <1>4, <3>1, <3>2 DEF LinesUp, ThisAdapter, OneRolePerFile, ConfigOf
    <2>7. LinePhase'
      BY <1>1, <1>2, <2>1, <2>6 DEF LinePhase
    <2> QED
      BY <1>3, <2>2, <2>4, <2>5, <2>7 DEF IInv
  <1>5. CASE ThisAdapter.adapter # "invalid"
    <2>1. pc' = "exit" /\ status' = "exit 1"
      BY <1>5 DEF InitWithout, Exit
    <2>2. Shape'
      BY <1>1, <2>1, SameBuild DEF IInv, Shape
    <2>3. ThisAdapter.adapter \in Driven /\ ThisAdapter.role \in BusRole
      <3>1. build.support \subseteq Driven
        BY BuildAssumption DEF IInv, Shape, BuildAssumption, Build
      <3>2. options[i].adapter \in build.support /\ options[i].role = ThisAdapter.role
            /\ ThisAdapter.adapter = options[i].adapter
        BY <1>2, <1>5 DEF Adapter
      <3> QED
        BY <1>2, <3>1, <3>2 DEF adapters_parse, buspirate_parse, lxi_parse, Driven
    <2>4. i \in DOMAIN adapters
      BY <1>2, LenProperties
    <2>5. EarlyExitClean'
      BY <1>1, <2>3, <2>4 DEF EarlyExitClean, HasDriver, ThisAdapter
    <2>6. Phase'
      BY <2>1, <2>5 DEF Phase
    <2>7. SlotPhase' /\ LinePhase'
      BY <2>1 DEF SlotPhase, LinePhase
    <2> QED
      BY <1>3, <2>2, <2>6, <2>7 DEF IInv
  <1> QED
    BY <1>4, <1>5

LEMMA InitApiStep == IInv /\ InitApi => IInv'
  <1> SUFFICES ASSUME IInv, InitApi PROVE IInv'
    OBVIOUS
  <1>1. /\ pc = "api"
        /\ UNCHANGED <<build, options, adapters, driver, mode, config>>
    BY DEF InitApi, input, bpVars
  <1>2. /\ i <= Len(adapters) /\ Brought(i - 1) /\ status = "running" /\ buspirate_init(build)
        /\ (driver[i] = "live" /\ HasDriver(adapters[i])) \/ adapters[i].adapter = "invalid"
        /\ Len(adapters) = Len(options)
    BY <1>1 DEF IInv, Phase
  <1>3. /\ i \in 1..Len(adapters) /\ Len(driver) = Len(adapters) /\ Len(adapters) \in Nat
        /\ Len(options) <= MaxOptions /\ MaxOptions \in Nat
    BY <1>2, ThisTyped, OptionAssumption DEF IInv, Shape, OptionAssumption
  <1>4. CASE ~Accepted(ThisAdapter)
    BY <1>1, <1>4, EndsQuietly DEF InitApi, Abort, Exit, input, bpVars
  <1>5. CASE Accepted(ThisAdapter)
    <2>1. /\ slot' = [slot EXCEPT ![SlotOf(ThisAdapter)] = i]
          /\ NextElement(adapters, "init", "work") /\ status' = status
      BY <1>5 DEF InitApi
    <2>2. /\ i < Len(adapters) => pc' = "init" /\ i' = i + 1
          /\ i = Len(adapters) => pc' = "work" /\ i' = 1
      BY <1>3, <2>1 DEF NextElement
    <2>3. pc' \in {"init", "work"} /\ i' \in 1..MaxOptions + 1
          /\ (pc' = "init" => i' - 1 = i /\ i' <= Len(adapters)) /\ (pc' = "work" => Len(adapters) = i)
      BY <1>2, <1>3, <2>2
    <2>4. driver[i] = "live" /\ HasDriver(ThisAdapter)
      BY <1>2, <1>5 DEF Accepted, Driven, ThisAdapter
    <2>5. SlotOf(ThisAdapter) \in Slots
      BY <1>5, <2>4, SlotInSlots DEF IInv
    <2>6. slot \in [Slots -> NULL..MaxOptions] /\ i \in NULL..MaxOptions
      BY <1>2, <1>3 DEF IInv, Shape, NULL
    <2>7. /\ slot' \in [Slots -> NULL..MaxOptions] /\ slot'[SlotOf(ThisAdapter)] = i
          /\ \A s \in Slots : s # SlotOf(ThisAdapter) => slot'[s] = slot[s]
      BY <2>1, <2>5, <2>6
    <2>8. Shape'
      BY <1>1, <2>1, <2>3, <2>7, SameBuild DEF IInv, Shape
    <2>9. Made'
      BY <1>1, MadeKept DEF IInv, input
    <2>10. \A k \in 1..i : k \in 1..(i - 1) \/ k = i
      BY <1>3
    <2>11. Brought(i)
      BY <1>2, <1>5, <2>4, <2>10 DEF Brought, ThisAdapter
    <2>12. pc' = "init" => Brought(i - 1)'
      BY <1>1, <2>3, <2>11 DEF Brought, HasDriver, Accepted
    <2>13. pc' = "work" => Brought(Len(adapters))'
      BY <1>1, <2>3, <2>11 DEF Brought, HasDriver, Accepted
    <2>14. Phase'
      <3>1. adapters # <<>>
        BY <1>3
      <3> QED
        BY <1>1, <1>2, <2>1, <2>3, <2>12, <2>13, <3>1 DEF Phase, EarlyExitClean
    <2>15. ASSUME NEW s \in Slots
           PROVE  \/ slot'[s] = NoDriver /\ \A k \in 1..i : SlotOf(adapters[k]) # s
                  \/ /\ slot'[s] \in 1..i /\ SlotOf(adapters[slot'[s]]) = s
                     /\ \A k \in 1..i : k > slot'[s] => SlotOf(adapters[k]) # s
      <3>1. SlotIs(s, i - 1)
        BY <1>1 DEF IInv, SlotPhase
      <3>2. CASE s = SlotOf(ThisAdapter)
        <4>1. slot'[s] = i
          BY <2>7, <3>2
        <4>2. i \in 1..i /\ \A k \in 1..i : ~(k > i)
          BY <1>3
        <4> QED
          BY <3>2, <4>1, <4>2 DEF ThisAdapter
      <3>3. CASE s # SlotOf(ThisAdapter)
        <4>1. slot'[s] = slot[s] /\ SlotOf(adapters[i]) # s
          BY <2>7, <3>3 DEF ThisAdapter
        <4>2. CASE slot[s] = NoDriver /\ \A k \in 1..(i - 1) : SlotOf(adapters[k]) # s
          BY <2>10, <4>1, <4>2
        <4>3. CASE /\ slot[s] \in 1..(i - 1) /\ SlotOf(adapters[slot[s]]) = s
                   /\ \A k \in 1..(i - 1) : k > slot[s] => SlotOf(adapters[k]) # s
          <5>1. slot[s] \in 1..i
            BY <1>3, <4>3
          <5>2. \A k \in 1..i : k > slot[s] => SlotOf(adapters[k]) # s
            BY <2>10, <4>1, <4>3
          <5> QED
            BY <4>1, <4>3, <5>1, <5>2
        <4> QED
          BY <3>1, <4>2, <4>3 DEF SlotIs
      <3> QED
        BY <3>2, <3>3
    <2>16. SlotPhase'
      <3>1. pc' = "init" => \A s \in Slots : SlotIs(s, i - 1)'
        BY <1>1, <2>3, <2>15 DEF SlotIs, SlotOf
      <3>2. pc' = "work" => \A s \in Slots : SlotIs(s, Len(adapters))'
        BY <1>1, <2>3, <2>15 DEF SlotIs, SlotOf
      <3> QED
        BY <2>3, <3>1, <3>2 DEF SlotPhase
    <2>17. LinePhase'
      <3>1. LinesUp(i)
        BY <1>1 DEF IInv, LinePhase
      <3>2. pc' = "init" => LinesUp(i - 1)'
        BY <1>1, <2>3, <3>1 DEF LinesUp, OneRolePerFile, ConfigOf
      <3>3. pc' = "work" => LinesUp(Len(adapters))'
        BY <1>1, <2>3, <3>1 DEF LinesUp, OneRolePerFile, ConfigOf
      <3> QED
        BY <1>2, <2>1, <2>3, <3>2, <3>3 DEF LinePhase
    <2> QED
      BY <2>8, <2>9, <2>14, <2>16, <2>17 DEF IInv
  <1> QED
    BY <1>4, <1>5

LEMMA WorkbenchReturnsStep == IInv /\ WorkbenchReturns => IInv'
  <1> SUFFICES ASSUME IInv, WorkbenchReturns PROVE IInv'
    OBVIOUS
  <1>1. pc = "work" /\ UNCHANGED <<build, options, adapters, driver, slot, mode, config>>
    BY DEF WorkbenchReturns, input, bpVars
  <1>2. /\ Brought(Len(adapters)) /\ status = "running" /\ Len(adapters) = Len(options)
        /\ adapters \in Seq(AdapterSet) /\ Len(driver) = Len(adapters) /\ MaxOptions \in Nat
    BY <1>1, OptionAssumption DEF IInv, Phase, Shape, OptionAssumption
  <1>3. Made'
    BY <1>1, MadeKept DEF IInv, input
  <1>4. CASE adapters = <<>>
    <2>1. pc' = "exit" /\ status' = "exit 0" /\ i' = i /\ Len(adapters) = 0
      BY <1>4 DEF WorkbenchReturns, Exit
    <2>2. Shape'
      BY <1>1, <2>1, SameBuild DEF IInv, Shape
    <2>3. 1..Len(adapters') = {}
      <3>1. Len(adapters') = 0
        BY <1>1, <2>1
      <3> QED
        BY <3>1
    <2>4. Phase'
      BY <2>1, <2>3 DEF Phase, EarlyExitClean
    <2>5. SlotPhase' /\ LinePhase'
      BY <2>1, <2>3 DEF SlotPhase, LinePhase, LinesDown
    <2> QED
      BY <1>3, <2>2, <2>4, <2>5 DEF IInv
  <1>5. CASE adapters # <<>>
    <2>1. pc' = "deinit" /\ i' = 1 /\ status' = status
      BY <1>5 DEF WorkbenchReturns
    <2>2. 1 <= Len(adapters) /\ 1 \in 1..MaxOptions + 1
      BY <1>2, <1>5, EmptySeq
    <2>3. Shape'
      BY <1>1, <2>1, <2>2, SameBuild DEF IInv, Shape
    <2>4. \A k \in 1..Len(adapters) : driver'[k] = IF k < 1 THEN "freed" ELSE "live"
      BY <1>1, <1>2 DEF Brought
    <2>5. Phase'
      BY <1>1, <1>2, <2>1, <2>2, <2>4 DEF Phase, EarlyExitClean
    <2>6. SlotPhase' /\ LinePhase'
      BY <1>1, <1>2, <2>1 DEF SlotPhase, LinePhase, LinesDown
    <2> QED
      BY <1>3, <2>3, <2>5, <2>6 DEF IInv
  <1> QED
    BY <1>4, <1>5

LEMMA DeinitStep == IInv /\ Deinit => IInv'
  <1> SUFFICES ASSUME IInv, Deinit PROVE IInv'
    OBVIOUS
  <1>1. /\ pc = "deinit" /\ driver' = [driver EXCEPT ![i] = "freed"]
        /\ SetMode("console") /\ SetConfig(Unconfigured)
        /\ UNCHANGED <<build, options, adapters, slot>>
    BY DEF Deinit, input
  <1>2. /\ i <= Len(adapters) /\ status = "running" /\ Len(adapters) = Len(options)
        /\ \A k \in 1..Len(adapters) : driver[k] = IF k < i THEN "freed" ELSE "live"
    BY <1>1 DEF IInv, Phase
  <1>3. /\ i \in 1..Len(adapters) /\ Len(driver) = Len(adapters) /\ Len(adapters) \in Nat
        /\ Len(options) <= MaxOptions /\ MaxOptions \in Nat /\ driver \in Seq(DriverState)
    BY <1>2, ThisTyped, OptionAssumption DEF IInv, Shape, OptionAssumption
  <1>4. \/ i < Len(adapters) /\ pc' = "deinit" /\ i' = i + 1 /\ status' = "running"
        \/ i = Len(adapters) /\ pc' = "exit" /\ i' = i /\ status' = "exit 0"
    <2>1. i < Len(adapters) => pc' = pc /\ i' = i + 1 /\ status' = status
      BY DEF Deinit
    <2>2. ~(i < Len(adapters)) => pc' = "exit" /\ i' = i /\ status' = "exit 0"
      BY DEF Deinit, Exit
    <2>3. i < Len(adapters) \/ i = Len(adapters)
      BY <1>3
    <2>4. i = Len(adapters) => ~(i < Len(adapters))
      BY <1>3
    <2> QED
      BY <1>1, <1>2, <2>1, <2>2, <2>3, <2>4
  <1>5. "console" \in AnyMode
    BY DEF AnyMode
  <1>6. /\ mode' \in [BpFile -> AnyMode] /\ config' = [f \in BpFile |-> config'[f]]
        /\ ThisAdapter.adapter = "bp" => mode'[ThisAdapter.file] = "console"
        /\ \A f \in BpFile : f # ThisAdapter.file \/ ThisAdapter.adapter # "bp" => mode'[f] = mode[f]
    BY <1>1, <1>2, <1>5, LinesTyped DEF IInv
  <1>7. /\ driver' \in Seq(DriverState) /\ Len(driver') = Len(driver) /\ driver'[i] = "freed"
        /\ \A k \in 1..Len(driver) : k # i => driver'[k] = driver[k]
    BY <1>1, <1>3, ExceptSeq DEF DriverState
  <1>8. i' \in 1..MaxOptions + 1
    <2>1. i' = i \/ i' = i + 1
      BY <1>4
    <2> QED
      BY <1>2, <1>3, <2>1
  <1>9. Shape'
    BY <1>1, <1>4, <1>6, <1>7, <1>8, SameBuild DEF IInv, Shape
  <1>10. Made'
    BY <1>1, MadeKept DEF IInv, input
  <1>11. \A k \in 1..Len(adapters) : driver'[k] = IF k < i + 1 THEN "freed" ELSE "live"
    <2> SUFFICES ASSUME NEW k \in 1..Len(adapters)
                 PROVE  driver'[k] = IF k < i + 1 THEN "freed" ELSE "live"
      OBVIOUS
    <2>1. CASE k = i
      BY <1>3, <1>7, <2>1
    <2>2. CASE k # i
      <3>1. driver'[k] = driver[k] /\ (k < i <=> k < i + 1)
        BY <1>3, <1>7, <2>2
      <3> QED
        BY <1>2, <3>1
    <2> QED
      BY <2>1, <2>2
  <1>12. i = Len(adapters) => \A k \in 1..Len(adapters) : driver'[k] = "freed"
    BY <1>3, <1>11
  <1>13. Phase'
    <2>1. CASE pc' = "deinit"
      <3>1. i' = i + 1 /\ i' <= Len(adapters) /\ status' = "running"
        BY <1>3, <1>4, <2>1
      <3> QED
        BY <1>1, <1>2, <1>11, <2>1, <3>1 DEF Phase, EarlyExitClean
    <2>2. CASE pc' = "exit"
      <3>1. status' = "exit 0" /\ i = Len(adapters)
        BY <1>4, <2>2
      <3> QED
        BY <1>1, <1>12, <2>2, <3>1 DEF Phase, EarlyExitClean
    <2> QED
      BY <1>4, <2>1, <2>2
  <1>14. SlotPhase'
    BY <1>4 DEF SlotPhase
  <1>15. ASSUME NEW k \in 1..i, adapters[k].adapter = "bp"
         PROVE  mode'[adapters[k].file] = "console"
    <2>1. k \in 1..Len(adapters) /\ (k = i \/ k \in 1..(i - 1))
      BY <1>3
    <2>2. adapters[k].file \in BpFile
      BY <1>15, <2>1, FileOfBp DEF IInv
    <2>3. CASE k = i
      BY <1>6, <1>15, <2>3 DEF ThisAdapter
    <2>4. CASE k # i
      <3>1. mode[adapters[k].file] = "console"
        BY <1>1, <1>15, <2>1, <2>4 DEF IInv, LinePhase, LinesDown
      <3> QED
        BY <1>6, <2>2, <3>1
    <2> QED
      BY <2>3, <2>4
  <1>16. LinePhase'
    <2>1. CASE pc' = "deinit"
      <3>1. i' - 1 = i /\ status' = "running"
        BY <1>3, <1>4, <2>1
      <3> QED
        BY <1>1, <1>15, <2>1, <3>1 DEF LinePhase, LinesDown
    <2>2. CASE pc' = "exit"
      <3>1. Len(adapters) = i
        BY <1>4, <2>2
      <3> QED
        BY <1>1, <1>15, <2>2, <3>1 DEF LinePhase, LinesDown
    <2> QED
      BY <1>4, <2>1, <2>2
  <1> QED
    BY <1>9, <1>10, <1>13, <1>14, <1>16 DEF IInv

LEMMA DeinitFailsStep == IInv /\ DeinitFails => IInv'
  <1> SUFFICES ASSUME IInv, DeinitFails PROVE IInv'
    OBVIOUS
  <1>1. pc = "deinit" /\ pc' = "exit" /\ status' = "aborted"
        /\ UNCHANGED <<input, i, adapters, driver, slot>>
    BY DEF DeinitFails, Abort, Exit
  <1>2. i <= Len(adapters)
    BY <1>1 DEF IInv, Phase
  <1> QED
    BY <1>1, <1>2, EndsHalfway, EndsQuietly DEF DeinitFails

\* The calls of the workbench end the process or leave the registry as it was.
LEMMA CallStep ==
  IInv /\ (WorkbenchEnds \/ CallAborts \/ CallCrashes \/ SettingCalled) => IInv'
  BY EndsQuietly DEF WorkbenchEnds, CallAborts, CallCrashes, SettingCalled, Abort, Exit

LEMMA StutterStep == IInv /\ UNCHANGED vars => IInv'
  <1> SUFFICES ASSUME IInv, UNCHANGED vars PROVE IInv'
    OBVIOUS
  <1>1. UNCHANGED <<input, build, options, pc, i, status, adapters, driver, slot, mode, config>>
    BY DEF vars, input, progress, bpVars
  <1>2. Shape'
    BY <1>1, SameBuild DEF IInv, Shape
  <1>3. Made'
    BY <1>1, MadeKept DEF IInv
  <1>4. Phase'
    <2>1. (Brought(i - 1) => Brought(i - 1)') /\ (Brought(Len(adapters)) => Brought(Len(adapters))')
      BY <1>1 DEF Brought, HasDriver, Accepted
    <2>2. EarlyExitClean => EarlyExitClean'
      BY <1>1 DEF EarlyExitClean, HasDriver
    <2> QED
      BY <1>1, <2>1, <2>2 DEF IInv, Phase, HasDriver
  <1>5. SlotPhase'
    BY <1>1 DEF IInv, SlotPhase, SlotIs, SlotOf
  <1>6. LinePhase'
    BY <1>1 DEF IInv, LinePhase, LinesUp, LinesDown, OneRolePerFile, ConfigOf
  <1> QED
    BY <1>2, <1>3, <1>4, <1>5, <1>6 DEF IInv

LEMMA IInvKept == IInv /\ [WorkbenchNext]_vars => IInv'
  BY ConstructorsStep, ParseStep, ParseNothingStep, InitNothingStep, InitDriverStep, InitFailsStep,
     InitWithoutStep, InitApiStep, WorkbenchReturnsStep, DeinitStep, DeinitFailsStep, CallStep,
     StutterStep DEF WorkbenchNext, Next, CallReturns, Ended

THEOREM InvariantHolds == WorkbenchSpec => []IInv
  BY InitIInv, IInvKept, PTL DEF WorkbenchSpec
-----------------------------------------------------------------------------
(* The properties *)

\* Types, for any options, builds and number of slots.
THEOREM TypesHold == WorkbenchSpec => []TypeOK
  <1>1. ASSUME IInv PROVE TypeOK
    <2>1. adapters \in Seq(AdapterSet) /\ driver \in Seq(DriverState) /\ Len(driver) = Len(adapters)
      BY <1>1 DEF IInv, Shape
    <2>2. DOMAIN driver = 1..Len(adapters) /\ DOMAIN adapters = 1..Len(adapters)
      BY <2>1, LenProperties
    <2>3. \A a \in DOMAIN driver : driver[a] \in {"none", "live", "freed"}
      BY <2>1, <2>2 DEF DriverState
    <2>4. DOMAIN config = BpFile
      BY <1>1 DEF IInv, Shape
    <2> QED
      BY <1>1, <2>2, <2>3, <2>4 DEF IInv, Shape, TypeOK
  <1> QED
    BY <1>1, InvariantHolds, PTL

\* The workbench runs only with a live driver for every option, and deinit
\* finds each of them live.
THEOREM NothingIsMissing == WorkbenchSpec => []NothingMissing
  <1>1. ASSUME IInv PROVE NothingMissing
    <2>1. DOMAIN driver = 1..Len(adapters)
      BY <1>1, LenProperties DEF IInv, Shape
    <2>2. pc = "deinit" => driver[i] = "live"
      <3> SUFFICES ASSUME pc = "deinit" PROVE driver[i] = "live"
        OBVIOUS
      <3>1. i <= Len(adapters) /\ \A k \in 1..Len(adapters) : driver[k] = IF k < i THEN "freed" ELSE "live"
        BY <1>1 DEF IInv, Phase
      <3>2. i \in 1..Len(adapters) /\ ~(i < i)
        BY <1>1, <3>1, ThisTyped DEF IInv
      <3> QED
        BY <3>1, <3>2
    <2> QED
      BY <1>1, <2>1, <2>2 DEF IInv, Phase, Brought, NothingMissing
  <1> QED
    BY <1>1, InvariantHolds, PTL

\* Where no two options name the same file, each Bus Pirate has the settings
\* asked for, if the bit-fields are in order or the self-test is built in.
THEOREM SettingsArrive == WorkbenchSpec => []ConfiguredAsAsked
  <1>1. ASSUME IInv PROVE ConfiguredAsAsked
    <2> SUFFICES ASSUME OneRolePerFile, pc = "work", build.ENABLE_BITFIELD_TEST \/ InOrder(build),
                        NEW a \in DOMAIN adapters, adapters[a].adapter = "bp"
                 PROVE  IF adapters[a].role = "SPI"
                          THEN Agrees(config[adapters[a].file], bp_dflt_config_SPI)
                          ELSE Agrees(config[adapters[a].file], bp_dflt_config_I2C)
      BY DEF ConfiguredAsAsked
    <2>1. a \in 1..Len(adapters)
      BY <1>1, LenProperties DEF IInv, Shape
    <2>2. HasDriver(adapters[a]) /\ buspirate_init(build)
      BY <1>1, <2>1 DEF IInv, Phase, Brought
    <2>3. config[adapters[a].file] = ConfigOf(adapters[a].role)
      BY <1>1, <2>1 DEF IInv, LinePhase, LinesUp
    <2>4. build \in Build /\ adapters[a].role \in BusRole /\ <<"bp", adapters[a].role>> \in build.drivers
      BY <1>1, <2>2, DriverRole, BuildAssumption DEF IInv, Shape, BuildAssumption, HasDriver
    <2>5. InOrder(build)
      BY <2>2, <2>4, TestFindsOrder
    <2>6. bp_dflt_config_SPI \in config_SPI /\ bp_dflt_config_I2C \in config_I2C
      BY BuildAssumption DEF BuildAssumption
    <2> QED
      BY <2>3, <2>4, <2>5, <2>6, SpiArrives, I2cArrives DEF ConfigOf
  <1> QED
    BY <1>1, InvariantHolds, PTL

\* After a normal end every driver is freed and every Bus Pirate at its console.
THEOREM ExitIsClean == WorkbenchSpec => []CleanExit
  <1>1. ASSUME IInv PROVE CleanExit
    <2>1. DOMAIN adapters = 1..Len(adapters) /\ DOMAIN driver = 1..Len(adapters)
      BY <1>1, LenProperties DEF IInv, Shape
    <2> QED
      BY <1>1, <2>1 DEF IInv, Phase, LinePhase, LinesDown, CleanExit
  <1> QED
    BY <1>1, InvariantHolds, PTL

\* An exit with status 1 leaves no adapter behind in its mode, unless an option
\* asks for a role the build has left out.
THEOREM EarlyExitIsClean == WorkbenchSpec => []EarlyExitClean
  <1>1. ASSUME IInv PROVE EarlyExitClean
    BY <1>1 DEF IInv, Phase
  <1> QED
    BY <1>1, InvariantHolds, PTL

\* atoi keeps an index that fits into an int, and makes none that could name a
\* slot of another where a long is as short as an int.
LEMMA AtoiKeeps ==
  ASSUME NEW n \in Nat, build \in Build, n < INT_RANGE \div 2 \/ build.pointer = 4,
         NEW m \in 1..MAX_ADAPTERS
  PROVE  atoi(n) = m <=> n = m
  <1>1. PICK h \in Nat : INT_RANGE = 2 * h /\ INT_RANGE \div 2 = h /\ h > MAX_ADAPTERS + 1
    <2>1. INT_RANGE \in Nat /\ INT_RANGE % 2 = 0 /\ INT_RANGE \div 2 > MAX_ADAPTERS + 1
      BY BuildAssumption DEF BuildAssumption
    <2>2. INT_RANGE \div 2 \in Nat /\ INT_RANGE = 2 * (INT_RANGE \div 2)
      BY <2>1
    <2> QED
      BY <2>1, <2>2
  <1>2. MAX_ADAPTERS \in Nat
    BY OptionAssumption DEF OptionAssumption
  <1>3. CASE n < h
    <2>1. n <= LONG_MAX /\ LONG_MAX \in Int
      <3>1. CASE build.pointer = 8
        <4>1. LONG_MAX = ((2 * h) * (2 * h)) \div 2 - 1
          BY <1>1, <3>1 DEF LONG_MAX
        <4>2. (2 * h) * (2 * h) = 2 * (2 * (h * h)) /\ h * h \in Nat
          OBVIOUS
        <4>3. \A k \in Nat : (2 * (2 * k)) \div 2 = 2 * k
          OBVIOUS
        <4>4. LONG_MAX = 2 * (h * h) - 1
          BY <4>1, <4>2, <4>3
        <4>5. h * h >= h
          OBVIOUS
        <4> QED
          BY <1>3, <4>2, <4>4, <4>5
      <3>2. CASE build.pointer # 8
        BY <1>1, <1>3, <3>2 DEF LONG_MAX
      <3> QED
        BY <3>1, <3>2
    <2>2. n % (2 * h) = n
      BY <1>3
    <2>3. ~(n > LONG_MAX)
      BY <2>1
    <2> QED
      BY <1>1, <1>3, <2>2, <2>3 DEF atoi
  <1>4. CASE ~(n < h)
    <2>1. build.pointer = 4
      BY <1>1, <1>4
    <2>2. LONG_MAX = h - 1
      BY <1>1, <2>1 DEF LONG_MAX
    <2>3. n > LONG_MAX /\ (h - 1) % (2 * h) = h - 1 /\ h - 1 < h
      BY <1>1, <1>2, <1>4, <2>2
    <2>4. atoi(n) = h - 1
      BY <1>1, <2>2, <2>3 DEF atoi
    <2> QED
      BY <1>1, <1>2, <1>4, <2>4
  <1> QED
    BY <1>3, <1>4

\* While the workbench runs each slot is the driver of the last option given
\* for its role and index, where the indices fit or long is as short as int.
THEOREM SlotsDoAgree == WorkbenchSpec => []SlotsAgree
  <1>1. ASSUME IInv PROVE SlotsAgree
    <2> SUFFICES ASSUME IndicesFit \/ build.pointer = 4, pc = "work", NEW s \in Slots
                 PROVE  slot[s] = LastGiven(s)
      BY DEF SlotsAgree
    <2>1. /\ Len(adapters) = Len(options) /\ options \in Seq(Options) /\ Len(options) \in Nat
          /\ build \in Build /\ SlotIs(s, Len(adapters))
      BY <1>1, BuildAssumption DEF IInv, Shape, Phase, SlotPhase, BuildAssumption
    <2>2. DOMAIN options = 1..Len(options)
      BY <2>1, LenProperties
    <2>3. ASSUME NEW k \in 1..Len(options)
          PROVE  SlotOf(adapters[k]) = s <=> <<options[k].role, options[k].index>> = s
      <3>1. adapters[k] = Adapter(options[k]) /\ options[k] \in Options
        BY <1>1, <2>1, <2>3 DEF IInv, Made
      <3>2. options[k].index \in Nat
        BY <3>1, OptionAssumption DEF OptionAssumption, Option
      <3>3. options[k].index < INT_RANGE \div 2 \/ build.pointer = 4
        BY <2>2, <2>3 DEF IndicesFit
      <3>4. PICK r \in BusRole, m \in 1..MAX_ADAPTERS : s = <<r, m>>
        BY DEF Slots
      <3>5. atoi(options[k].index) = m <=> options[k].index = m
        BY <2>1, <3>2, <3>3, AtoiKeeps
      <3>6. SlotOf(adapters[k]) = <<options[k].role, atoi(options[k].index)>>
        BY <3>1 DEF SlotOf, Adapter
      <3> QED
        BY <3>4, <3>5, <3>6
    <2>4. Given(s) = {k \in 1..Len(options) : SlotOf(adapters[k]) = s}
      BY <2>2, <2>3 DEF Given
    <2>5. CASE slot[s] = NoDriver /\ \A k \in 1..Len(adapters) : SlotOf(adapters[k]) # s
      BY <2>1, <2>4, <2>5 DEF LastGiven
    <2>6. CASE /\ slot[s] \in 1..Len(adapters) /\ SlotOf(adapters[slot[s]]) = s
               /\ \A k \in 1..Len(adapters) : k > slot[s] => SlotOf(adapters[k]) # s
      <3>1. slot[s] \in Given(s) /\ Given(s) \subseteq Nat
        BY <2>1, <2>4, <2>6
      <3>2. \A p \in Given(s) : p <= slot[s]
        BY <2>1, <2>4, <2>6
      <3> DEFINE o == CHOOSE o \in Given(s) : \A p \in Given(s) : p <= o
      <3>3. o \in Given(s) /\ \A p \in Given(s) : p <= o
        BY <3>1, <3>2
      <3>4. o = slot[s]
        <4> HIDE DEF o
        <4>1. o <= slot[s] /\ slot[s] <= o /\ o \in Nat /\ slot[s] \in Nat
          BY <3>1, <3>2, <3>3
        <4> QED
          BY <4>1
      <3> QED
        BY <3>1, <3>4 DEF LastGiven
    <2> QED
      BY <2>1, <2>5, <2>6 DEF SlotIs
  <1> QED
    BY <1>1, InvariantHolds, PTL
-----------------------------------------------------------------------------
(* The calls of the workbench *)

\* A call whose methods all work returns.
LEMMA AllWork ==
  ASSUME NEW d, NEW methods, \A n \in DOMAIN methods : Works(d, methods[n])
  PROVE  Outcome(d, methods) = "returns"
  BY DEF Outcome

\* The drivers are told apart by their role, or by a method only one has.
LEMMA DriversDiffer ==
  /\ bpspi_driver \notin {lxispi_driver, lxii2c_driver, bpi2c_driver} \cup Stubs
  /\ bpi2c_driver \notin {lxispi_driver, lxii2c_driver} \cup Stubs
  /\ lxii2c_driver \notin {lxispi_driver} \cup Stubs
  /\ nodriverAPI_spi \notin {lxispi_driver, lxii2c_driver, bpi2c_driver}
  <1>1. bpspi_driver.role = "SPI" /\ lxispi_driver.role = "SPI" /\ nodriverAPI_spi.role = "SPI"
        /\ bpi2c_driver.role = "I2C" /\ lxii2c_driver.role = "I2C" /\ nodriverAPI_i2c.role = "I2C"
    BY DEF bpspi_driver, lxispi_driver, nodriverAPI_spi, bpi2c_driver, lxii2c_driver, nodriverAPI_i2c, Driver
  <1>2. "newddata" \in bpspi_driver.methods /\ "newddata" \in bpi2c_driver.methods
        /\ "newddata" \notin nodriverAPI_spi.methods /\ "newddata" \notin nodriverAPI_i2c.methods
        /\ "newddata" \in lxii2c_driver.methods /\ "newddata" \notin lxispi_driver.methods
    BY DEF bpspi_driver, lxispi_driver, nodriverAPI_spi, bpi2c_driver, lxii2c_driver, nodriverAPI_i2c,
           Driver, driverAPI_spi, driverAPI_i2c, driverAPI_any
  <1>3. "getStatus" \in bpi2c_driver.methods /\ "getStatus" \notin lxii2c_driver.methods
        /\ "getStatus" \in nodriverAPI_spi.methods /\ "getStatus" \notin lxispi_driver.methods
    BY DEF lxispi_driver, nodriverAPI_spi, bpi2c_driver, lxii2c_driver,
           Driver, driverAPI_spi, driverAPI_i2c, driverAPI_any
  <1> QED
    BY <1>1, <1>2, <1>3, Zenon DEF Stubs

\* The methods an SPI call makes, but for i2c-dev's driver, all work.
LEMMA SpiCallReturns ==
  ASSUME NEW d \in {bpspi_driver, nodriverAPI_spi}, NEW f \in DOMAIN spi_api
  PROVE  Outcome(d, spi_api[f]) = "returns"
  <1> DEFINE M == {"sendData", "receiveData", "getStatus", "sendrecieveData", "sendrecieveData_ncs", "setCS"}
  <1>1. \E m \in M : spi_api[f] = <<m>>
    BY DEF spi_api
  <1>2. M \subseteq d.methods
    BY DEF bpspi_driver, nodriverAPI_spi, Driver, driverAPI_spi, driverAPI_any
  <1>3. d \notin {lxispi_driver, lxii2c_driver, bpi2c_driver}
    BY DriversDiffer
  <1>4. \A m \in M : Works(d, m)
    BY <1>2, <1>3 DEF Works, Unwritten
  <1> HIDE DEF M
  <1>5. \A n \in DOMAIN spi_api[f] : spi_api[f][n] \in M
    BY <1>1
  <1> QED
    BY <1>4, <1>5, AllWork

\* The STM32 library's I2C calls make no method call.
LEMMA I2cCallReturns ==
  ASSUME NEW d, NEW f \in DOMAIN i2c_api
  PROVE  Outcome(d, i2c_api[f]) = "returns"
  <1>1. i2c_api[f] = <<>>
    BY DEF i2c_api
  <1>2. DOMAIN i2c_api[f] = {}
    BY <1>1
  <1> QED
    BY <1>2, AllWork

\* ehwe.c finds every method it calls in both I2C drivers.
LEMMA EhweCallReturns ==
  ASSUME NEW d \in {bpi2c_driver, lxii2c_driver}, NEW pointer, pointer = 8 \/ d = bpi2c_driver,
         NEW f \in DOMAIN ehwe_api
  PROVE  EhweOutcome(d, pointer, ehwe_api[f]) = "returns"
  <1> DEFINE M == {"start", "sendByte", "sendData", "receiveData", "stop"}
  <1>1. \A n \in DOMAIN ehwe_api[f] : ehwe_api[f][n] \in M
    <2>1. \E m \in {"sendData", "receiveData"} : ehwe_api[f] = <<"start", "sendByte", m, "stop">>
      BY DEF ehwe_api
    <2> QED
      BY <2>1
  <1>2. M \subseteq d.methods
    BY DEF bpi2c_driver, lxii2c_driver, Driver, driverAPI_i2c, driverAPI_any
  <1>3. d # lxispi_driver /\ d \notin Stubs /\ bpi2c_driver # lxii2c_driver
    BY DriversDiffer
  <1>4. \A m \in M : Works(d, m)
    BY <1>2, <1>3 DEF Works, Unwritten
  <1> HIDE DEF M
  <1>5. Outcome(d, ehwe_api[f]) = "returns"
    BY <1>1, <1>4, AllWork
  <1>6. FindsDriver(d, pointer)
    BY <1>3 DEF FindsDriver
  <1> QED
    BY <1>5, <1>6 DEF EhweOutcome

\* A loop that polls a flag ends.
LEMMA FlagsEnd ==
  ASSUME NEW d \in {bpspi_driver, nodriverAPI_spi}
  PROVE  /\ \A flag \in {SPI_I2S_FLAG_TXE, SPI_I2S_FLAG_RXNE} : SPI_I2S_GetFlagStatus(d, flag) # RESET
         /\ SPI_I2S_GetFlagStatus(d, SPI_I2S_FLAG_BSY) # SET
  BY DEF SPI_I2S_GetFlagStatus, SPI_I2S_FLAG_TXE, SPI_I2S_FLAG_RXNE, SPI_I2S_FLAG_BSY, RESET, SET,
         bpspi_getStatus, nod_getStatus

\* The three tables of calls have no name in common.
LEMMA CallsDiffer ==
  /\ DOMAIN i2c_api \cap DOMAIN spi_api = {}
  /\ DOMAIN ehwe_api \cap (DOMAIN spi_api \cup DOMAIN i2c_api) = {}
  BY DEF spi_api, i2c_api, ehwe_api

\* While the workbench runs, what is behind a slot is a driver of its role.
LEMMA DriverBehind ==
  ASSUME IInv, pc = "work", NEW s \in Slots
  PROVE  /\ s \in SpiSlots => DriverAt(s) \in {bpspi_driver, lxispi_driver, nodriverAPI_spi}
         /\ s \in I2cSlots /\ slot[s] # NoDriver => DriverAt(s) \in {bpi2c_driver, lxii2c_driver}
  <1>1. PICK r \in BusRole, m \in 1..MAX_ADAPTERS : s = <<r, m>>
    BY DEF Slots
  <1>2. CASE slot[s] = NoDriver
    BY <1>2 DEF DriverAt, DriverOf, SpiSlots, I2cSlots
  <1>3. CASE slot[s] # NoDriver
    <2>1. slot[s] \in 1..Len(adapters) /\ SlotOf(adapters[slot[s]]) = s
      BY <1>3 DEF IInv, SlotPhase, SlotIs
    <2>2. HasDriver(adapters[slot[s]])
      BY <2>1 DEF IInv, Phase, Brought
    <2>3. adapters[slot[s]].adapter \in {"bp", "lxi"} /\ adapters[slot[s]].role = r
      BY <1>1, <2>1, <2>2, DriverRole DEF IInv, SlotOf, Driven
    <2>4. r \in {"SPI", "I2C"} /\ (s \in SpiSlots <=> r = "SPI") /\ (s \in I2cSlots <=> r # "SPI")
      BY <1>1 DEF BusRole, SpiSlots, I2cSlots
    <2> QED
      BY <1>3, <2>3, <2>4 DEF DriverAt, DriverOf
  <1> QED
    BY <1>2, <1>3

\* While the workbench runs its calls are served, on any slot and in any build.
THEOREM CallsAreServed == WorkbenchSpec => []CallsServed
  <1>1. ASSUME IInv PROVE CallsServed
    <2> SUFFICES ASSUME pc = "work"
                 PROVE  /\ \A s \in SpiSlots : Wip(s) \/
                             /\ \A f \in DOMAIN spi_api : CallOutcome(s, f) = "returns"
                             /\ \A flag \in {SPI_I2S_FLAG_TXE, SPI_I2S_FLAG_RXNE} :
                                  SPI_I2S_GetFlagStatus(DriverAt(s), flag) # RESET
                             /\ SPI_I2S_GetFlagStatus(DriverAt(s), SPI_I2S_FLAG_BSY) # SET
                        /\ \A s \in I2cSlots : \A f \in DOMAIN i2c_api : CallOutcome(s, f) = "returns"
                        /\ \A s \in I2cSlots : \A f \in DOMAIN ehwe_api :
                             slot[s] # NoDriver /\ (build.pointer = 8 \/ DriverAt(s) = bpi2c_driver)
                               => CallOutcome(s, f) = "returns"
      BY DEF CallsServed
    <2>1. SpiSlots \subseteq Slots /\ I2cSlots \subseteq Slots
      BY DEF SpiSlots, I2cSlots
    <2>2. ASSUME NEW s \in SpiSlots, ~Wip(s)
          PROVE  /\ \A f \in DOMAIN spi_api : CallOutcome(s, f) = "returns"
                 /\ \A flag \in {SPI_I2S_FLAG_TXE, SPI_I2S_FLAG_RXNE} :
                      SPI_I2S_GetFlagStatus(DriverAt(s), flag) # RESET
                 /\ SPI_I2S_GetFlagStatus(DriverAt(s), SPI_I2S_FLAG_BSY) # SET
      <3>1. DriverAt(s) \in {bpspi_driver, nodriverAPI_spi}
        BY <1>1, <2>1, <2>2, DriverBehind DEF Wip
      <3>2. \A f \in DOMAIN spi_api : CallOutcome(s, f) = "returns"
        BY <3>1, CallsDiffer, SpiCallReturns DEF CallOutcome
      <3> QED
        BY <3>1, <3>2, FlagsEnd
    <2>3. ASSUME NEW s \in I2cSlots, NEW f \in DOMAIN i2c_api
          PROVE  CallOutcome(s, f) = "returns"
      <3>1. f \notin DOMAIN spi_api /\ f \notin DOMAIN ehwe_api
        BY CallsDiffer
      <3> QED
        BY <3>1, I2cCallReturns DEF CallOutcome
    <2>4. ASSUME NEW s \in I2cSlots, NEW f \in DOMAIN ehwe_api, slot[s] # NoDriver,
                 build.pointer = 8 \/ DriverAt(s) = bpi2c_driver
          PROVE  CallOutcome(s, f) = "returns"
      <3>1. f \notin DOMAIN spi_api /\ f \notin DOMAIN i2c_api
        BY CallsDiffer
      <3>2. DriverAt(s) \in {bpi2c_driver, lxii2c_driver}
        BY <1>1, <2>1, <2>4, DriverBehind
      <3>3. EhweOutcome(DriverAt(s), build.pointer, ehwe_api[f]) = "returns"
        BY <2>4, <3>2, EhweCallReturns
      <3> QED
        BY <3>1, <3>3 DEF CallOutcome
    <2> QED
      BY <2>2, <2>3, <2>4
  <1> QED
    BY <1>1, InvariantHolds, PTL
=============================================================================
