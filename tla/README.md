# EHWE in TLA+

EHWE (Embedded HW Emulator) lets embedded code that talks to SPI and I2C devices
run as a Linux process. This directory models its core logic in TLA+, checks
the models with TLC and proves the main results with TLAPS. All source paths
are relative to the root of the repository, whose code is in `src/`.

## The system

| Component | State | Operations | What makes it correct |
|---|---|---|---|
| Options: `opts.c` | counters, the -d options | parse, daemon, check | the documented rules; one process goes on |
| Process lifecycle: `main.c`, `adapters/adapters.c`, `apis/apis.c` | list of adapters, iteration | constructors, parse, init, init_api, workbench, deinit, exit | all adapters up or no workbench; all down after a normal end |
| STM32 API: `apis/stm32.c` | slots `SPI_stm32_drv`, `I2C_stm32_drv` | `stm32_init_api`, calls forwarded to a driver | a slot is the driver asked for, alive, and has what is called |
| I2C calls: `apis/ehwe.c` | none | `i2c_write`, `i2c_read`: START, address, data, STOP | each driver sees the sequence it relies on |
| I2C device API: `apis/ehwe_i2c_device.c` | handles | open, close, register reads and writes | an access is atomic on its own device |
| i2c-dev driver: `adapters/lxi/i2c_driver.c` | `func_0`, two messages, `outbuf`, `inbuf` | configure, start, sendByte, sendData, receiveData, stop | what the kernel is given is what was called for; no bad memory |
| Bus Pirate I2C: `adapters/buspirate/i2c_driver.c` | serial line, `autoAck` | the same | host and adapter in step; ACK discipline |
| Bus Pirate modes: `adapters/buspirate/modechange.c`, `buspirate.c` | `ddata->state`, the adapter's mode | `rawMode_enter`, `rawMode_toMode`, init, deinit | host and adapter agree on the mode; it ends |
| Bus Pirate SPI: `adapters/buspirate/spi_driver.c` | serial line, CS | transfers, setCS, configure | host and adapter in step |
| Bus Pirate configuration: `adapters/buspirate/local.h`, `buspirate.c` | one-byte structs of bit-fields | configure, the self-test of `buspirate_init` | the adapter takes the settings that were meant |
| i2c-dev SPI: `adapters/lxi/spi_driver.c` | - | unfinished methods | a call on it ends in a known way |
| paraport, HIF, raw drivers | - | stubs, or not in the tree | - |
| liblog, mlist, mtime, stermio, `src/embedded` | submodules, not in the tree | - | external |

Components interact by calls only. The program has one thread, so a call runs
to its end; what it meets on the way is concurrent: the adapter's firmware
behind a serial line (late answers, answers in parts, hang-ups), the kernel, and
the device. State is kept between calls in the driver's `ddata`, which is where
sequences of legal calls can go wrong: the i2c-dev driver has to infer from the
last function called what the next byte means. `ASSERT`, `ASSURE` and `assert`
end the process; `ASSURE_E` logs and goes on, and most I/O errors end there.

The hard behaviours, each with its line and its properties, are the `hazards`
of `PROJECT.json`. The main ones: long sequences of calls against the i2c-dev
driver's hidden state; pointers kept across calls; retries of mode commands
against a slow adapter; bytes left on the line; adapters left in binary mode by
an earlier program; end-of-file on a dead line; partial failure of start-up.

## The modules

| Module | Models |
|---|---|
| `I2CBus` | Abstract: what `i2c_write`/`i2c_read` and a driver promise. Calls add messages to a session, and STOP puts the session on the wire, complete and in order; a read's bytes reach its caller. A process that ends in a failure may leave a part of the session on the wire. `MayCut` lets a write end early, as the Bus Pirate's does behind a NACK. |
| `EhweI2c` | `ehwe.c`: the driver methods each call enters, in order. A driver module extends it and makes each method one action. |
| `I2CMessages` | The messages of a transaction, and what has been on the bus of one that failed (`Begun`). |
| `LxiI2c` | The i2c-dev driver, the heap it uses, `ioctl`. Implements `I2CBus`. |
| `LxiI2cProofs` | Its theorems. |
| `BpI2c` | The Bus Pirate I2C driver over the serial line. Implements `I2CBus`. |
| `BpI2cProofs` | Its theorems. |
| `BpMode` | Mode changes of the Bus Pirate, host and adapter as two processes. |
| `BpModeProofs` | Its theorems. |
| `BpSpi` | The Bus Pirate SPI driver under the SPI calls of `stm32.c`; host, adapter and line as separate processes. |
| `BpSpiProofs` | Its theorems. |
| `RegisterFile` | Abstract: registers that are read and written atomically. |
| `I2cDevice` | The device API on `EhweI2c`, `LxiI2c` and the kernel. Implements `RegisterFile`. |
| `I2cDeviceProofs` | Its theorems; extends `LxiI2cProofs`. |
| `Opts` | The command line as `getopt_long` hands it to `opts.c`, the two forks of a daemon as processes, `opts_check`. |
| `OptsProofs` | Its theorems. |
| `BpConfig` | What a build supports; the bytes of a configuration in builds with their bit-fields either way round, the self-test, and what the adapter takes. |
| `BpConfigProofs` | Its theorems. |
| `Drivers` | The method tables of all drivers with their missing and unfinished entries, the methods each API call makes, how a call ends. |
| `Lifecycle` | From the constructors to the exit; extends `BpConfig`. A mode change is one step here. |
| `Workbench` | `Lifecycle` while the workbench calls the API through `Drivers`, on any slot. |
| `LifecycleProofs` | Theorems about `Workbench`. |
| `MCLxiI2c`, `MCBpI2c`, `MCBpSpi`, `MCI2cDevice`, `MCLifecycle` | The instances TLC checks. |

Variables have the names of the code's fields where there is one (`func` is
`func_0`, `outMsg` and `inMsg` are `msg[OUT_MSG]` and `msg[IN_MSG]`); `op` and
`call` are the program counter of `ehwe.c`. One action is one driver method, or
one turn of its loop where a failure can fall between two turns (`BpI2c`), or
one step between two points where the adapter can act (`BpMode`). Assertions
that fail on the caller's or the driver's account set `status` to "rejected",
those that fail on the device's or kernel's account to "failed"; the code ends
the process for both. "crashed" is a memset of negative size (`CallCrashes`).
In `BpI2c` the firmware answers each command before the
next one, because the driver blocks for the answer; in `BpMode`, where the line
is non-blocking, it acts on its own, and so it does in `BpSpi`, where what has
arrived decides how much a read of several bytes returns. `done`, `sent` and `skew`
there are history: what the adapter did for the call, and whether the host has
left bytes behind.

Operators named as mutants in a comment are slips the code could have had. They
take no part in a specification; each property is refuted when its mutant is
put in the place of the definition it varies.

## The runs

| Run | Shows | Bounds |
|---|---|---|
| `lxi_calls` | Types, the heap, memory given to the kernel, the inductive invariant; refused calls are exactly the unsupported ones; calls end | Addresses 0, 127 and 128, writes of 0, 1 and 3 bytes with and without STOP, and without a buffer, reads of 0, 1 and 3 bytes, 2 buffers, 2 heap blocks (one live and one replaced); `U16` is 2, so that transfers of 3 bytes are cut |
| `lxi_bus` | `I2CBus` implemented, if held writes carry data and transfers fit a message | the same with one assertable address less, and no transfer cut |
| `lxi_empty_write` | a write of no bytes is refused: `ehwe.c` provides for it | violation |
| `bp_i2c` | ACK discipline, writes cut only behind NACKs, every answer read, `I2CBus` implemented | sessions of 2 messages, 2 bytes a message, device bytes 0 and 1, which look like answers, late bytes that do (up to four of them) and do not |
| `bp_mode` | mode agreement, a clean line, success of a timely adapter, termination | 3 zeros, 2, 3 and 3 tries in the place of 20, 22, 25 and 10 |
| `bp_mode_hangup` | `empty_inbuff` never ends on a dead line | violation |
| `bp_spi` | until a read is short, host and adapter are in step, no answer is mistaken for another and every call has its own answer; calls end even out of step | transfers of 0 to 2 bytes and one refused, sizes -1 and -4 (with `U16` 5: more than the adapter takes, and one byte), debug and release builds, CS levels 1, 2 and 256, device bytes 1 and 2, late bytes 0 and 1, no call with more than 1 byte or command left over |
| `bp_spi_short` | a read returns fewer bytes than asked for | violation |
| `i2c_device` | the device API is a register file; only a bad address is refused | 2 handles reopened at will, 2 devices of 2 registers, bytes 0 and 1, numbers of 16 bits, accesses that fail half way |
| `opts` | no word of the line is lost, used twice or put in another order; options pass exactly as `opts.h` has them; of a daemon's processes one goes on; all settle | lines of 0 to 5 words, two words that are no options |
| `opts_operands` | a word before `--` reaches the workbench | violation |
| `lifecycle` | slots, completeness, settings on the adapters, calls of the API served, clean exits | 0 to 3 options out of 10, 5 builds (one without i2c-dev), 2 slots a role, an int of 3 bits |

The lengths of I2C calls are taken not to be negative (`Requests`); those of SPI
transfers may be. `U16` is 2^16 in the program; TLC takes it small where
a transfer must be able to pass it, and the theorems hold for any.

Sequences of calls are not bounded: the drivers' state is finite, so TLC reaches
all of it, and a session of the i2c-dev driver never holds more than one message. Byte
strings of three lengths tell all lengths apart that the code does (none, one,
more). The tries of `BpMode` keep the order of the code's limits: NZEROS_RAW zeros
are what the console needs, and a short reply is given up before any other.

An int of three bits makes the option with index 9 a small number where a long is
wider than an int, and one too large for the slots where it is not. Three options
are enough for two on one slot and a third between. Five words of a command line
leave room for an option with its argument on both sides of an operand or of `--`.

The last step of an ended process is a stutter (`Ended`), so deadlock is checked
everywhere.

Fairness. `LxiI2c` assumes weak fairness of the driver's methods: a thread in a
call runs on. Nothing makes the caller call again. `BpMode` assumes it of the
host, of the adapter and of the line, and so does `BpSpi` (of the host's reads: a
call is made when the program makes it), but not of `Deinit` (the workbench may run
for ever) nor of a hang-up. `Opts` assumes that the parser and each process of a
daemon run on, as processes do; `Settles` needs no more. `Ends` is conditional on the line staying up, and
`bp_mode_hangup` shows that the condition is needed.

Disagreements found between source and comments are in `findings`: the refused
empty write, the unbounded loop on a dead line, the single read of the SPI driver,
and the operands that pass as the workbench's when there is a `--` behind them.
Three more need no run to be seen:

- A transfer of `i2c_write` or `i2c_read` longer than 65535 bytes is cut to what 16
  bits keep of its length (`i2c_driver.c:177`, `206`, `233`: an `int` goes to the
  `__u16` of `struct i2c_msg`), and returns as a success. `KernelMemory` shows that
  memory is safe all the same; `Fits` is the condition of `ImplementsBus`.
- "Epilogue: Reset state" (`i2c_driver.c:112`) clears `msg[OUT_MSG]` only. The read
  message keeps the pointer to a buffer whose call has returned; `KernelMemory`
  shows that no later transaction uses it.
- A mandatory option with `precisely` should be "seen exactly <req> (i.e. minimum)
  times" (`opts.h:65`), but `opts_check` compares the count with -1
  (`opts.c:243`) and refuses every line. No option in the program's table has that
  rule: `RulesAsDocumented` holds of that table, and with `Rules` a table that has
  one it does not. `NonePrecisely` is the condition of `RulesHold`.

## The theorems

Proved for all constants that satisfy the named assumptions of the modules, thus
for any requests, addresses, lengths, buffers and heap, any number of tries, any
handles, devices and registers, any options and builds, any command line. Every
invariant and every action property of a passing run, and the three refinements,
are theorems:

| Module | Theorems | Assumptions |
|---|---|---|
| `LxiI2cProofs` | `Invariance`, `TypeCorrect`, `HeapSafe`, `KernelMemorySafe`; `RejectsJustly` and `CompletesJustly` (together: a call ends refused if and only if the driver does not support it where it came); `Refinement`: it implements `I2CBus`, if held writes carry data (`NonEmptyHolds`) and no transfer is longer than `len` can say (`Fits`) | `LengthAssumption` (of `U16`), `DataAssumption`, `RequestsAssumption`, `NoOpAssumption` (calls are calls of `ehwe.c`), `PointerAssumption` |
| `I2cDeviceProofs` | `AccessesSupported`, `NothingHeld`; `ImplementsRegisters`: it implements `RegisterFile` | those, `DeviceAssumption` (registers and counts are bytes, widths 1, 2 or 4; `U16` is more than 256, so no access is cut), `CallsAssumption` (the calls of the accesses are among the requests) |
| `BpI2cProofs` | `TypeCorrect`, `AcksRight`, `CutJustly`, `AnswersRead`; `Refinement`: it implements `I2CBus` with `MayCut`. All under `HarmlessBytes` | those of `ehwe.c`, `AdapterAssumption`, `ReadsAssumption` (a buffer takes what the device sends) |
| `BpModeProofs` | `Types`, `Agreement`, `TimelyInSync`, `TimelySuccess` | `TriesAssumption` (the order of the limits, all at least one) |
| `BpSpiProofs` | `TypeCorrect`, `StaysInStep`, `NoFalseAlarm`, `ReturnsOwnAnswer` | `RequestsAssumption`, `NoOpAssumption`, `DeviceAssumption`, `StaleAssumption`, `SizeAssumption` (the limit is below `U16`) |
| `BpConfigProofs` | `SpiArrives`, `I2cArrives`, `TestFindsOrder` | - |
| `LifecycleProofs` | of `WorkbenchSpec`: `TypesHold`, `SlotsDoAgree`, `NothingIsMissing`, `SettingsArrive`, `ExitIsClean`, `EarlyExitIsClean`, `CallsAreServed` | `OptionAssumption`, `BuildAssumption` |
| `OptsProofs` | `TypeCorrect`, `WordsKept`, `OneDoesGoOn`; `RulesHold`, for tables without a mandatory `precisely` (`NonePrecisely`), the program's among them (`OwnTable`) | `TextAssumption`, `RulesAssumption` |

None of the properties is inductive. Each proof has an invariant that is, one
lemma per action, and the theorems at its end.

`LxiI2c` (`IInv`). That the memory given to the kernel is alive depends on what earlier
calls left behind. `IInv` adds, for each point a call can be at, what the driver has
collected: between calls there is no session, or an address byte alone (a held
write of no bytes), or a held write; after START a pending address has been carried
to the read message; before STOP the messages are those of the call in progress.
`OutMsgOfOutbuf` ties the message to the heap: an address in it means a live
`outbuf`, which it describes: `len` is what 16 bits keep of the block's length, never
more than it. TLC checks `IInv` in `lxi_calls`. `Refinement` maps
`session` to the held message (`Session`) and each action to a step or a stutter of
the bus; a failing `ioctl` to the bus's failure, with what it has sent.

`I2cDevice` (`DInv`). The steps of the driver keep `IInv`, so little is added: which of
the two calls of a read the access is in (`Phases`), and that the driver holds the
register number between them and nothing otherwise (`Kept`). That is why none of
its restrictions is ever met: a held write carries one byte, and a read follows
one. For the refinement `Filed` has the registers. The device's answer (`Loaded`) and
what it stores (`Stores`) are recursive functions over the bytes of a message;
`RegisterFile` says the same in closed form. The two agree by an induction over the
bytes, which the prover has no rule for: it is done through the pigeonhole theorem
of the library (`Induction`: a set with 0 and all successors that missed a number
would map its members below that number one to one on fewer).

`BpI2c` (`Whole`). While the line is up and clean, host and adapter are in step (`InStep`):
it is empty between two methods, and in the loops of sendData and receiveData the
bytes out or in so far, and their ACKs, are as many as the loop index. `Followed`
holds also on a line that has died, where the driver goes on with what its buffer
holds: the message on the bus is still one the call may leave there, and of a
living one the caller's buffer has what the bus has (`Filled`). With late bytes the
driver is out of step from the start (`Late`), and what it takes for an answer is
always a late byte, of which as many remain. It then gets as far as the first
address, unless the late bytes are the acknowledgements and the ACK it is waiting
for. `HarmlessBytes` excludes just that, strings that begin with 1, 1, 1, 1, 0: with
such a one TLC refutes `CutOnlyAtNack`, `AnswersConsumed` and `ImplementsBus`. The late
bytes of a mode change are pieces of "BBIO1", "I2C1" and "SPI1", which do not.

`BpMode` (`IInv`). Commands and replies keep their order, and everything rests on that: a
reply the host can read says what the adapter has done with all that was written
before it. `Entering` has it for the zeros: once any reply has come the adapter is
in binary mode. `Moving` has it for a command: what is under way are retries for the
mode before, then those for the mode asked for, and no reply for the mode asked
for next can be on the line yet, so an old answer is never taken for a new one.
`Timely` counts zeros, commands and bytes of an adapter that answers in time: the
first write of a command has its answer at the first read, hence nothing is left.

`BpSpi`. The invariant says where the one command and its answer are: after the
call is entered with the adapter, or carried out, and then what is on the line and
what the adapter has yet to send are together the acknowledgement and the
device's bytes (`AtAck`), or the bytes alone (`AtData`). Three lemmas about
concatenation carry it over a delivery, the read of an acknowledgement and a read
that is not short.

`Lifecycle`. The invariant says how far each phase has come: each adapter is that
of its option (`Made`); in init the adapters before `i` are live and accepted, in
deinit they are freed and the others live (`Phase`); a slot is the last of the
adapters brought up that asks for it (`SlotPhase`); and the Bus Pirates brought up
so far have their settings, those brought down are at their console (`LinePhase`). `SettingsArrive`
then rests on `TestFindsOrder`, for a tested build, and on `SpiArrives` and `I2cArrives`;
`SlotsDoAgree` on what `atoi` makes of an index (`AtoiKeeps`); `CallsAreServed` on the
driver behind a slot having the slot's role, and on the tables: every method a call
makes of such a driver works.

`Opts`. The processes of a daemon are born one after the other, each by one that does
nothing more but exit, and whoever goes on has passed the check with counters
nobody changes any more (`Born`). Of the words passed the scan keeps which the
options have taken and where each moved operand came from, in order (`Scanned`);
`RestRight` carries that over to the workbench's arguments at the end of the line.

Only model-checked is what the prover cannot do, the properties under fairness:
`CallEnds` of two drivers, `Ends` and `Settles`; and the four runs that
show a violation.

## External parts

`Ioctl`, `Outgoing`, `Incoming`, `Replies` and `Transactions` (kernel: a transaction is
carried out as given, as many bytes of each message as its `len` says), `Begun` and
`Cut` (or fails at any byte, and the process ends), `Answers`, `Consume`, `Deliver` and `HangUp` (serial line), `Becomes`, `OnBus`
and `Adapter` (Bus Pirate firmware, as the driver's expected replies describe it),
the `Bus...` operators (I2C bus), `Stores` and `Carried` (an I2C device with
registers, as the comments of `ehwe_i2c_device.c` describe it), `NextElement`
(mlist's ITERATE), `TakenSpi`, `TakenI2c` and `WithPereph` (what the firmware makes of a byte of
configuration), `AtWord`, `Pass` and `MoveOperand` (`getopt_long`, which moves operands
behind the options).

## Not modelled, and the plan

Left out for good: paraport and HIF (stubs, or not in the tree; what becomes of an
option that names them is in `Lifecycle`), the raw drivers (files without code),
the submodules, help texts and documentation, the log level, the
regular expressions beyond what they accept, terminal settings, logging, failing
`malloc`, structure layout but for the place of `driver` in `ddata` (`FindsDriver`)
and the bit-fields. One hazard has no property: see its `note`.

Done: `I2CBus`, `EhweI2c`, `LxiI2c`, `BpI2c`, `BpMode`, `RegisterFile`, `I2cDevice`,
`BpSpi`, `Opts`, `BpConfig`, `Drivers`, `Lifecycle` and `Workbench`, each with its
proofs.

Next, most important first:

1. `I2cDevice` on `BpI2c`: the device API against `I2CBus` alone, so that one proof
   serves both drivers;
2. `Lifecycle` with the mode changes of `BpMode` in the place of its single steps,
   `Agreement` being what justifies these.
