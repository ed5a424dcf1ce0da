------------------------------- MODULE BpMode -------------------------------
(***************************************************************************)
(* How the Bus Pirate is brought into binary mode, into the mode of its    *)
(* role, and back to its console: buspirate_init_adapter and               *)
(* buspirate_deinit_adapter of src/adapters/buspirate/buspirate.c with     *)
(* rawMode_enter and rawMode_toMode of modechange.c.  The line is          *)
(* non-blocking here: the host writes a command byte, sleeps, reads what   *)
(* has arrived, and tries again when that is not the expected reply.       *)
(* Replies are kept as two fragments, so that one may arrive in part.      *)
(* The adapter starts in any mode: an earlier program may have ended       *)
(* without resetting it.                                                   *)
(***************************************************************************)
EXTENDS Integers, Sequences, SequencesExt

CONSTANTS
  Roles,            \* the modes asked for: a subset of {"SPI", "I2C"}
  NZEROS_RAW,       \* zeros written unheard, and zeros the console needs
  SHORT_TRIES,      \* 22: tries after which a short reply is an error
  RAW_TRIES,        \* 25: tries after which rawMode_enter gives up
  STATE_RETRIES     \* 10: tries of rawMode_toMode

ASSUME TriesAssumption ==
  /\ Roles \subseteq {"SPI", "I2C"}
  /\ {NZEROS_RAW, SHORT_TRIES, RAW_TRIES, STATE_RETRIES} \subseteq Nat \ {0}
  /\ SHORT_TRIES < RAW_TRIES /\ NZEROS_RAW <= RAW_TRIES /\ STATE_RETRIES <= RAW_TRIES

VARIABLES
  pc,       \* where the host is
  role,     \* the adapter's role
  goal,     \* the mode asked for
  tries,    \* writes of the current loop
  state,    \* ddata->state: the mode last agreed on
  mode,     \* the adapter's mode
  zeros,    \* zeros its console has counted
  cmds,     \* command bytes on their way to the adapter
  out,      \* fragments of replies on their way to the host
  line,     \* fragments the host can read
  stray,    \* a mode command was carried out on the device's bus instead
  late,     \* the adapter may take longer than the host sleeps
  link,     \* "up" or "down"
  spin      \* flips with every turn of empty_inbuff that read end-of-file

hostVars == <<pc, role, goal, tries, state, spin>>
deviceVars == <<mode, zeros, stray>>
vars == <<hostVars, deviceVars, cmds, out, line, late, link>>

Mode == {"console", "BBIO", "SPI", "I2C"}

\* bpcmd_raw_t and cmdrply.
Command(m) == CASE m = "BBIO" -> 0 [] m = "SPI" -> 1 [] m = "I2C" -> 2 [] m = "console" -> 15
ExpectedReply(m) ==
  CASE m = "BBIO" -> <<"BB", "IO1">> [] m = "SPI" -> <<"SP", "I1">>
    [] m = "I2C" -> <<"I2", "C1">>   [] m = "console" -> <<"\\1">>

Init ==
  /\ pc = "open" /\ role \in Roles /\ goal = "BBIO" /\ tries = 0
  /\ state = "none" /\ spin = FALSE
  /\ mode \in Mode /\ zeros = 0 /\ stray = FALSE
  /\ cmds = <<>> /\ out = <<>> /\ line \in {<<>>, <<"IO1">>}
  /\ late \in BOOLEAN /\ link = "up"
-----------------------------------------------------------------------------
(* The adapter and the line (external). *)

Becomes(m) == mode' = m /\ zeros' = 0 /\ out' = out \o ExpectedReply(m) /\ UNCHANGED stray

\* Any other command of SPI and I2C mode acts on the bus: 2 is a START
\* (CMD_START_BIT of i2c_driver.c) or a chip select.
OnBus == stray' = TRUE /\ out' = Append(out, "\\1") /\ UNCHANGED <<mode, zeros>>

Adapter ==
  /\ link = "up" /\ cmds # <<>>
  /\ cmds' = Tail(cmds)
  /\ LET c == Head(cmds) IN
       CASE mode = "console" /\ c = 0 /\ zeros + 1 = NZEROS_RAW -> Becomes("BBIO")
         [] mode = "console" /\ c = 0 /\ zeros + 1 < NZEROS_RAW ->
              zeros' = zeros + 1 /\ UNCHANGED <<mode, out, stray>>
         [] mode = "console" /\ c # 0 -> UNCHANGED <<mode, zeros, out, stray>>
         [] mode # "console" /\ c = 0 -> Becomes("BBIO")
         [] mode = "BBIO" /\ c = 1 -> Becomes("SPI")
         [] mode = "BBIO" /\ c = 2 -> Becomes("I2C")
         [] mode = "BBIO" /\ c = 15 -> Becomes("console")
         [] mode \in {"SPI", "I2C"} /\ c = 1 -> Becomes(mode)
         [] OTHER -> OnBus
  /\ UNCHANGED <<hostVars, line, late, link>>

Deliver ==
  /\ link = "up" /\ out # <<>>
  /\ line' = Append(line, Head(out)) /\ out' = Tail(out)
  /\ UNCHANGED <<hostVars, deviceVars, cmds, late, link>>

HangUp ==
  /\ link = "up" /\ pc \notin {"closed", "failed"}
  /\ link' = "down" /\ cmds' = <<>> /\ out' = <<>> /\ line' = <<>>
  /\ UNCHANGED <<hostVars, deviceVars, late>>
-----------------------------------------------------------------------------
(* The host. *)

\* A usleep has passed: an adapter that is not late has answered everything.
Slept == late \/ (cmds = <<>> /\ out = <<>>)

\* write of one command byte; on a dead line it fails, which is only logged.
Write(c) == cmds' = IF link = "up" THEN Append(cmds, c) ELSE cmds

At(p) == pc = p
Goto(p) == pc' = p

\* Mutant: the flush reads nothing.
EmptyInbuffNot(p) == Goto(p) /\ UNCHANGED <<line, spin>>

\* empty_inbuff, on the way to p: reads single bytes until there is none.
\* End-of-file counts as a byte, so on a dead line the loop goes on.
EmptyInbuff(p) ==
  IF link = "up"
    THEN line' = <<>> /\ Goto(p) /\ UNCHANGED spin
    ELSE spin' = ~spin /\ UNCHANGED <<pc, line>>

\* read_2err into a buffer as long as the expected reply.
FragmentsShort(m) == Len(ExpectedReply(m)) - 1   \* mutant: off by one
Fragments(m) == Len(ExpectedReply(m))
Read2Err(m) == SubSeq(line, 1, IF Len(line) < Fragments(m) THEN Len(line) ELSE Fragments(m))
Unread(m) == SubSeq(line, Len(Read2Err(m)) + 1, Len(line))

\* Mutant: any reply of the expected length will do.
MatchesLength(m) == {link = "up" /\ Len(Read2Err(m)) = Fragments(m)}

\* Whether the reply is whole and the expected one.  On a dead line read_2err
\* hands back the length asked for, all of it one byte that was never read.
Matches(m) == IF link = "up" THEN {Read2Err(m) = ExpectedReply(m)}
                             ELSE {FALSE, Len(ExpectedReply(m)) = 1}
ShortReply(m) == link = "up" /\ Len(Read2Err(m)) < Fragments(m)

\* buspirate_init_adapter up to the call of rawMode_enter: a line that is
\* gone cannot be opened, and nothing is put right after an error.
Open ==
  /\ At("open")
  /\ IF link = "up" THEN line' = <<>> /\ Goto("zeros")
                    ELSE UNCHANGED line /\ Goto("failed")
  /\ UNCHANGED <<role, goal, tries, state, spin, deviceVars, cmds, out, late, link>>

\* rawMode_enter: the zeros written unheard.
WriteZeros ==
  /\ At("zeros") /\ Slept
  /\ Write(0)
  /\ IF tries + 1 = NZEROS_RAW THEN tries' = 0 /\ Goto("rawWrite")
                               ELSE tries' = tries + 1 /\ UNCHANGED pc
  /\ UNCHANGED <<role, goal, state, spin, deviceVars, out, line, late, link>>

RawWrite ==
  /\ At("rawWrite")
  /\ Write(0) /\ tries' = tries + 1 /\ Goto("rawRead")
  /\ UNCHANGED <<role, goal, state, spin, deviceVars, out, line, late, link>>

\* The reply is read; a short one is an error after SHORT_TRIES, and any one
\* after RAW_TRIES.
RawRead ==
  /\ At("rawRead") /\ Slept
  /\ line' = Unread("BBIO")
  /\ Goto(IF tries > (IF ShortReply("BBIO") THEN SHORT_TRIES ELSE RAW_TRIES) THEN "failed"
            ELSE IF Matches("BBIO") = {TRUE} THEN "rawDone"
            ELSE "rawAgain")
  /\ UNCHANGED <<role, goal, tries, state, spin, deviceVars, cmds, out, late, link>>

\* Mutant: the host polls for the reply without writing again.
RawAgainPolls ==
  /\ At("rawAgain") /\ Slept /\ EmptyInbuff("rawRead")
  /\ UNCHANGED <<role, goal, tries, state, deviceVars, cmds, out, late, link>>

RawAgain ==
  /\ At("rawAgain") /\ Slept /\ EmptyInbuff("rawWrite")
  /\ UNCHANGED <<role, goal, tries, state, deviceVars, cmds, out, late, link>>

\* The loop ends with a last flush, and rawMode_toMode is called for the role.
RawDone ==
  /\ At("rawDone") /\ Slept /\ EmptyInbuff("toMode")
  /\ IF link = "up" THEN state' = "BBIO" /\ goal' = role /\ tries' = 0
                    ELSE UNCHANGED <<state, goal, tries>>
  /\ UNCHANGED <<role, deviceVars, cmds, out, late, link>>

\* rawMode_toMode: the flush before its loop, one write, one read.
ToMode ==
  /\ At("toMode") /\ Slept /\ EmptyInbuff("toWrite")
  /\ UNCHANGED <<role, goal, tries, state, deviceVars, cmds, out, late, link>>

ToWrite ==
  /\ At("toWrite")
  /\ Write(Command(goal)) /\ Goto("toRead")
  /\ UNCHANGED <<role, goal, tries, state, spin, deviceVars, out, line, late, link>>

ToRead ==
  /\ At("toRead") /\ Slept
  /\ line' = Unread(goal)
  /\ \E match \in Matches(goal) :
       IF match THEN state' = goal /\ Goto("toOk")
                ELSE UNCHANGED state /\ Goto("toRetry")
  /\ UNCHANGED <<role, goal, tries, spin, deviceVars, cmds, out, late, link>>

\* Mutant: no limit on the retries.
ToRetryForever ==
  /\ At("toRetry") /\ Slept /\ EmptyInbuff("toWrite")
  /\ tries' = IF link = "up" THEN tries + 1 ELSE tries
  /\ UNCHANGED <<role, goal, state, deviceVars, cmds, out, late, link>>

ToRetry ==
  /\ At("toRetry") /\ Slept
  /\ EmptyInbuff(IF tries + 1 = STATE_RETRIES THEN "failed" ELSE "toWrite")
  /\ tries' = IF link = "up" THEN tries + 1 ELSE tries
  /\ UNCHANGED <<role, goal, state, deviceVars, cmds, out, late, link>>

\* The flush after success and the return to buspirate_init_adapter, which
\* reopens the line, or to buspirate_deinit_adapter, which goes on to the
\* console and then frees the adapter.
ToOk ==
  /\ At("toOk")
  /\ EmptyInbuff(CASE goal = role -> "reopen" [] goal = "BBIO" -> "toMode"
                   [] goal = "console" -> "closed")
  /\ IF link = "up" /\ goal = "BBIO" THEN goal' = "console" /\ tries' = 0
                                     ELSE UNCHANGED <<goal, tries>>
  /\ UNCHANGED <<role, state, deviceVars, cmds, out, late, link>>

Reopen ==
  /\ At("reopen")
  /\ Goto(IF link = "up" THEN "inUse" ELSE "failed")
  /\ UNCHANGED <<role, goal, tries, state, spin, deviceVars, cmds, out, line, late, link>>

\* buspirate_deinit_adapter up to its first rawMode_toMode.
Deinit ==
  /\ At("inUse")
  /\ goal' = "BBIO" /\ tries' = 0
  /\ IF link = "up" THEN line' = <<>> /\ Goto("toMode")
                    ELSE UNCHANGED line /\ Goto("failed")
  /\ UNCHANGED <<role, state, spin, deviceVars, cmds, out, late, link>>
-----------------------------------------------------------------------------
Host ==
  \/ Open \/ WriteZeros \/ RawWrite \/ RawRead \/ RawAgain \/ RawDone
  \/ ToMode \/ ToWrite \/ ToRead \/ ToRetry \/ ToOk \/ Reopen

Ended == pc \in {"closed", "failed"} /\ UNCHANGED vars

Next == Host \/ Deinit \/ Adapter \/ Deliver \/ HangUp \/ Ended

\* The host runs on, the adapter answers, the line delivers.  Nothing makes
\* the program return from embedded_main, nor the line hang up.
Spec == Init /\ [][Next]_vars /\ WF_vars(Host) /\ WF_vars(Adapter) /\ WF_vars(Deliver)
-----------------------------------------------------------------------------
(* Properties *)

TypeOK ==
  /\ pc \in {"open", "zeros", "rawWrite", "rawRead", "rawAgain", "rawDone", "toMode",
            "toWrite", "toRead", "toRetry", "toOk", "reopen", "inUse", "closed", "failed"}
  /\ role \in Roles /\ goal \in Mode
  /\ tries \in 0..RAW_TRIES + 1
  /\ state \in Mode \cup {"none"} /\ mode \in Mode /\ zeros \in 0..NZEROS_RAW - 1
  /\ cmds \in Seq({0, 1, 2, 15})
  /\ stray \in BOOLEAN /\ late \in BOOLEAN /\ spin \in BOOLEAN /\ link \in {"up", "down"}

\* ddata->state is the adapter's mode whenever the program uses the adapter or
\* has let go of it, however late its answers were and however many retries of
\* the host are still on their way: they repeat a command the mode ignores or
\* answers, and never the one that leaves it.
ModeAgreement ==
  link = "up" /\ pc \in {"inUse", "closed"} =>
    /\ state = mode
    /\ state = IF pc = "inUse" THEN role ELSE "console"

\* An adapter that answers within the sleeps is handed to its driver with
\* nothing left on the line that the driver would take for its own answers,
\* and without a retried ENTER_I2C having acted as a START on the bus.
InSync ==
  link = "up" /\ ~late =>
    /\ ~stray
    /\ pc \in {"reopen", "inUse", "closed"} => cmds \o out \o line = <<>>

\* Such an adapter is always brought up and down, whatever mode an earlier
\* program left it in and whatever was on the line.
TimelySucceeds == pc = "failed" => late \/ link = "down"

\* Bringing the adapter up or down comes to an end while the line lives.
Ends == [](link = "up") => []<>(pc \in {"inUse", "closed", "failed"})

\* modechange.c:209 "loop up to 25 more times": the loop is bounded, so it
\* ends on a dead line as well.
EndsOnDeadLine == []<>(pc \in {"inUse", "closed", "failed"})
=============================================================================
