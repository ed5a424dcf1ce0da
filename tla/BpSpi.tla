-------------------------------- MODULE BpSpi -------------------------------
(***************************************************************************)
(* The SPI driver for the Bus Pirate, src/adapters/buspirate/spi_driver.c, *)
(* under the SPI calls of stm32.c, which each make one driver call.  The   *)
(* driver writes a command, reads the adapter's acknowledgement and, in a  *)
(* transfer, reads what the device sent with a single read.  The adapter   *)
(* answers byte by byte meanwhile, so that read returns what has arrived:  *)
(* what comes later stays on the line.  The line may hang up; then writes  *)
(* and reads do nothing, which the driver logs (ASSURE_E) and ignores.     *)
(* A negative number of bytes to receive passes the driver's assertion; a  *)
(* negative number to send does not, and is left out.                      *)
(***************************************************************************)
EXTENDS Integers, Sequences

CONSTANTS
  Requests,    \* the driver calls the program above makes
  DeviceByte,  \* the bytes the SPI device sends
  StaleBytes,  \* what may be on the line when the driver starts
  SizeLimit,   \* 4096 in the code
  U16,         \* 2^16: sizes are sent as a uint16_t
  NoOp,        \* no driver call in progress
  MaxLine      \* bound: no call while more than that is left over

Byte == 0..255

\* A driver call: the bytes of outbuf (of setCS, its argument) and the number
\* of bytes to receive.
Command(cmd, out, in) == [cmd |-> cmd, out |-> out, in |-> in]

Transfers == [cmd : {"CMD_WR_RD", "CMD_WR_RD_NOCS"}, out : Seq(Byte), in : Int]
SetCSs == [cmd : {"CMD_CS"}, out : [1..1 -> Int], in : {0}]
ConfigOrder == <<"SPEED", "BUS", "PEREPH">>
Configs == [cmd : {"SPEED", "BUS", "PEREPH"}, out : {<<>>}, in : {0}]

ASSUME RequestsAssumption == Requests \subseteq Transfers \cup SetCSs
ASSUME NoOpAssumption == NoOp \notin Transfers \cup SetCSs \cup Configs
ASSUME DeviceAssumption == DeviceByte \subseteq Byte /\ DeviceByte # {}
ASSUME StaleAssumption == StaleBytes \subseteq Seq(Byte)
ASSUME SizeAssumption == SizeLimit \in Nat \ {0} /\ U16 \in Nat /\ SizeLimit < U16

VARIABLES
  op,      \* the driver call in progress, or NoOp
  pc,      \* "idle", or what it reads next: "ack" or "data"
  status,  \* "running", or how the process ended
  ready,   \* how many commands of bpspi_configure have succeeded
  NDEBUG,  \* a build without the clearing of receive buffers
  user,    \* the caller's receive buffer
  link,    \* "up" or "down": the serial line
  todo,    \* commands on their way to the adapter
  reply,   \* answers the adapter has yet to send
  line,    \* bytes on their way to the host
  done,    \* history: what the adapter carried out last since the call before
  sent,    \* history: what the device sent during it
  skew     \* history: the host has left bytes of an answer behind

hostVars == <<op, pc, status, ready, NDEBUG>>
adapterVars == <<todo, reply, done, sent>>
vars == <<hostVars, user, link, line, adapterVars, skew>>

Running == status = "running"
At(point) == Running /\ pc = point
-----------------------------------------------------------------------------
(* The SPI calls of stm32.c, as driver calls. *)

CmdOf(toggle) == IF toggle THEN "CMD_WR_RD" ELSE "CMD_WR_RD_NOCS"

SPI_I2S_SendReceiveData(toggle, out, in) == Command(CmdOf(toggle), out, in)
SPI_I2S_SendDataArray(toggle, out) == Command(CmdOf(toggle), out, 0)
SPI_I2S_ReceiveDataArray(toggle, in) == Command(CmdOf(toggle), <<>>, in)
SPI_I2S_SendData(toggle, Data) == Command(CmdOf(toggle), <<Data % 256>>, 0)
SPI_I2S_ReceiveData(toggle) == Command(CmdOf(toggle), <<>>, 1)
SPI_I2S_SetCS(state) == Command("CMD_CS", <<state>>, 0)
-----------------------------------------------------------------------------
Init ==
  /\ op = NoOp /\ pc = "idle" /\ status = "running" /\ ready = 0
  /\ NDEBUG \in BOOLEAN
  /\ user \in [1..SizeLimit - 1 -> {0}]
  /\ link = "up" /\ line \in StaleBytes
  /\ todo = <<>> /\ reply = <<>> /\ done = NoOp /\ sent = <<>>
  /\ skew = (line # <<>>)

\* The argument of setCS, taken as a uint8_t.
Level(c) == c.out[1] % 256

\* Mutant: the sizes are asserted off by one.
AcceptedInclusive(c) ==
  IF c.cmd = "CMD_CS" THEN Level(c) \in {0, 1}
                      ELSE Len(c.out) <= SizeLimit /\ c.in <= SizeLimit

\* The assertions a call begins with.
Accepted(c) ==
  IF c.cmd = "CMD_CS" THEN Level(c) \in {0, 1}
                      ELSE Len(c.out) < SizeLimit /\ c.in < SizeLimit

\* The memset of a debug build takes a negative size for a huge one, and runs
\* out of the process's memory.
Overruns(c) == ~NDEBUG /\ c.in < 0

\* The number of bytes to receive as it goes over the line.
Asked(c) == c.in % U16

\* Mutant: the level of CS is inverted, as the code once did.
EncodedInverted(c) ==
  IF c.cmd = "CMD_CS" THEN [c EXCEPT !.out = <<1 - Level(c)>>]
                      ELSE [c EXCEPT !.in = Asked(c)]

\* What goes over the line for a call.
Encoded(c) ==
  IF c.cmd = "CMD_CS" THEN [c EXCEPT !.out = <<Level(c)>>]
                      ELSE [c EXCEPT !.in = Asked(c)]

\* The buffer after the memset of a debug build.
Cleared(n) == [i \in DOMAIN user |-> IF i <= n /\ ~NDEBUG THEN 0 ELSE user[i]]

Issue(c) ==
  /\ op' = c /\ pc' = "ack"
  /\ user' = Cleared(c.in)
  /\ todo' = IF link = "up" THEN Append(todo, Encoded(c)) ELSE todo
  /\ UNCHANGED <<status, ready, NDEBUG, link, line, reply, done, sent, skew>>

\* bpspi_configure: three commands, one after the other.
Configure ==
  /\ At("idle") /\ ready < Len(ConfigOrder)
  /\ Issue(Command(ConfigOrder[ready + 1], <<>>, 0))

Call ==
  /\ At("idle") /\ ready = Len(ConfigOrder)
  /\ Len(todo \o reply \o line) <= MaxLine
  /\ \E c \in Requests :
       /\ Accepted(c) /\ ~Overruns(c)
       /\ Issue(c)

\* An assertion on the arguments fails, and the process ends.
CallRejected ==
  /\ At("idle") /\ ready = Len(ConfigOrder)
  /\ \E c \in Requests : ~Accepted(c)
  /\ status' = "rejected"
  /\ UNCHANGED <<op, pc, ready, NDEBUG, user, link, line, adapterVars, skew>>

CallCrashes ==
  /\ At("idle") /\ ready = Len(ConfigOrder)
  /\ \E c \in Requests : Accepted(c) /\ Overruns(c)
  /\ status' = "crashed"
  /\ UNCHANGED <<op, pc, ready, NDEBUG, user, link, line, adapterVars, skew>>

Return ==
  /\ op' = NoOp /\ pc' = "idle"
  /\ ready' = IF ready < Len(ConfigOrder) THEN ready + 1 ELSE ready
  /\ done' = NoOp /\ sent' = <<>>
  /\ UNCHANGED <<status, NDEBUG>>

\* Mutant: the older protocol's acknowledgement, still in a comment.
IsAckZero(b) == b = 0

IsAck(b) == b = 1

\* read of the acknowledgement: it blocks, and gets nothing on a dead line,
\* where tmp keeps its 0.  After a negative size no data are read, whatever the
\* adapter was asked for.
ReadAck ==
  /\ At("ack")
  /\ link = "up" => line # <<>>
  /\ LET got == IF link = "up" THEN Head(line) ELSE 0
     IN \/ /\ ~IsAck(got)
           /\ status' = "failed" /\ UNCHANGED <<op, pc, ready, done, sent, skew>>
        \/ /\ IsAck(got) /\ op.in > 0
           /\ pc' = "data" /\ UNCHANGED <<op, status, ready, done, sent, skew>>
        \/ /\ IsAck(got) /\ op.in <= 0
           /\ skew' = (skew \/ Asked(op) > 0)
           /\ Return
  /\ line' = IF link = "up" THEN Tail(line) ELSE line
  /\ UNCHANGED <<NDEBUG, user, link, todo, reply>>

Taken == IF Len(line) < op.in THEN Len(line) ELSE op.in

\* Mutant: the read is repeated until every byte is there.
ReadDataLoops ==
  /\ At("data") /\ Len(line) >= op.in
  /\ user' = [i \in DOMAIN user |-> IF i <= op.in THEN line[i] ELSE user[i]]
  /\ line' = SubSeq(line, op.in + 1, Len(line))
  /\ Return
  /\ UNCHANGED <<link, todo, reply, skew>>

\* Mutant: a byte is read where the caller asked for several.
ReadDataOnce ==
  /\ At("data") /\ line # <<>>
  /\ user' = [user EXCEPT ![1] = line[1]]
  /\ line' = Tail(line)
  /\ Return
  /\ UNCHANGED <<link, todo, reply, skew>>

\* read of the data: it blocks for the first byte and takes what is there, up
\* to isz; on a dead line it gets nothing.  The result is logged only.
ReadData ==
  /\ At("data")
  /\ link = "up" => line # <<>>
  /\ user' = [i \in DOMAIN user |-> IF i <= Taken THEN line[i] ELSE user[i]]
  /\ line' = SubSeq(line, Taken + 1, Len(line))
  /\ skew' = (skew \/ (link = "up" /\ Taken < op.in))
  /\ Return
  /\ UNCHANGED <<link, todo, reply>>
-----------------------------------------------------------------------------
(* The adapter and the serial line (external). *)

\* The adapter carries a command out and answers it: the acknowledgement, then
\* what the device sent.  It may refuse one of more than "4096 bytes in each
\* direction".
Adapter ==
  /\ todo # <<>>
  /\ LET c == Head(todo)
     IN \/ /\ sent' \in [1..c.in -> DeviceByte]
           /\ done' = c
           /\ reply' = IF link = "up" THEN reply \o <<1>> \o sent' ELSE <<>>
        \/ /\ c.in > SizeLimit
           /\ sent' = <<>> /\ done' = NoOp
           /\ reply' = IF link = "up" THEN Append(reply, 0) ELSE <<>>
  /\ todo' = Tail(todo)
  /\ UNCHANGED <<hostVars, user, link, line, skew>>

Deliver ==
  /\ reply # <<>>
  /\ line' = Append(line, Head(reply)) /\ reply' = Tail(reply)
  /\ UNCHANGED <<hostVars, user, link, todo, done, sent, skew>>

\* Commands under way may be lost with the line.
HangUp ==
  /\ link = "up" /\ Running
  /\ link' = "down" /\ line' = <<>> /\ reply' = <<>>
  /\ todo' \in {todo, <<>>}
  /\ UNCHANGED <<hostVars, user, done, sent, skew>>
-----------------------------------------------------------------------------
Ended == ~Running /\ UNCHANGED vars

Reads == ReadAck \/ ReadData

Next ==
  \/ Configure \/ Call \/ CallRejected \/ CallCrashes \/ ReadAck \/ ReadData
  \/ Adapter \/ Deliver \/ HangUp \/ Ended

\* A thread in a call runs on, the adapter answers and the line delivers.
Spec ==
  Init /\ [][Next]_vars /\ WF_vars(Reads) /\ WF_vars(Adapter) /\ WF_vars(Deliver)
-----------------------------------------------------------------------------
(* Properties *)

Commands == Transfers \cup SetCSs \cup Configs

TypeOK ==
  /\ op \in Commands \cup {NoOp}
  /\ op # NoOp => op.in < SizeLimit
  /\ pc \in {"idle", "ack", "data"}
  /\ status \in {"running", "rejected", "crashed", "failed"}
  /\ ready \in 0..3
  /\ NDEBUG \in BOOLEAN
  /\ user \in [1..SizeLimit - 1 -> Byte]
  /\ link \in {"up", "down"}
  /\ todo \in Seq(Commands)
  /\ reply \in Seq(Byte) /\ line \in Seq(Byte)
  /\ done \in Commands \cup {NoOp} /\ sent \in Seq(DeviceByte)
  /\ skew \in BOOLEAN

\* Between calls nothing is under way in either direction, as long as the
\* driver started on a clean line, no read was short and none was left out: the
\* next answer read will be that of the next command.
InStep ==
  link = "up" /\ ~skew /\ pc = "idle" => todo = <<>> /\ reply = <<>> /\ line = <<>>

\* Under the same condition the driver is never taken down by an answer it did
\* not expect, but for more bytes than the adapter is made for: whatever byte the
\* device sends, it is not mistaken for an acknowledgement.
FailsJustly == status = "failed" => skew \/ link = "down" \/ Asked(op) > SizeLimit

\* A call that returns has been carried out as it was made, and the caller has
\* what the device sent during it.
CarriedOut ==
  /\ done.cmd = op.cmd /\ done.in = Asked(op)
  /\ done.out = IF op.cmd = "CMD_CS" THEN <<Level(op)>> ELSE op.out
  /\ \A n \in 1..op.in : user'[n] = sent[n]

AnswersOwnCall ==
  [][op # NoOp /\ op' = NoOp /\ link = "up" /\ ~skew' => CarriedOut]_vars

\* However far host and adapter are out of step, and on a dead line, a call
\* comes back or ends the process: no read waits for a byte nobody sends.
CallEnds == op # NoOp ~> (op = NoOp \/ ~Running)

\* driver.h:81 "First send then directly receive data": insz bytes are
\* received when the call returns, while the line is up.
ReceivesAll ==
  [][At("data") /\ op' = NoOp /\ link = "up" =>
       \A n \in 1..op.in : user'[n] = sent[n]]_vars
=============================================================================
