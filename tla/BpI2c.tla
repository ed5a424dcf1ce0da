-------------------------------- MODULE BpI2c -------------------------------
(***************************************************************************)
(* The I2C driver for the Bus Pirate, src/adapters/buspirate/i2c_driver.c, *)
(* under i2c_write and i2c_read of ehwe.c.  Every command is one write to  *)
(* the serial line followed by blocking reads of the answer, byte by byte; *)
(* the adapter carries commands out in order, so host and adapter move in  *)
(* turns.  Two things disturb them.  Bytes of an earlier, late answer may  *)
(* be on the line when the driver starts.  And the line may hang up: then  *)
(* write and read fail or return nothing, which the driver logs            *)
(* (ASSURE_E) and ignores, going on with whatever its buffer holds.        *)
(***************************************************************************)
EXTENDS EhweI2c, SequencesExt

CONSTANTS
  StaleBytes,   \* what may be on the line when the driver starts
  DeviceByte,   \* the bytes the I2C device sends
  NakChoices,   \* how it answers a data byte: 0 ACK, 1 NACK
  DFLT_AUTOACK, \* BUSPIRATE_I2C_DFLT_AUTOACK
  MaxSession    \* bound: messages between two STOPs

ASSUME AdapterAssumption ==
  /\ StaleBytes \subseteq Seq(Byte)
  /\ DeviceByte \subseteq Byte
  /\ NakChoices \subseteq {0, 1}
  /\ DFLT_AUTOACK \in {0, 1}

\* A read may return whatever the device sends.
ASSUME ReadsAssumption ==
  \A o \in Requests : o.kind = "read" => [1..o.len -> DeviceByte] \subseteq Data

VARIABLES
  link,       \* "up" or "down": the serial line
  line,       \* bytes on their way from the adapter to the host
  ready,      \* bpi2c_configure has succeeded
  autoAck,    \* ddata->config.i2c.autoAck
  idx,        \* loop index i of sendData and receiveData
  rbuf,       \* the part of the caller's buffer filled so far
  opening,    \* the bus has seen START and no address byte yet
  bus,        \* messages on the I2C bus since the last STOP
  acks,       \* ACK (1) or NACK (0) of each data byte of the last message
  wire,       \* the last transaction ended by a STOP
  user        \* contents of the callers' receive buffers

lineVars == <<link, line>>
loopVars == <<autoAck, idx, rbuf>>
busVars == <<opening, bus, acks, wire>>
vars == <<ehweVars, lineVars, ready, loopVars, busVars, user>>

I2C_M_RD == 1

Init ==
  /\ EhweInit
  /\ link = "up" /\ line \in StaleBytes /\ ready = FALSE
  /\ autoAck = DFLT_AUTOACK /\ idx = 0 /\ rbuf = <<>>
  /\ opening = FALSE /\ bus = <<>> /\ acks = <<>> /\ wire = <<>>
  /\ user \in [UserBuf -> Data]

\* The process ends; only a STOP may still have reached the bus.
AbortAfter(busChange) ==
  /\ status' = "failed"
  /\ busChange
  /\ UNCHANGED <<op, call, lineVars, ready, loopVars, user>>
Abort == AbortAfter(UNCHANGED busVars)
-----------------------------------------------------------------------------
(* The serial line (external). *)

\* What the host can read after a command answered by `reply': all of it, or
\* what arrived before the line hung up, or nothing.
Answers(reply) ==
  IF link = "up"
    THEN {[bytes |-> line \o SubSeq(reply, 1, n), alive |-> n = Len(reply)] :
             n \in 0..Len(reply)}
    ELSE {[bytes |-> <<>>, alive |-> FALSE]}

\* The n-th byte read, or what the variable held before if read got none.
ReadByte(answer, n, before) ==
  IF n <= Len(answer.bytes) THEN answer.bytes[n] ELSE before

\* After n bytes are read.
Consume(answer, n) ==
  /\ link' = IF answer.alive THEN "up" ELSE "down"
  /\ line' = IF answer.alive THEN SubSeq(answer.bytes, n + 1, Len(answer.bytes)) ELSE <<>>

\* An uninitialised tmp: any byte, of which only 1 passes the assertions.
Junk == {0, 1}

\* The line hangs up between two commands.
HangUp ==
  /\ Running /\ link = "up"
  /\ link' = "down" /\ line' = <<>>
  /\ UNCHANGED <<ehweVars, ready, loopVars, busVars, user>>
-----------------------------------------------------------------------------
(* The I2C bus (external). *)

\* One more data byte in the message the bus is in.
WithByte(m, b) == [m EXCEPT !.len = @ + 1, !.data = Append(@, b)]
BusData(b) == bus' = [bus EXCEPT ![Len(bus)] = WithByte(@, b)]

\* A byte sent after START is an address and opens a message, any other is data.
BusSend(b, nak) ==
  IF opening
    THEN /\ bus' = Append(bus, [flags |-> b % 2, addr |-> b \div 2, len |-> 0, data |-> <<>>])
         /\ opening' = FALSE /\ acks' = <<>> /\ UNCHANGED wire
    ELSE BusData(b) /\ acks' = Append(acks, 1 - nak) /\ UNCHANGED <<opening, wire>>

BusReceive(b, ack) ==
  BusData(b) /\ acks' = Append(acks, ack) /\ UNCHANGED <<opening, wire>>

BusStart == opening' = TRUE /\ UNCHANGED <<bus, acks, wire>>
BusStop == wire' = bus /\ bus' = <<>> /\ UNCHANGED <<opening, acks>>

\* A command that got no further than the host changes nothing.
IfLinked(change) == IF link = "up" THEN change ELSE UNCHANGED busVars
-----------------------------------------------------------------------------
\* bpi2c_configure: the speed and the peripherals command, each answered 0x01.
Configure ==
  /\ Running /\ ~ready
  /\ \E a \in Answers(<<1, 1>>) :
       IF ReadByte(a, 1, 0) = 1 /\ ReadByte(a, 2, 0) = 1
         THEN /\ Consume(a, 2)
              /\ ready' = TRUE
              /\ UNCHANGED <<ehweVars, loopVars, busVars, user>>
         ELSE Abort

Call ==
  /\ ready
  /\ \E o \in Requests :
       /\ o.kind = "write" /\ ~o.stop => Len(bus) + 1 < MaxSession
       /\ Enter(o)
  /\ UNCHANGED <<lineVars, ready, loopVars, busVars, user>>

\* bpi2c_autoAck, called by a program between its transfers.
SetAutoAck ==
  /\ ready /\ Running /\ op = NoOp
  /\ autoAck' \in {0, 1}
  /\ UNCHANGED <<ehweVars, lineVars, ready, idx, rbuf, busVars, user>>

\* bpi2c_start
Start ==
  /\ Entered("start")
  /\ \E a \in Answers(<<1>>) :
       IF ReadByte(a, 1, 0) = 1
         THEN /\ Consume(a, 1) /\ BusStart
              /\ Return
              /\ UNCHANGED <<ready, loopVars, user>>
         ELSE Abort

\* What bpi2c_sendByte can make of the bulk command, which is answered by 0x01
\* and then by the device's bit, 0 for an ACK.
Bulks(naks) ==
  UNION {{[nak |-> nak, answer |-> a, taken |-> ReadByte(a, 1, junk),
           bit |-> ReadByte(a, 2, ReadByte(a, 1, junk))] :
             junk \in Junk, a \in Answers(<<1, nak>>)} : nak \in naks}

BulkOk(k) == k.taken = 1 /\ k.bit \in {0, 1}

SendBulk(b, k) == Consume(k.answer, 2) /\ IfLinked(BusSend(b, k.nak))

SendByte ==
  /\ Entered("sendByte")
  /\ \E k \in Bulks({0, 1}) :
       IF BulkOk(k) THEN SendBulk(AddressByte, k) /\ ReturnAck(1 - k.bit)
                    ELSE Abort
  /\ UNCHANGED <<ready, loopVars, user>>

\* Mutant: the loop ends one byte early.
SendDataAckShort(ack) ==
  IF ack = 1 /\ idx + 2 < Len(op.data)
    THEN idx' = idx + 1 /\ UNCHANGED ehweVars
    ELSE idx' = 0 /\ Return

\* One turn of bpi2c_sendData's loop; a NACK ends it, and i2c_write goes on.
SendDataAck(ack) ==
  IF ack = 1 /\ idx + 1 < Len(op.data)
    THEN idx' = idx + 1 /\ UNCHANGED ehweVars
    ELSE idx' = 0 /\ Return

SendData ==
  /\ Entered("sendData") /\ op.given
  /\ \E k \in Bulks(NakChoices) :
       IF BulkOk(k) THEN SendBulk(op.data[idx + 1], k) /\ SendDataAck(1 - k.bit)
                    ELSE Abort
  /\ UNCHANGED <<ready, autoAck, rbuf, user>>

WithoutBuffer == NoBuffer /\ UNCHANGED <<lineVars, ready, loopVars, busVars, user>>

\* bpi2c_receiveData of nothing.
ReceiveNothing ==
  /\ Entered("receiveData") /\ op.len = 0
  /\ Return
  /\ UNCHANGED <<lineVars, ready, loopVars, busVars, user>>

\* One turn of bpi2c_receiveData's loop, with bpi2c_receiveByte: the read
\* command, then the ACK or NACK command; the last byte is not ACKed and
\* autoAck is put back after it.
LastByte == idx + 1 = op.len
AckBit == IF LastByte THEN 0 ELSE autoAck
AutoAckLost == IF LastByte THEN 0 ELSE autoAck   \* mutant: not put back
AutoAckAfter == autoAck

ReceiveByte ==
  /\ Entered("receiveData") /\ op.len > 0
  /\ \E b \in DeviceByte, junk, before \in Junk : \E a \in Answers(<<b, 1>>) :
       IF ReadByte(a, 2, junk) = 1
         THEN /\ Consume(a, 2)
              /\ IfLinked(BusReceive(b, AckBit))
              /\ rbuf' = Append(rbuf, ReadByte(a, 1, before))
              /\ autoAck' = AutoAckAfter
              /\ IF LastByte THEN idx' = 0 /\ Return
                             ELSE idx' = idx + 1 /\ UNCHANGED ehweVars
              /\ UNCHANGED <<ready, user>>
         ELSE Abort

\* Mutant: a read goes on behind the bytes of the read before it.
HandOverOnwards ==
  IF op.kind = "read"
    THEN user' = [user EXCEPT ![op.buf] = rbuf] /\ UNCHANGED rbuf
    ELSE UNCHANGED <<user, rbuf>>

\* bpi2c_stop; i2c_read then returns with its buffer filled.
HandOver ==
  IF op.kind = "read"
    THEN user' = [user EXCEPT ![op.buf] = rbuf] /\ rbuf' = <<>>
    ELSE UNCHANGED <<user, rbuf>>

Stop ==
  /\ Entered("stop")
  /\ \E a \in Answers(<<1>>) :
       IF ReadByte(a, 1, 0) = 1
         THEN /\ Consume(a, 1) /\ BusStop /\ HandOver
              /\ Return
              /\ UNCHANGED <<ready, autoAck, idx>>
         ELSE AbortAfter(UNCHANGED busVars \/ (link = "up" /\ BusStop))
-----------------------------------------------------------------------------
Ended == ~Running /\ UNCHANGED vars

Next ==
  \/ Configure \/ Call \/ SetAutoAck \/ Start \/ SendByte \/ SendData \/ WithoutBuffer
  \/ ReceiveNothing \/ ReceiveByte \/ Stop \/ HangUp \/ Ended

Spec == Init /\ [][Next]_vars
-----------------------------------------------------------------------------
(* Properties *)

TypeOK ==
  /\ op \in Requests \cup {NoOp}
  /\ call \in {"none", "start", "sendByte", "sendData", "receiveData", "stop"}
  /\ status \in {"running", "rejected", "failed"}
  /\ link \in {"up", "down"} /\ line \in Seq(Byte)
  /\ ready \in BOOLEAN /\ autoAck \in {0, 1}
  /\ idx \in Nat /\ rbuf \in Seq(Byte)
  /\ opening \in BOOLEAN /\ acks \in Seq({0, 1})
  /\ user \in [UserBuf -> Data]

\* In a transfer on a living line, every byte up to the last is ACKed: those of
\* a read as the program has set autoAck, which takes autoAck back to its value
\* after each read.  The last byte of a read is never ACKed: a device that was
\* ACKed would go on driving the bus into the STOP.
AckPattern ==
  Running /\ link = "up" /\ call \in {"sendData", "receiveData", "stop"} =>
    /\ \A n \in 1..Len(acks) - 1 : acks[n] = IF op.kind = "read" THEN autoAck ELSE 1
    /\ op.kind = "read" /\ op.len > 0 =>
         IF call = "stop" THEN Last(acks) = 0 ELSE acks # <<>> => Last(acks) = autoAck

\* A write ends before its last byte only behind a NACK, or on a dead line.
CutOnlyAtNack ==
  [][op # NoOp /\ op.kind = "write" /\ op.data # <<>> /\ call = "sendData" /\ call' # call =>
       \/ link' = "down"
       \/ Last(bus').data = op.data
       \/ Last(acks') = 0]_vars

\* A call returns only with every answer read: host and adapter stay in step,
\* and a byte left on the line by the mode change stops the first call.
AnswersConsumed ==
  [][op # NoOp /\ op' = NoOp => line' = <<>>]_vars

\* The messages of the calls completed since the last STOP: without that of
\* the call in progress, once its address byte is out.
Session ==
  IF op # NoOp /\ call # "start" /\ ~opening /\ bus # <<>> THEN Front(bus) ELSE bus

\* The driver implements the bus of a cutting adapter: what was on the bus at
\* STOP is the messages of the calls since the last one, in order, and a read
\* returns what the device sent - wherever the line hangs up, the uninitialised
\* answer of a failed read included, and with late bytes on it, unless they are
\* five bytes that the driver takes for its first answers, an ACK the last.
Bus == INSTANCE I2CBus WITH session <- Session, MayCut <- TRUE
ImplementsBus == Bus!Spec
=============================================================================
