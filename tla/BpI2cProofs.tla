----------------------------- MODULE BpI2cProofs ----------------------------
(***************************************************************************)
(* Theorems about BpI2c, for any calls, device, default of autoAck and     *)
(* lengths, and any late bytes that are not the answers the driver waits   *)
(* for: the ACKs of a transfer, the place where a write may be cut, that   *)
(* every answer is read, and that the driver implements the bus of I2CBus. *)
(***************************************************************************)
EXTENDS BpI2c, SequenceTheorems, TLAPS

\* The bytes begin with n acknowledgements and the bit of an ACK.
Passing(bytes, n) ==
  Len(bytes) > n /\ bytes[n + 1] = 0 /\ \A k \in 1..n : bytes[k] = 1

\* The late bytes on the line when the driver starts, any number of them, are
\* not the answers it is to get up to the first address: two to its
\* configuration, one to START, and an ACKed address byte.
HarmlessBytes == \A bytes \in StaleBytes : ~Passing(bytes, 4)

Message == [flags : 0..1, addr : 0..127, len : Nat, data : Seq(Byte)]

\* In the loop of sendData: the first idx bytes are out and were ACKed.
AtSend ==
  /\ op \in WriteOp /\ ~opening
  /\ idx \in Nat /\ idx < Len(op.data)
  /\ Len(acks) = idx /\ \A n \in 1..idx : acks[n] = 1
  /\ bus # <<>> /\ bus[Len(bus)].data = SubSeq(op.data, 1, idx)

\* In the loop of receiveData: idx bytes are in and were answered with autoAck.
AtReceive ==
  /\ op \in ReadOp /\ ~opening
  /\ idx \in Nat /\ (op.len > 0 => idx < op.len) /\ (op.len = 0 => idx = 0)
  /\ Len(acks) = idx /\ \A n \in 1..idx : acks[n] = autoAck
  /\ bus # <<>>

\* Before STOP: the ACKs of the whole transfer.
AtStop ==
  /\ op \in WriteOp => \A n \in 1..Len(acks) : n < Len(acks) => acks[n] = 1
  /\ op \in ReadOp =>
       /\ \A n \in 1..Len(acks) : n < Len(acks) => acks[n] = autoAck
       /\ op.len > 0 => Len(acks) > 0 /\ acks[Len(acks)] = 0

\* Host and adapter are in step, at the same point of the call.
InStep ==
  /\ line = <<>>
  /\ acks \in Seq({0, 1}) /\ autoAck \in {0, 1} /\ bus \in Seq(Message)
  /\ op \in WriteOp \cup ReadOp \cup {NoOp}
  /\ call \in {"none", "start", "sendByte", "sendData", "receiveData", "stop"}
  /\ op = NoOp <=> call = "none"
  /\ call \notin {"sendData", "receiveData"} => idx = 0
  /\ call = "sendByte" => opening
  /\ call = "sendData" => AtSend
  /\ call = "receiveData" => AtReceive
  /\ call = "stop" => AtStop

Linked == Running /\ link = "up"
IInv == Linked => InStep
-----------------------------------------------------------------------------
(* The line *)

\* An answer that arrives whole, on a line without other bytes, is the reply.
LEMMA WholeAnswer ==
  ASSUME link = "up" => line = <<>>, NEW reply \in Seq(Byte), NEW a \in Answers(reply), a.alive
  PROVE  link = "up" /\ a.bytes = reply
  <1>1. link = "up"
    BY DEF Answers
  <1>2. PICK n \in 0..Len(reply) : a = [bytes |-> line \o SubSeq(reply, 1, n), alive |-> n = Len(reply)]
    BY <1>1 DEF Answers
  <1>3. n = Len(reply)
    BY <1>2
  <1>4. SubSeq(reply, 1, Len(reply)) = reply
    OBVIOUS
  <1>5. <<>> \o reply = reply
    BY ConcatEmptySeq
  <1> QED
    BY <1>1, <1>2, <1>3, <1>4, <1>5

\* A line that is still up after a read has given its whole answer, of which
\* nothing is left.
LEMMA ReadWhole ==
  ASSUME link = "up" => line = <<>>, NEW reply \in Seq(Byte), NEW a \in Answers(reply),
         Consume(a, Len(reply)), link' = "up"
  PROVE  link = "up" /\ a.bytes = reply /\ line' = <<>>
  <1>1. a.alive
    BY DEF Consume
  <1>2. link = "up" /\ a.bytes = reply
    BY <1>1, WholeAnswer
  <1>3. line' = SubSeq(reply, Len(reply) + 1, Len(reply))
    BY <1>1, <1>2 DEF Consume
  <1> QED
    BY <1>2, <1>3

\* What comes of a bulk command whose line is still up is the device's bit.
LEMMA BulkWhole ==
  ASSUME link = "up" => line = <<>>, NEW naks, naks \subseteq {0, 1}, NEW k \in Bulks(naks),
         NEW b, SendBulk(b, k), link' = "up"
  PROVE  /\ link = "up" /\ line' = <<>> /\ k.bit = k.nak /\ k.nak \in {0, 1} /\ k.nak \in naks
         /\ BusSend(b, k.nak)
  <1>1. PICK n \in naks, j \in Junk : \E a \in Answers(<<1, n>>) :
          k = [nak |-> n, answer |-> a, taken |-> ReadByte(a, 1, j),
               bit |-> ReadByte(a, 2, ReadByte(a, 1, j))]
    BY DEF Bulks
  <1>2. PICK a \in Answers(<<1, n>>) :
          k = [nak |-> n, answer |-> a, taken |-> ReadByte(a, 1, j),
               bit |-> ReadByte(a, 2, ReadByte(a, 1, j))]
    BY <1>1
  <1>3. n \in {0, 1} /\ <<1, n>> \in Seq(Byte) /\ Len(<<1, n>>) = 2
    BY <1>1 DEF Byte
  <1>4. Consume(a, 2) /\ IfLinked(BusSend(b, n))
    BY <1>2 DEF SendBulk
  <1>5. link = "up" /\ a.bytes = <<1, n>> /\ line' = <<>>
    BY <1>3, <1>4, ReadWhole
  <1>6. ReadByte(a, 2, ReadByte(a, 1, j)) = n
    BY <1>3, <1>5 DEF ReadByte
  <1> QED
    BY <1>1, <1>2, <1>3, <1>4, <1>5, <1>6 DEF IfLinked

\* The answer a bulk command reads is that of an acknowledgement and a bit.
LEMMA BulkAnswer ==
  ASSUME NEW naks, naks \subseteq {0, 1}, NEW k \in Bulks(naks)
  PROVE  \E n \in {0, 1} : k.answer \in Answers(<<1, n>>) /\ <<1, n>> \in Seq(Byte) /\ Len(<<1, n>>) = 2
  <1>1. PICK n \in naks, j \in Junk : \E a \in Answers(<<1, n>>) :
          k = [nak |-> n, answer |-> a, taken |-> ReadByte(a, 1, j),
               bit |-> ReadByte(a, 2, ReadByte(a, 1, j))]
    BY DEF Bulks
  <1>2. n \in {0, 1} /\ <<1, n>> \in Seq(Byte) /\ Len(<<1, n>>) = 2
    BY <1>1 DEF Byte
  <1> QED
    BY <1>1, <1>2
-----------------------------------------------------------------------------
(* The steps *)

LEMMA InitIInv == Init /\ line = <<>> => IInv
  BY AdapterAssumption DEF Init, EhweInit, IInv, InStep, AdapterAssumption

\* What the process and the caller know of each other between two methods.
LEMMA NoOpIsNoCall == NoOp \notin WriteOp /\ NoOp \notin ReadOp
  BY NoOpAssumption DEF NoOpAssumption

LEMMA ConfigureStep == IInv /\ Configure => IInv'
  <1> SUFFICES ASSUME IInv, Configure, Linked' PROVE InStep'
    BY DEF IInv
  <1>1. PICK a \in Answers(<<1, 1>>) :
          IF ReadByte(a, 1, 0) = 1 /\ ReadByte(a, 2, 0) = 1
            THEN /\ Consume(a, 2)
                 /\ ready' = TRUE
                 /\ UNCHANGED <<ehweVars, loopVars, busVars, user>>
            ELSE Abort
    BY DEF Configure
  <1>2. Consume(a, 2) /\ UNCHANGED <<ehweVars, loopVars, busVars>> /\ Running
    BY <1>1 DEF Abort, AbortAfter, Linked, Running, Configure
  <1>3. <<1, 1>> \in Seq(Byte) /\ Len(<<1, 1>>) = 2
    BY DEF Byte
  <1>4. link = "up" => line = <<>>
    BY <1>2 DEF IInv, Linked, InStep
  <1>5. link = "up" /\ line' = <<>>
    BY <1>2, <1>3, <1>4, ReadWhole DEF Linked
  <1>6. InStep
    BY <1>2, <1>5 DEF IInv, Linked
  <1> QED
    BY <1>2, <1>5, <1>6
    DEF InStep, AtSend, AtReceive, AtStop, ehweVars, loopVars, busVars

LEMMA CallStep == IInv /\ Call => IInv'
  <1> SUFFICES ASSUME IInv, Call, Linked' PROVE InStep'
    BY DEF IInv
  <1>1. PICK o \in Requests : Enter(o)
    BY DEF Call
  <1>2. Running /\ op = NoOp /\ op' = o /\ call' = "start" /\ UNCHANGED <<lineVars, loopVars, busVars>>
    BY <1>1 DEF Call, Enter, Linked, Running
  <1>3. InStep
    BY <1>2 DEF IInv, Linked, lineVars
  <1>4. o \in WriteOp \cup ReadOp /\ o # NoOp
    BY RequestsAssumption, NoOpIsNoCall DEF RequestsAssumption
  <1> QED
    BY <1>2, <1>3, <1>4 DEF InStep, lineVars, loopVars, busVars

LEMMA SetAutoAckStep == IInv /\ SetAutoAck => IInv'
  <1> SUFFICES ASSUME IInv, SetAutoAck, Linked' PROVE InStep'
    BY DEF IInv
  <1>1. InStep /\ op = NoOp /\ autoAck' \in {0, 1}
        /\ UNCHANGED <<op, call, status, link, line, idx, opening, bus, acks>>
    BY DEF SetAutoAck, IInv, Linked, Running, ehweVars, lineVars, busVars
  <1> QED
    BY <1>1 DEF InStep

LEMMA StartStep == IInv /\ Start => IInv'
  <1> SUFFICES ASSUME IInv, Start, Linked' PROVE InStep'
    BY DEF IInv
  <1>1. PICK a \in Answers(<<1>>) :
          IF ReadByte(a, 1, 0) = 1
            THEN Consume(a, 1) /\ BusStart /\ Return /\ UNCHANGED <<ready, loopVars, user>>
            ELSE Abort
    BY DEF Start
  <1>2. Running /\ call = "start" /\ Consume(a, 1) /\ BusStart /\ Return /\ UNCHANGED loopVars
    BY <1>1 DEF Start, Entered, Abort, AbortAfter, Linked, Running
  <1>3. <<1>> \in Seq(Byte) /\ Len(<<1>>) = 1
    BY DEF Byte
  <1>4. link = "up" /\ line' = <<>>
    BY <1>2, <1>3, ReadWhole DEF IInv, Linked, InStep
  <1>5. InStep
    BY <1>2, <1>4 DEF IInv, Linked
  <1>6. call' = "sendByte" /\ op' = op
    BY <1>2 DEF Return, NextMethod
  <1> QED
    BY <1>2, <1>4, <1>5, <1>6 DEF InStep, BusStart, loopVars

\* A data byte goes to the end of the last message.
LEMMA MessageWithByte ==
  ASSUME NEW m \in Message, NEW b \in Byte
  PROVE  WithByte(m, b) \in Message /\ WithByte(m, b).data = Append(m.data, b)
  <1>1. m.len + 1 \in Nat /\ Append(m.data, b) \in Seq(Byte)
    BY DEF Message
  <1> QED
    BY <1>1 DEF Message, WithByte

LEMMA DataOnBus ==
  ASSUME bus \in Seq(Message), bus # <<>>, NEW b \in Byte, BusData(b)
  PROVE  /\ bus' \in Seq(Message) /\ bus' # <<>> /\ Len(bus') = Len(bus)
         /\ bus'[Len(bus')].data = Append(bus[Len(bus)].data, b)
  <1>1. Len(bus) \in 1..Len(bus)
    BY EmptySeq
  <1>2. bus[Len(bus)] \in Message
    BY <1>1
  <1>3. bus' = [bus EXCEPT ![Len(bus)] = WithByte(bus[Len(bus)], b)]
    BY DEF BusData
  <1>4. /\ bus' \in Seq(Message) /\ Len(bus') = Len(bus)
        /\ bus'[Len(bus)] = WithByte(bus[Len(bus)], b)
    BY <1>1, <1>2, <1>3, MessageWithByte, ExceptSeq
  <1> QED
    BY <1>1, <1>2, <1>4, MessageWithByte, EmptySeq

LEMMA AddressIsByte ==
  ASSUME op \in WriteOp \cup ReadOp
  PROVE  AddressByte \in Byte
  <1>1. op.addr \in 0..255
    BY DEF WriteOp, ReadOp, Byte
  <1> QED
    BY <1>1 DEF AddressByte, WRITE_ADDR, READ_ADDR, Byte

LEMMA DataOfWrite ==
  ASSUME op \in WriteOp
  PROVE  op.data \in Seq(Byte) /\ op.kind = "write"
  BY DataAssumption DEF DataAssumption, WriteOp

LEMMA SendByteStep == IInv /\ SendByte => IInv'
  <1> SUFFICES ASSUME IInv, SendByte, Linked' PROVE InStep'
    BY DEF IInv
  <1>1. PICK k \in Bulks({0, 1}) :
          IF BulkOk(k) THEN SendBulk(AddressByte, k) /\ ReturnAck(1 - k.bit) ELSE Abort
    BY DEF SendByte
  <1>2. Running /\ call = "sendByte" /\ SendBulk(AddressByte, k) /\ Return /\ UNCHANGED loopVars
    BY <1>1 DEF SendByte, Entered, Abort, AbortAfter, ReturnAck, Linked, Running
  <1>3. link = "up" => line = <<>>
    BY <1>2 DEF IInv, Linked, InStep
  <1>4. link = "up" /\ line' = <<>> /\ BusSend(AddressByte, k.nak)
    BY <1>2, <1>3, BulkWhole DEF Linked
  <1>5. InStep
    BY <1>2, <1>4 DEF IInv, Linked
  <1>6. opening /\ op \in WriteOp \cup ReadOp /\ op # NoOp /\ idx = 0
    BY <1>2, <1>5 DEF InStep
  <1> DEFINE m == [flags |-> AddressByte % 2, addr |-> AddressByte \div 2, len |-> 0, data |-> <<>>]
  <1>7. bus' = Append(bus, m) /\ ~opening' /\ acks' = <<>>
    BY <1>4, <1>6 DEF BusSend
  <1>8. m \in Message
    <2>1. AddressByte \in 0..255
      BY <1>6, AddressIsByte DEF Byte
    <2>2. AddressByte % 2 \in 0..1 /\ AddressByte \div 2 \in 0..127
      BY <2>1
    <2> QED
      BY <2>2 DEF Message
  <1> HIDE DEF m
  <1>9. bus' \in Seq(Message) /\ bus' # <<>> /\ bus'[Len(bus')] = m
    BY <1>5, <1>7, <1>8 DEF InStep
  <1>10. m.data = <<>>
    BY DEF m
  <1>11. idx' = 0 /\ autoAck' = autoAck
    BY <1>2, <1>6 DEF loopVars
  <1>12. CASE op \in ReadOp
    <2>1. op.kind = "read" /\ op.len \in Nat
      BY <1>12 DEF ReadOp
    <2>2. call' = "receiveData" /\ op' = op
      BY <1>2, <2>1 DEF Return, NextMethod
    <2>3. AtReceive'
      BY <1>7, <1>9, <1>11, <1>12, <2>1, <2>2 DEF AtReceive
    <2> QED
      BY <1>4, <1>5, <1>6, <1>7, <1>9, <1>11, <2>2, <2>3 DEF InStep
  <1>13. CASE op \in WriteOp
    <2>1. op.kind = "write" /\ op.data \in Seq(Byte) /\ Len(op.data) \in Nat
      BY <1>13, DataOfWrite
    <2>2. CASE Len(op.data) > 0
      <3>1. call' = "sendData" /\ op' = op
        BY <1>2, <2>1, <2>2 DEF Return, NextMethod
      <3>2. SubSeq(op.data, 1, 0) = <<>>
        BY <2>1
      <3>3. AtSend'
        BY <1>7, <1>9, <1>10, <1>11, <1>13, <2>2, <3>1, <3>2 DEF AtSend
      <3> QED
        BY <1>4, <1>5, <1>6, <1>7, <1>9, <1>11, <3>1, <3>3 DEF InStep
    <2>3. CASE ~(Len(op.data) > 0)
      <3>1. \/ call' = "stop" /\ op' = op
            \/ call' = "none" /\ op' = NoOp
        BY <1>2, <2>1, <2>3 DEF Return, NextMethod, AfterWrite
      <3>2. op \notin ReadOp
        BY <2>1 DEF ReadOp
      <3>3. call' = "stop" => AtStop'
        BY <1>7, <3>1, <3>2 DEF AtStop
      <3> QED
        BY <1>4, <1>5, <1>6, <1>7, <1>9, <1>11, <3>1, <3>3 DEF InStep
    <2> QED
      BY <2>2, <2>3
  <1> QED
    BY <1>6, <1>12, <1>13


\* One more element of a sequence taken from its front.
LEMMA OneMore ==
  ASSUME NEW s \in Seq(Byte), NEW n \in Nat, n < Len(s)
  PROVE  Append(SubSeq(s, 1, n), s[n + 1]) = SubSeq(s, 1, n + 1)
  <1> DEFINE t == Append(SubSeq(s, 1, n), s[n + 1])
             u == SubSeq(s, 1, n + 1)
  <1>1. n + 1 \in 1..Len(s) /\ s[n + 1] \in Byte
    OBVIOUS
  <1>2. SubSeq(s, 1, n) \in Seq(Byte) /\ Len(SubSeq(s, 1, n)) = n
        /\ \A k \in 1..n : SubSeq(s, 1, n)[k] = s[k]
    BY <1>1
  <1>3. u \in Seq(Byte) /\ Len(u) = n + 1 /\ \A k \in 1..(n + 1) : u[k] = s[k]
    BY <1>1
  <1>4. t \in Seq(Byte) /\ Len(t) = n + 1 /\ \A k \in 1..(n + 1) : t[k] = s[k]
    BY <1>1, <1>2
  <1> QED
    BY <1>3, <1>4, SeqEqual

\* One turn of sendData on a line that stays up.
LEMMA SendDataTurn ==
  ASSUME IInv, SendData, status' = "running" \/ call' # call, link' = "up"
  PROVE  /\ InStep /\ AtSend /\ line' = <<>> /\ UNCHANGED <<autoAck, opening>>
         /\ bus' \in Seq(Message) /\ bus' # <<>>
         /\ bus'[Len(bus')].data = SubSeq(op.data, 1, idx + 1)
         /\ \E nak \in {0, 1} : acks' = Append(acks, 1 - nak) /\ SendDataAck(1 - nak)
  <1>1. PICK k \in Bulks(NakChoices) :
          IF BulkOk(k) THEN SendBulk(op.data[idx + 1], k) /\ SendDataAck(1 - k.bit) ELSE Abort
    BY DEF SendData
  <1>2. Running /\ call = "sendData" /\ autoAck' = autoAck
    BY DEF SendData, Entered
  <1>3. SendBulk(op.data[idx + 1], k) /\ SendDataAck(1 - k.bit)
    BY <1>1 DEF Abort, AbortAfter
  <1>4. NakChoices \subseteq {0, 1}
    BY AdapterAssumption DEF AdapterAssumption
  <1>5. link = "up" => line = <<>>
    BY <1>2 DEF IInv, Linked, InStep
  <1>6. /\ link = "up" /\ line' = <<>> /\ k.bit = k.nak /\ k.nak \in {0, 1}
        /\ BusSend(op.data[idx + 1], k.nak)
    BY <1>3, <1>4, <1>5, BulkWhole
  <1>7. InStep /\ AtSend
    BY <1>2, <1>6 DEF IInv, Linked, InStep
  <1>8. BusData(op.data[idx + 1]) /\ acks' = Append(acks, 1 - k.nak) /\ opening' = opening
    BY <1>6, <1>7 DEF BusSend, AtSend
  <1>9. op.data \in Seq(Byte) /\ idx \in Nat /\ idx < Len(op.data)
    BY <1>7, DataOfWrite DEF AtSend
  <1>10. op.data[idx + 1] \in Byte
    BY <1>9
  <1>11. bus' \in Seq(Message) /\ bus' # <<>>
         /\ bus'[Len(bus')].data = Append(bus[Len(bus)].data, op.data[idx + 1])
    BY <1>7, <1>8, <1>10, DataOnBus DEF InStep, AtSend
  <1>12. bus'[Len(bus')].data = SubSeq(op.data, 1, idx + 1)
    BY <1>7, <1>9, <1>11, OneMore DEF AtSend
  <1> QED
    BY <1>2, <1>3, <1>6, <1>7, <1>8, <1>11, <1>12

\* A bit at the end of the ACKs.
LEMMA OneMoreAck ==
  ASSUME acks \in Seq({0, 1}), NEW bit \in {0, 1}, acks' = Append(acks, bit)
  PROVE  /\ acks' \in Seq({0, 1}) /\ Len(acks') = Len(acks) + 1 /\ acks'[Len(acks')] = bit
         /\ \A n \in 1..Len(acks') : n < Len(acks') => n \in 1..Len(acks) /\ acks'[n] = acks[n]
  OBVIOUS

LEMMA SendDataStep == IInv /\ SendData => IInv'
  <1> SUFFICES ASSUME IInv, SendData, Linked' PROVE InStep'
    BY DEF IInv
  <1>1. /\ InStep /\ AtSend /\ line' = <<>> /\ UNCHANGED <<autoAck, opening>>
        /\ bus' \in Seq(Message) /\ bus' # <<>>
        /\ bus'[Len(bus')].data = SubSeq(op.data, 1, idx + 1)
        /\ call = "sendData"
    BY SendDataTurn DEF Linked, Running, SendData, Entered
  <1>2. PICK nak \in {0, 1} : acks' = Append(acks, 1 - nak) /\ SendDataAck(1 - nak)
    BY SendDataTurn DEF Linked, Running
  <1>3. /\ acks' \in Seq({0, 1}) /\ Len(acks') = Len(acks) + 1 /\ acks'[Len(acks')] = 1 - nak
        /\ \A n \in 1..Len(acks') : n < Len(acks') => n \in 1..Len(acks) /\ acks'[n] = acks[n]
    <2>1. 1 - nak \in {0, 1}
      OBVIOUS
    <2> QED
      BY <1>1, <1>2, <2>1, OneMoreAck DEF InStep
  <1>4. /\ op \in WriteOp /\ op # NoOp /\ op \notin ReadOp /\ op.kind = "write"
        /\ idx \in Nat /\ idx < Len(op.data) /\ Len(op.data) \in Nat
        /\ Len(acks) = idx /\ \A n \in 1..idx : acks[n] = 1
    BY <1>1, NoOpIsNoCall, DataOfWrite DEF AtSend, WriteOp, ReadOp
  <1>5. CASE nak = 0 /\ idx + 1 < Len(op.data)
    <2>1. idx' = idx + 1 /\ op' = op /\ call' = "sendData"
      BY <1>1, <1>2, <1>5 DEF SendDataAck, ehweVars
    <2>2. \A n \in 1..idx' : acks'[n] = 1
      BY <1>3, <1>4, <1>5, <2>1
    <2>3. AtSend'
      BY <1>1, <1>3, <1>4, <1>5, <2>1, <2>2 DEF AtSend
    <2> QED
      BY <1>1, <1>3, <1>4, <2>1, <2>3 DEF InStep
  <1>6. CASE ~(nak = 0 /\ idx + 1 < Len(op.data))
    <2>1. idx' = 0 /\ Return
      BY <1>2, <1>6 DEF SendDataAck
    <2>2. \/ call' = "stop" /\ op' = op
          \/ call' = "none" /\ op' = NoOp
      BY <1>1, <2>1 DEF Return, NextMethod, AfterWrite
    <2>3. \A n \in 1..Len(acks') : n < Len(acks') => acks'[n] = 1
      BY <1>3, <1>4
    <2>4. call' = "stop" => AtStop'
      BY <1>4, <2>2, <2>3 DEF AtStop
    <2> QED
      BY <1>1, <1>3, <1>4, <2>1, <2>2, <2>4 DEF InStep
  <1> QED
    BY <1>5, <1>6

LEMMA ReceiveNothingStep == IInv /\ ReceiveNothing => IInv'
  <1> SUFFICES ASSUME IInv, ReceiveNothing, Linked' PROVE InStep'
    BY DEF IInv
  <1>1. /\ Running /\ call = "receiveData" /\ op.len = 0 /\ Return
        /\ UNCHANGED <<link, line, autoAck, idx, rbuf, opening, bus, acks>>
    BY DEF ReceiveNothing, Entered, lineVars, loopVars, busVars
  <1>2. InStep
    BY <1>1 DEF IInv, Linked
  <1>3. AtReceive /\ op \notin WriteOp
    BY <1>1, <1>2 DEF InStep, AtReceive, ReadOp, WriteOp
  <1>4. call' = "stop" /\ op' = op
    BY <1>1 DEF Return, NextMethod
  <1>5. Len(acks) = idx /\ \A n \in 1..Len(acks) : acks[n] = autoAck
    BY <1>3 DEF AtReceive
  <1>6. AtStop'
    BY <1>1, <1>3, <1>4, <1>5 DEF AtStop, AtReceive
  <1>7. idx' = 0
    BY <1>1, <1>3 DEF AtReceive
  <1> QED
    BY <1>1, <1>2, <1>4, <1>6, <1>7 DEF InStep


LEMMA ReceiveByteStep == IInv /\ ReceiveByte => IInv'
  <1> SUFFICES ASSUME IInv, ReceiveByte, Linked' PROVE InStep'
    BY DEF IInv
  <1>1. PICK b \in DeviceByte, junk \in Junk, before \in Junk : \E a \in Answers(<<b, 1>>) :
          IF ReadByte(a, 2, junk) = 1
            THEN /\ Consume(a, 2)
                 /\ IfLinked(BusReceive(b, AckBit))
                 /\ rbuf' = Append(rbuf, ReadByte(a, 1, before))
                 /\ autoAck' = AutoAckAfter
                 /\ IF LastByte THEN idx' = 0 /\ Return
                                ELSE idx' = idx + 1 /\ UNCHANGED ehweVars
                 /\ UNCHANGED <<ready, user>>
            ELSE Abort
    BY DEF ReceiveByte
  <1>2. PICK a \in Answers(<<b, 1>>) :
          /\ Consume(a, 2)
          /\ IfLinked(BusReceive(b, AckBit))
          /\ autoAck' = autoAck
          /\ IF LastByte THEN idx' = 0 /\ Return
                         ELSE idx' = idx + 1 /\ UNCHANGED ehweVars
    BY <1>1 DEF Abort, AbortAfter, Linked, Running, AutoAckAfter
  <1>3. Running /\ call = "receiveData" /\ op.len > 0
    BY DEF ReceiveByte, Entered
  <1>4. b \in Byte /\ <<b, 1>> \in Seq(Byte) /\ Len(<<b, 1>>) = 2
    BY <1>1, AdapterAssumption DEF AdapterAssumption, Byte
  <1>5. link = "up" => line = <<>>
    BY <1>3 DEF IInv, Linked, InStep
  <1>6. link = "up" /\ line' = <<>>
    BY <1>2, <1>4, <1>5, ReadWhole DEF Linked
  <1>7. InStep /\ AtReceive
    BY <1>3, <1>6 DEF IInv, Linked, InStep
  <1>8. BusData(b) /\ acks' = Append(acks, AckBit) /\ opening' = opening
    BY <1>2, <1>6 DEF IfLinked, BusReceive
  <1>9. AckBit \in {0, 1} /\ (LastByte => AckBit = 0) /\ (~LastByte => AckBit = autoAck)
    BY <1>7 DEF AckBit, InStep
  <1>10. /\ acks' \in Seq({0, 1}) /\ Len(acks') = Len(acks) + 1 /\ acks'[Len(acks')] = AckBit
         /\ \A n \in 1..Len(acks') : n < Len(acks') => n \in 1..Len(acks) /\ acks'[n] = acks[n]
    BY <1>7, <1>8, <1>9, OneMoreAck DEF InStep
  <1>11. bus' \in Seq(Message) /\ bus' # <<>>
    BY <1>4, <1>7, <1>8, DataOnBus DEF InStep, AtReceive
  <1>12. /\ op \in ReadOp /\ op # NoOp /\ op \notin WriteOp /\ ~opening /\ op.len \in Nat
         /\ idx \in Nat /\ idx < op.len
         /\ Len(acks) = idx /\ \A n \in 1..idx : acks[n] = autoAck
    BY <1>3, <1>7, NoOpIsNoCall DEF AtReceive, ReadOp, WriteOp
  <1>13. \A n \in 1..Len(acks') : n < Len(acks') => acks'[n] = autoAck
    BY <1>10, <1>12
  <1>14. CASE LastByte
    <2>1. idx' = 0 /\ call' = "stop" /\ op' = op
      BY <1>2, <1>3, <1>14 DEF Return, NextMethod
    <2>2. Len(acks') > 0 /\ acks'[Len(acks')] = 0
      BY <1>9, <1>10, <1>12, <1>14
    <2>3. AtStop'
      BY <1>2, <1>12, <1>13, <2>1, <2>2 DEF AtStop
    <2> QED
      BY <1>2, <1>6, <1>7, <1>10, <1>11, <1>12, <2>1, <2>3 DEF InStep
  <1>15. CASE ~LastByte
    <2>1. idx' = idx + 1 /\ op' = op /\ call' = "receiveData"
      BY <1>2, <1>3, <1>15 DEF ehweVars
    <2>2. idx' \in Nat /\ idx' < op.len
      BY <1>12, <1>15, <2>1 DEF LastByte
    <2>3. \A n \in 1..Len(acks') : acks'[n] = autoAck
      BY <1>9, <1>10, <1>13, <1>15
    <2>4. AtReceive'
      BY <1>2, <1>3, <1>8, <1>10, <1>11, <1>12, <2>1, <2>2, <2>3 DEF AtReceive
    <2> QED
      BY <1>2, <1>6, <1>7, <1>10, <1>11, <1>12, <2>1, <2>4 DEF InStep
  <1> QED
    BY <1>14, <1>15

LEMMA StopStep == IInv /\ Stop => IInv'
  <1> SUFFICES ASSUME IInv, Stop, Linked' PROVE InStep'
    BY DEF IInv
  <1>1. PICK a \in Answers(<<1>>) : Consume(a, 1) /\ BusStop /\ Return /\ UNCHANGED <<autoAck, idx>>
    BY DEF Stop, AbortAfter, Linked, Running
  <1>2. Running /\ call = "stop" /\ <<1>> \in Seq(Byte) /\ Len(<<1>>) = 1
    BY DEF Stop, Entered, Byte
  <1>3. link = "up" /\ line' = <<>>
    BY <1>1, <1>2, ReadWhole DEF IInv, Linked, InStep
  <1>4. InStep
    BY <1>2, <1>3 DEF IInv, Linked
  <1>5. call' = "none" /\ op' = NoOp
    BY <1>1, <1>2 DEF Return, NextMethod
  <1>6. bus' \in Seq(Message)
    BY <1>1 DEF BusStop
  <1> QED
    BY <1>1, <1>2, <1>3, <1>4, <1>5, <1>6 DEF InStep, BusStop

LEMMA UnchangedStep == IInv /\ UNCHANGED vars => IInv'
  <1> SUFFICES ASSUME IInv, UNCHANGED vars, Linked' PROVE InStep'
    BY DEF IInv
  <1>1. UNCHANGED <<op, call, status, link, line, autoAck, idx, opening, bus, acks>>
    BY DEF vars, ehweVars, lineVars, loopVars, busVars
  <1>2. InStep
    BY <1>1 DEF IInv, Linked, Running
  <1> QED
    BY <1>1, <1>2 DEF InStep, AtSend, AtReceive, AtStop

LEMMA HangUpStep == HangUp => IInv'
  BY DEF HangUp, IInv, Linked

LEMMA WithoutBufferStep == WithoutBuffer => IInv'
  BY DEF WithoutBuffer, NoBuffer, IInv, Linked, Running

LEMMA IInvKept == IInv /\ [Next]_vars => IInv'
  BY ConfigureStep, CallStep, SetAutoAckStep, StartStep, SendByteStep, SendDataStep,
     ReceiveNothingStep, ReceiveByteStep, StopStep, UnchangedStep, HangUpStep, WithoutBufferStep
     DEF Next, Ended
-----------------------------------------------------------------------------
(* The driver implements the bus.  What the caller asked for has to be followed
   on a dead line as well: there the calls that are under way still return, or
   end the process. *)

\* The last message on the bus is that of the call in progress.
OnBus ==
  /\ bus # <<>>
  /\ LET m == bus[Len(bus)]
     IN /\ m = Bus!Message(IF op.kind = "read" THEN I2C_M_RD ELSE 0, op.addr, m.data)
        /\ op.kind = "write" => \E n \in 0..Len(op.data) : m.data = SubSeq(op.data, 1, n)

\* Of a read the caller's buffer has what the bus has.
Filled ==
  /\ rbuf \in Seq(DeviceByte) /\ rbuf = bus[Len(bus)].data
  /\ Len(rbuf) = IF call = "stop" THEN op.len ELSE idx

InRead == op # NoOp /\ op.kind = "read" /\ call \in {"receiveData", "stop"}

Followed ==
  /\ bus \in Seq(Message)
  /\ op = NoOp <=> call = "none"
  /\ op # NoOp => op.addr < AddressLimit
  /\ opening <=> call = "sendByte"
  /\ call \in {"sendData", "receiveData", "stop"} => OnBus
  /\ call = "sendData" => op.kind = "write"
  /\ call = "receiveData" => op.kind = "read"
  /\ call = "stop" => op.kind = "read" \/ op.stop
  /\ link = "up" => IF InRead THEN Filled ELSE rbuf = <<>>

Types == TypeOK /\ line = <<>>
BInv == IInv /\ Types /\ (Running => Followed)

\* Sequences whose last element is split off, put there, or replaced.
LEMMA FrontOfAppend ==
  ASSUME NEW S, NEW s \in Seq(S), NEW m \in S
  PROVE  /\ Append(s, m) \in Seq(S) /\ Append(s, m) # <<>>
         /\ Append(s, m)[Len(Append(s, m))] = m /\ Front(Append(s, m)) = s
  <1> DEFINE t == Append(s, m)
  <1>1. t \in Seq(S) /\ Len(t) = Len(s) + 1 /\ t[Len(t)] = m /\ \A i \in 1..Len(s) : t[i] = s[i]
    OBVIOUS
  <1> HIDE DEF t
  <1>2. t # <<>>
    BY <1>1
  <1>3. SubSeq(t, 1, Len(s)) \in Seq(S) /\ Len(SubSeq(t, 1, Len(s))) = Len(s)
        /\ \A i \in 1..Len(s) : SubSeq(t, 1, Len(s))[i] = t[i]
    BY <1>1
  <1>4. SubSeq(t, 1, Len(s)) = s
    BY <1>1, <1>3, SeqEqual
  <1>5. Front(t) = s
    BY <1>1, <1>4 DEF Front
  <1> QED
    BY <1>1, <1>2, <1>5 DEF t

LEMMA FrontProperties ==
  ASSUME NEW S, NEW s \in Seq(S), s # <<>>
  PROVE  /\ Front(s) \in Seq(S) /\ Len(Front(s)) = Len(s) - 1
         /\ \A i \in 1..Len(s) - 1 : Front(s)[i] = s[i]
  <1> DEFINE n == Len(s) - 1
  <1>1. Len(s) \in Nat /\ Len(s) > 0
    BY EmptySeq
  <1>2. n \in 0..Len(s)
    BY <1>1
  <1> HIDE DEF n
  <1>3. SubSeq(s, 1, n) \in Seq(S) /\ Len(SubSeq(s, 1, n)) = n
        /\ \A i \in 1..n : SubSeq(s, 1, n)[i] = s[i]
    BY <1>2
  <1> QED
    BY <1>3 DEF Front, n

LEMMA FrontAndLast ==
  ASSUME NEW S, NEW s \in Seq(S), s # <<>>
  PROVE  Front(s) \in Seq(S) /\ s[Len(s)] \in S /\ Append(Front(s), s[Len(s)]) = s
  <1>1. Len(s) \in Nat /\ Len(s) > 0 /\ s[Len(s)] \in S
    BY EmptySeq
  <1>2. Front(s) \in Seq(S) /\ Len(Front(s)) = Len(s) - 1
        /\ \A i \in 1..Len(s) - 1 : Front(s)[i] = s[i]
    BY FrontProperties
  <1> DEFINE t == Append(Front(s), s[Len(s)])
  <1>3. t \in Seq(S) /\ Len(t) = Len(s) /\ \A i \in 1..Len(s) : t[i] = s[i]
    BY <1>1, <1>2
  <1>4. t = s
    BY <1>3, SeqEqual
  <1> QED
    BY <1>1, <1>2, <1>4

LEMMA FrontOfExcept ==
  ASSUME NEW S, NEW s \in Seq(S), s # <<>>, NEW m \in S
  PROVE  /\ [s EXCEPT ![Len(s)] = m] \in Seq(S) /\ [s EXCEPT ![Len(s)] = m] # <<>>
         /\ Len([s EXCEPT ![Len(s)] = m]) = Len(s) /\ [s EXCEPT ![Len(s)] = m][Len(s)] = m
         /\ Front([s EXCEPT ![Len(s)] = m]) = Front(s)
  <1> DEFINE t == [s EXCEPT ![Len(s)] = m]
  <1>1. Len(s) \in Nat /\ Len(s) > 0
    BY EmptySeq
  <1>2. t \in Seq(S) /\ Len(t) = Len(s) /\ t[Len(s)] = m /\ \A i \in 1..Len(s) - 1 : t[i] = s[i]
    BY <1>1, ExceptSeq
  <1> HIDE DEF t
  <1>3. t # <<>>
    BY <1>1, <1>2
  <1>4. Front(s) \in Seq(S) /\ Len(Front(s)) = Len(s) - 1 /\ \A i \in 1..Len(s) - 1 : Front(s)[i] = s[i]
    BY FrontProperties
  <1>5. Front(t) \in Seq(S) /\ Len(Front(t)) = Len(s) - 1 /\ \A i \in 1..Len(s) - 1 : Front(t)[i] = t[i]
    BY <1>2, <1>3, FrontProperties
  <1>6. Front(t) = Front(s)
    BY <1>1, <1>2, <1>4, <1>5, SeqEqual
  <1> QED
    BY <1>2, <1>3, <1>6 DEF t

\* A read leaves nothing on the line, and one from a dead line leaves it dead.
LEMMA Consumed ==
  ASSUME line = <<>>, NEW reply \in Seq(Byte), NEW a \in Answers(reply), Consume(a, Len(reply))
  PROVE  /\ line' = <<>> /\ link' \in {"up", "down"}
         /\ link' = "up" => link = "up" /\ a.bytes = reply
         /\ a.bytes \in Seq(Byte)
  <1>1. link' = "up" => line' = <<>> /\ link = "up" /\ a.bytes = reply
    BY ReadWhole
  <1>2. link' # "up" => link' = "down" /\ line' = <<>>
    BY DEF Consume
  <1>3. a.bytes \in Seq(Byte)
    <2>1. CASE link = "up"
      <3>1. PICK n \in 0..Len(reply) : a.bytes = line \o SubSeq(reply, 1, n)
        BY <2>1 DEF Answers
      <3>2. SubSeq(reply, 1, n) \in Seq(Byte)
        OBVIOUS
      <3> QED
        BY <3>1, <3>2, ConcatEmptySeq
    <2>2. CASE link # "up"
      <3>1. a.bytes = <<>>
        BY <2>2 DEF Answers
      <3>2. <<>> \in Seq(Byte)
        OBVIOUS
      <3> QED
        BY <3>1, <3>2
    <2> QED
      BY <2>1, <2>2
  <1> QED
    BY <1>1, <1>2, <1>3

\* An acknowledgement read is one that arrived whole.
LEMMA Acknowledged ==
  ASSUME line = <<>>, NEW a \in Answers(<< 1 >>), ReadByte(a, 1, 0) = 1
  PROVE  a.alive /\ link = "up"
  <1>1. Len(a.bytes) >= 1
    BY DEF ReadByte, Answers
  <1>2. link = "up"
    BY <1>1 DEF Answers
  <1>3. PICK n \in 0..Len(<<1>>) : a = [bytes |-> line \o SubSeq(<<1>>, 1, n), alive |-> n = Len(<<1>>)]
    BY <1>2 DEF Answers
  <1>4. n = 0 => a.bytes = <<>>
    <2>1. SubSeq(<<1>>, 1, 0) = <<>>
      OBVIOUS
    <2> QED
      BY <1>3, <2>1
  <1>5. n = Len(<<1>>)
    BY <1>1, <1>3, <1>4
  <1> QED
    BY <1>2, <1>3, <1>5

\* The end of the process, or a step the caller cannot see, changes nothing
\* the caller knows of.
LEMMA Unheard ==
  ASSUME UNCHANGED <<Session, wire, user, op>>, status' \in {status, "failed", "rejected"}, Running
  PROVE  [Bus!Next]_(Bus!busVars)
  BY DEF Bus!Next, Bus!Abort, Bus!busVars, Running

\* What each step is to the caller: the end of the process,
LEMMA AbortSeen ==
  ASSUME BInv, Running, Abort
  PROVE  Types' /\ [Bus!Next]_(Bus!busVars) /\ ~Running'
  <1>1. UNCHANGED <<op, call, link, line, ready, autoAck, idx, rbuf, opening, bus, acks, wire, user>>
        /\ status' = "failed"
    BY DEF Abort, AbortAfter, lineVars, loopVars, busVars
  <1>2. Session' = Session
    BY <1>1 DEF Session
  <1> QED
    BY <1>1, <1>2, Unheard DEF BInv, Types, TypeOK, Running

\* nothing, while the adapter is configured,
LEMMA ConfigureSeen ==
  ASSUME BInv, Configure
  PROVE  Types' /\ (Running' => Followed') /\ [Bus!Next]_(Bus!busVars)
  <1>1. Running /\ line = <<>>
    BY DEF Configure, BInv, Types
  <1>2. PICK a \in Answers(<<1, 1>>) :
          IF ReadByte(a, 1, 0) = 1 /\ ReadByte(a, 2, 0) = 1
            THEN /\ Consume(a, 2)
                 /\ ready' = TRUE
                 /\ UNCHANGED <<ehweVars, loopVars, busVars, user>>
            ELSE Abort
    BY DEF Configure
  <1>3. CASE Consume(a, 2) /\ ready' = TRUE /\ UNCHANGED <<ehweVars, loopVars, busVars, user>>
    <2>1. <<1, 1>> \in Seq(Byte) /\ Len(<<1, 1>>) = 2
      BY DEF Byte
    <2>2. line' = <<>> /\ link' \in {"up", "down"} /\ (link' = "up" => link = "up")
      BY <1>1, <1>3, <2>1, Consumed
    <2>3. UNCHANGED <<op, call, status, autoAck, idx, rbuf, opening, bus, acks, wire, user>>
      BY <1>3 DEF ehweVars, loopVars, busVars
    <2>4. Types'
      BY <1>3, <2>2, <2>3 DEF BInv, Types, TypeOK
    <2>5. Session' = Session
      BY <2>3 DEF Session
    <2>6. Followed'
      BY <1>1, <2>2, <2>3 DEF BInv, Followed, OnBus, Filled, InRead
    <2> QED
      BY <1>1, <2>3, <2>4, <2>5, <2>6, Unheard
  <1> QED
    BY <1>1, <1>2, <1>3, AbortSeen

\* a request,
LEMMA CallSeen ==
  ASSUME BInv, Call
  PROVE  Types' /\ (Running' => Followed') /\ [Bus!Next]_(Bus!busVars)
  <1>1. PICK o \in Requests : Enter(o)
    BY DEF Call
  <1>2. /\ Running /\ op = NoOp
        /\ UNCHANGED <<link, line, ready, autoAck, idx, rbuf, opening, bus, acks, wire, user>>
    BY <1>1 DEF Call, Enter, lineVars, loopVars, busVars
  <1>3. Followed /\ call = "none"
    BY <1>2 DEF BInv, Followed
  <1>4. CASE o.addr < AddressLimit
    <2>1. op' = o /\ call' = "start" /\ status' = status /\ o # NoOp
      BY <1>1, <1>4, RequestsAssumption, NoOpIsNoCall DEF Enter, RequestsAssumption
    <2>2. Types'
      BY <1>2, <2>1 DEF BInv, Types, TypeOK
    <2>3. Followed'
      BY <1>2, <1>3, <1>4, <2>1 DEF Followed, InRead
    <2>4. Session' = Session
      BY <1>2, <1>3, <2>1 DEF Session
    <2>5. Bus!Request
      BY <1>2, <2>1, <2>4 DEF Bus!Request, Running
    <2> QED
      BY <2>2, <2>3, <2>5 DEF Bus!Next
  <1>5. CASE ~(o.addr < AddressLimit)
    <2>1. status' = "rejected" /\ UNCHANGED <<op, call>>
      BY <1>1, <1>5 DEF Enter
    <2>2. Types' /\ ~Running'
      BY <1>2, <2>1 DEF BInv, Types, TypeOK, Running
    <2>3. Session' = Session
      BY <1>2, <2>1 DEF Session
    <2> QED
      BY <1>2, <2>1, <2>2, <2>3, Unheard
  <1> QED
    BY <1>4, <1>5

\* nothing, between calls,
LEMMA SetAutoAckSeen ==
  ASSUME BInv, SetAutoAck
  PROVE  Types' /\ (Running' => Followed') /\ [Bus!Next]_(Bus!busVars)
  <1>1. /\ Running /\ autoAck' \in {0, 1}
        /\ UNCHANGED <<op, call, status, link, line, ready, idx, rbuf, opening, bus, acks, wire, user>>
    BY DEF SetAutoAck, ehweVars, lineVars, busVars
  <1>2. Types'
    BY <1>1 DEF BInv, Types, TypeOK
  <1>3. Followed'
    BY <1>1 DEF BInv, Followed, OnBus, Filled, InRead
  <1>4. Session' = Session
    BY <1>1 DEF Session
  <1> QED
    BY <1>1, <1>2, <1>3, <1>4, Unheard

\* nothing, after START,
LEMMA StartSeen ==
  ASSUME BInv, Start
  PROVE  Types' /\ (Running' => Followed') /\ [Bus!Next]_(Bus!busVars)
  <1>1. Running /\ call = "start" /\ line = <<>> /\ Followed /\ op # NoOp
    BY DEF Start, Entered, BInv, Types, Followed
  <1>2. PICK a \in Answers(<<1>>) :
          IF ReadByte(a, 1, 0) = 1
            THEN Consume(a, 1) /\ BusStart /\ Return /\ UNCHANGED <<ready, loopVars, user>>
            ELSE Abort
    BY DEF Start
  <1>3. CASE Consume(a, 1) /\ BusStart /\ Return /\ UNCHANGED <<ready, loopVars, user>>
    <2>1. <<1>> \in Seq(Byte) /\ Len(<<1>>) = 1
      BY DEF Byte
    <2>2. line' = <<>> /\ link' \in {"up", "down"} /\ (link' = "up" => link = "up")
      BY <1>1, <1>3, <2>1, Consumed
    <2>3. /\ opening' = TRUE /\ call' = "sendByte" /\ op' = op
          /\ UNCHANGED <<status, ready, autoAck, idx, rbuf, bus, acks, wire, user>>
      BY <1>1, <1>3 DEF BusStart, Return, NextMethod, loopVars
    <2>4. Types'
      BY <2>2, <2>3 DEF BInv, Types, TypeOK
    <2>5. Followed'
      BY <1>1, <2>2, <2>3 DEF Followed, InRead
    <2>6. Session' = Session
      BY <1>1, <2>3 DEF Session
    <2> QED
      BY <1>1, <2>3, <2>4, <2>5, <2>6, Unheard
  <1> QED
    BY <1>1, <1>2, <1>3, AbortSeen

\* A bulk command, on a line that is up or not.
LEMMA BulkSeen ==
  ASSUME line = <<>>, NEW naks, naks \subseteq {0, 1}, NEW k \in Bulks(naks), NEW b,
         BulkOk(k), SendBulk(b, k)
  PROVE  /\ line' = <<>> /\ link' \in {"up", "down"} /\ (link' = "up" => link = "up")
         /\ k.bit \in {0, 1} /\ k.nak \in {0, 1} /\ (link # "up" => k.bit = 1)
         /\ IF link = "up" THEN BusSend(b, k.nak) ELSE UNCHANGED busVars
  <1>1. PICK n \in naks, j \in Junk : \E a \in Answers(<<1, n>>) :
          k = [nak |-> n, answer |-> a, taken |-> ReadByte(a, 1, j),
               bit |-> ReadByte(a, 2, ReadByte(a, 1, j))]
    BY DEF Bulks
  <1>2. PICK a \in Answers(<<1, n>>) :
          k = [nak |-> n, answer |-> a, taken |-> ReadByte(a, 1, j),
               bit |-> ReadByte(a, 2, ReadByte(a, 1, j))]
    BY <1>1
  <1>3. n \in {0, 1} /\ <<1, n>> \in Seq(Byte) /\ Len(<<1, n>>) = 2
    BY <1>1 DEF Byte
  <1>4. Consume(a, 2) /\ IfLinked(BusSend(b, n))
    BY <1>2 DEF SendBulk
  <1>5. line' = <<>> /\ link' \in {"up", "down"} /\ (link' = "up" => link = "up")
    BY <1>3, <1>4, Consumed
  <1>6. link # "up" => k.bit = 1
    <2> SUFFICES ASSUME link # "up" PROVE k.bit = 1
      OBVIOUS
    <2>1. a.bytes = <<>>
      BY DEF Answers
    <2>2. ReadByte(a, 1, j) = j /\ ReadByte(a, 2, j) = j
      BY <2>1 DEF ReadByte
    <2> QED
      BY <1>2, <2>2 DEF BulkOk
  <1> QED
    BY <1>2, <1>3, <1>4, <1>5, <1>6 DEF IfLinked, BulkOk

\* nothing after the address, or a held write of no bytes,
LEMMA SendByteSeen ==
  ASSUME BInv, SendByte
  PROVE  Types' /\ (Running' => Followed') /\ [Bus!Next]_(Bus!busVars)
  <1>1. Running /\ call = "sendByte" /\ line = <<>> /\ Followed /\ op # NoOp /\ opening
        /\ op \in Requests /\ op.addr < AddressLimit /\ bus \in Seq(Message)
        /\ UNCHANGED <<ready, autoAck, idx, rbuf, user>>
    BY DEF SendByte, Entered, BInv, Types, TypeOK, Followed, loopVars
  <1>2. PICK k \in Bulks({0, 1}) :
          IF BulkOk(k) THEN SendBulk(AddressByte, k) /\ ReturnAck(1 - k.bit) ELSE Abort
    BY DEF SendByte
  <1>3. CASE BulkOk(k) /\ SendBulk(AddressByte, k) /\ ReturnAck(1 - k.bit)
    <2> DEFINE m == [flags |-> AddressByte % 2, addr |-> AddressByte \div 2, len |-> 0, data |-> <<>>]
    <2>1. /\ line' = <<>> /\ link' \in {"up", "down"} /\ (link' = "up" => link = "up")
          /\ k.bit \in {0, 1} /\ k.nak \in {0, 1} /\ (link # "up" => k.bit = 1)
          /\ IF link = "up" THEN BusSend(AddressByte, k.nak) ELSE UNCHANGED busVars
      BY <1>1, <1>3, BulkSeen
    <2>2. op \in WriteOp \cup ReadOp
      BY <1>1, RequestsAssumption DEF RequestsAssumption
    <2>3. /\ m = Bus!Message(IF op.kind = "read" THEN I2C_M_RD ELSE 0, op.addr, <<>>)
          /\ m \in Message
      <3>1. op.addr \in 0..127
        <4>1. op.addr \in 0..255
          BY <2>2 DEF WriteOp, ReadOp, Byte
        <4>2. op.addr < 128
          BY <1>1 DEF AddressLimit
        <4> QED
          BY <4>1, <4>2
      <3>2. op.kind \in {"read", "write"}
        BY <2>2 DEF WriteOp, ReadOp
      <3>3. CASE op.kind = "read"
        <4>1. AddressByte % 2 = 1 /\ AddressByte \div 2 = op.addr
          BY <3>1, <3>3 DEF AddressByte, READ_ADDR
        <4> QED
          BY <3>1, <3>3, <4>1 DEF Bus!Message, Message, I2C_M_RD
      <3>4. CASE op.kind = "write"
        <4>1. AddressByte % 2 = 0 /\ AddressByte \div 2 = op.addr
          BY <3>1, <3>4 DEF AddressByte, WRITE_ADDR
        <4> QED
          BY <3>1, <3>4, <4>1 DEF Bus!Message, Message
      <3> QED
        BY <3>2, <3>3, <3>4
    <2>4. m.data = <<>>
      OBVIOUS
    <2> HIDE DEF m
    <2>5. link = "up" => bus' = Append(bus, m) /\ opening' = FALSE /\ acks' = <<>> /\ UNCHANGED wire
      BY <1>1, <2>1 DEF BusSend, m
    <2>6. /\ Append(bus, m) \in Seq(Message) /\ Append(bus, m) # <<>>
          /\ Append(bus, m)[Len(Append(bus, m))] = m /\ Front(Append(bus, m)) = bus
      BY <1>1, <2>3, FrontOfAppend
    <2>7. /\ op' \in Requests \cup {NoOp}
          /\ call' \in {"none", "start", "sendByte", "sendData", "receiveData", "stop"}
          /\ status' \in {"running", "failed"}
      BY <1>1, <1>3 DEF ReturnAck, Return, NextMethod, AfterWrite, Running
    <2>8. Types'
      <3>1. opening' \in BOOLEAN /\ acks' \in Seq({0, 1})
        <4>1. CASE link = "up"
          <5>1. <<>> \in Seq({0, 1})
            OBVIOUS
          <5> QED
            BY <2>5, <4>1, <5>1
        <4>2. CASE link # "up"
          BY <2>1, <4>2 DEF BInv, Types, TypeOK, busVars
        <4> QED
          BY <4>1, <4>2
      <3>2. <<>> \in Seq(Byte)
        OBVIOUS
      <3> QED
        BY <1>1, <2>1, <2>7, <3>1, <3>2 DEF BInv, Types, TypeOK
    <2>9. CASE k.bit = 1
      <3>1. status' = "failed" /\ UNCHANGED <<op, call>>
        BY <1>3, <2>9 DEF ReturnAck
      <3>2. Session' = Session /\ wire' = wire
        <4>1. CASE link = "up"
          BY <1>1, <2>5, <2>6, <3>1, <4>1 DEF Session
        <4>2. CASE link # "up"
          BY <2>1, <3>1, <4>2 DEF Session, busVars
        <4> QED
          BY <4>1, <4>2
      <3> QED
        BY <1>1, <2>8, <3>1, <3>2, Unheard DEF Running
    <2>10. CASE k.bit = 0
      <3>1. Return /\ link = "up"
        BY <1>3, <2>1, <2>10 DEF ReturnAck
      <3>2. IInv /\ idx = 0 /\ rbuf = <<>>
        BY <1>1, <3>1 DEF BInv, IInv, Linked, InStep, Followed, InRead
      <3>3. /\ bus' = Append(bus, m) /\ ~opening' /\ wire' = wire /\ status' = status
            /\ bus'[Len(bus')] = m /\ bus' # <<>> /\ Front(bus') = bus /\ bus' \in Seq(Message)
        BY <2>5, <2>6, <3>1 DEF Return
      <3>4. Session = bus
        BY <1>1 DEF Session
      <3>5. CASE op.kind = "read"
        <4>1. call' = "receiveData" /\ op' = op
          BY <1>1, <3>1, <3>5 DEF Return, NextMethod
        <4>2. OnBus'
          BY <2>3, <2>4, <3>3, <3>5, <4>1 DEF OnBus
        <4>3. Filled'
          <5>1. <<>> \in Seq(DeviceByte) /\ Len(<<>>) = 0
            OBVIOUS
          <5> QED
            BY <1>1, <2>4, <3>2, <3>3, <4>1, <5>1 DEF Filled
        <4>4. Followed'
          BY <1>1, <3>3, <3>5, <4>1, <4>2, <4>3 DEF Followed, InRead
        <4>5. Session' = Session
          BY <1>1, <3>3, <3>4, <4>1 DEF Session
        <4> QED
          BY <1>1, <2>8, <3>3, <4>1, <4>4, <4>5, Unheard
      <3>6. CASE op.kind = "write"
        <4>1. op.data \in Seq(Byte) /\ Len(op.data) \in Nat
          BY <2>2, <3>6, DataOfWrite DEF ReadOp
        <4>2. 0 \in 0..Len(op.data) /\ m.data = SubSeq(op.data, 1, 0)
          <5>1. SubSeq(op.data, 1, 0) = <<>>
            BY <4>1
          <5> QED
            BY <2>4, <4>1, <5>1
        <4>3. CASE NextMethod # "none"
          <5>1. /\ op' = op /\ call' \in {"sendData", "stop"} /\ (call' = "stop" => op.stop)
            BY <1>1, <3>1, <3>6, <4>3 DEF Return, NextMethod, AfterWrite
          <5>2. OnBus'
            BY <2>3, <2>4, <3>3, <3>6, <4>2, <5>1 DEF OnBus
          <5>3. Followed'
            BY <1>1, <3>2, <3>3, <3>6, <5>1, <5>2 DEF Followed, InRead
          <5>4. Session' = Session
            BY <1>1, <3>3, <3>4, <5>1 DEF Session
          <5> QED
            BY <1>1, <2>8, <3>3, <5>1, <5>3, <5>4, Unheard
        <4>4. CASE NextMethod = "none"
          <5>1. call' = "none" /\ op' = NoOp /\ ~op.stop
            BY <1>1, <3>1, <3>6, <4>4 DEF Return, NextMethod, AfterWrite
          <5>2. Followed'
            BY <1>1, <3>2, <3>3, <5>1 DEF Followed, InRead
          <5>3. Session' = Append(Session, m)
            BY <3>3, <3>4, <5>1 DEF Session
          <5>4. SubSeq(op.data, 1, 0) \in Bus!Sent(op.data)
            BY <4>2 DEF Bus!Sent
          <5>5. m = Bus!Message(0, op.addr, SubSeq(op.data, 1, 0))
            BY <2>3, <2>4, <3>6, <4>2
          <5>6. Bus!HoldWrite
            BY <1>1, <3>3, <3>6, <5>1, <5>3, <5>4, <5>5 DEF Bus!HoldWrite, Running
          <5> QED
            BY <2>8, <5>2, <5>6 DEF Bus!Next
        <4> QED
          BY <4>3, <4>4
      <3> QED
        BY <2>2, <3>5, <3>6 DEF WriteOp, ReadOp
    <2> QED
      BY <2>1, <2>9, <2>10
  <1> QED
    BY <1>1, <1>2, <1>3, AbortSeen

\* A message of the bus with one more byte is one again.
LEMMA MessageBuilt ==
  ASSUME NEW m \in Message, NEW b \in Byte, m.len = Len(m.data)
  PROVE  WithByte(m, b) = Bus!Message(m.flags, m.addr, Append(m.data, b))
  <1> DEFINE w == WithByte(m, b)
             d == Append(m.data, b)
  <1>1. w \in Message /\ w.flags = m.flags /\ w.addr = m.addr /\ w.len = m.len + 1 /\ w.data = d
    BY MessageWithByte DEF Message, WithByte
  <1>2. Len(d) = m.len + 1
    BY DEF Message
  <1> HIDE DEF w, d
  <1>3. w = [flags |-> w.flags, addr |-> w.addr, len |-> w.len, data |-> w.data]
    BY <1>1 DEF Message
  <1>4. w = [flags |-> m.flags, addr |-> m.addr, len |-> Len(d), data |-> d]
    BY <1>1, <1>2, <1>3
  <1> QED
    BY <1>4 DEF Bus!Message, w, d

\* A byte on the bus goes to the last message and leaves those before it.
LEMMA LastLonger ==
  ASSUME bus \in Seq(Message), OnBus, NEW b \in Byte, BusData(b)
  PROVE  /\ bus' \in Seq(Message) /\ bus' # <<>> /\ Front(bus') = Front(bus)
         /\ bus'[Len(bus')].data = Append(bus[Len(bus)].data, b)
         /\ bus'[Len(bus')] = Bus!Message(IF op.kind = "read" THEN I2C_M_RD ELSE 0, op.addr,
                                          bus'[Len(bus')].data)
  <1> DEFINE m == bus[Len(bus)]
  <1>1. bus # <<>> /\ m \in Message
    BY EmptySeq DEF OnBus
  <1>2. bus' = [bus EXCEPT ![Len(bus)] = WithByte(m, b)]
    BY DEF BusData
  <1>3. WithByte(m, b) \in Message /\ WithByte(m, b).data = Append(m.data, b)
    BY <1>1, MessageWithByte
  <1>4. /\ bus' \in Seq(Message) /\ bus' # <<>> /\ Front(bus') = Front(bus)
        /\ bus'[Len(bus')] = WithByte(m, b)
    <2> DEFINE w == WithByte(m, b)
               t == [bus EXCEPT ![Len(bus)] = w]
    <2>1. w \in Message
      BY <1>3
    <2> HIDE DEF w
    <2>2. /\ t \in Seq(Message) /\ t # <<>> /\ Len(t) = Len(bus) /\ t[Len(bus)] = w
          /\ Front(t) = Front(bus)
      BY <1>1, <2>1, FrontOfExcept
    <2>3. bus' = t
      BY <1>2 DEF w
    <2> HIDE DEF t
    <2> QED
      BY <2>2, <2>3 DEF w
  <1>5. m = Bus!Message(IF op.kind = "read" THEN I2C_M_RD ELSE 0, op.addr, m.data)
    BY DEF OnBus
  <1> HIDE DEF m
  <1>6. WithByte(m, b) = Bus!Message(m.flags, m.addr, Append(m.data, b))
    <2>1. m.len = Len(m.data)
      BY <1>5 DEF Bus!Message
    <2> QED
      BY <1>1, <2>1, MessageBuilt
  <1>7. m.flags = (IF op.kind = "read" THEN I2C_M_RD ELSE 0) /\ m.addr = op.addr
    BY <1>5 DEF Bus!Message
  <1> QED
    BY <1>3, <1>4, <1>6, <1>7 DEF m

\* nothing while bytes go out, and behind the last the end of a held write,
LEMMA SendDataSeen ==
  ASSUME BInv, SendData
  PROVE  Types' /\ (Running' => Followed') /\ [Bus!Next]_(Bus!busVars)
  <1>1. Running /\ call = "sendData" /\ line = <<>> /\ Followed /\ op # NoOp /\ ~opening /\ OnBus
        /\ op \in Requests /\ op.addr < AddressLimit /\ bus \in Seq(Message) /\ op.kind = "write"
        /\ UNCHANGED <<ready, autoAck, rbuf, user>>
    BY DEF SendData, Entered, BInv, Types, TypeOK, Followed
  <1>2. PICK k \in Bulks(NakChoices) :
          IF BulkOk(k) THEN SendBulk(op.data[idx + 1], k) /\ SendDataAck(1 - k.bit) ELSE Abort
    BY DEF SendData
  <1>3. CASE BulkOk(k) /\ SendBulk(op.data[idx + 1], k) /\ SendDataAck(1 - k.bit)
    <2> DEFINE m == bus'[Len(bus')]
    <2>1. /\ line' = <<>> /\ link' \in {"up", "down"} /\ (link' = "up" => link = "up")
          /\ k.nak \in {0, 1}
          /\ IF link = "up" THEN BusSend(op.data[idx + 1], k.nak) ELSE UNCHANGED busVars
      BY <1>1, <1>3, BulkSeen, AdapterAssumption DEF AdapterAssumption
    <2>2. op \in WriteOp /\ op.data \in Seq(Byte)
      BY <1>1, DataOfWrite, RequestsAssumption DEF RequestsAssumption, ReadOp
    <2>3. /\ bus' \in Seq(Message) /\ bus' # <<>> /\ Front(bus') = Front(bus)
          /\ m = Bus!Message(0, op.addr, m.data)
          /\ \E n \in 0..Len(op.data) : m.data = SubSeq(op.data, 1, n)
          /\ opening' = opening /\ wire' = wire /\ acks' \in Seq({0, 1})
      <3>1. CASE link = "up"
        <4>1. AtSend
          BY <1>1, <3>1 DEF BInv, IInv, Linked, InStep
        <4>2. idx \in Nat /\ idx < Len(op.data) /\ op.data[idx + 1] \in Byte
              /\ bus[Len(bus)].data = SubSeq(op.data, 1, idx)
          BY <2>2, <4>1 DEF AtSend
        <4>3. BusData(op.data[idx + 1]) /\ acks' = Append(acks, 1 - k.nak)
              /\ UNCHANGED <<opening, wire>>
          BY <1>1, <2>1, <3>1 DEF BusSend
        <4>4. /\ bus' \in Seq(Message) /\ bus' # <<>> /\ Front(bus') = Front(bus)
              /\ m = Bus!Message(0, op.addr, m.data)
              /\ m.data = Append(bus[Len(bus)].data, op.data[idx + 1])
          BY <1>1, <4>2, <4>3, LastLonger
        <4>5. m.data = SubSeq(op.data, 1, idx + 1) /\ idx + 1 \in 0..Len(op.data)
          BY <2>2, <4>2, <4>4, OneMore
        <4>6. 1 - k.nak \in {0, 1} /\ acks \in Seq({0, 1})
          BY <2>1 DEF BInv, Types, TypeOK
        <4> QED
          BY <4>3, <4>4, <4>5, <4>6
      <3>2. CASE link # "up"
        <4>1. UNCHANGED <<opening, bus, acks, wire>>
          BY <2>1, <3>2 DEF busVars
        <4> QED
          BY <1>1, <4>1 DEF OnBus, BInv, Types, TypeOK
      <3> QED
        BY <3>1, <3>2
    <2> HIDE DEF m
    <2>4. Session = Front(bus)
      BY <1>1 DEF Session, OnBus
    <2>5. rbuf' = <<>> \/ link' # "up"
      BY <1>1, <2>1 DEF Followed, InRead
    <2>6. CASE idx' = idx + 1 /\ UNCHANGED ehweVars
      <3>1. UNCHANGED <<op, call, status>>
        BY <2>6 DEF ehweVars
      <3>2. Types'
        BY <1>1, <2>1, <2>3, <2>6, <3>1 DEF BInv, Types, TypeOK
      <3>3. OnBus'
        BY <1>1, <2>3, <3>1 DEF OnBus, m
      <3>4. Followed'
        BY <1>1, <2>3, <2>5, <3>1, <3>3 DEF Followed, InRead
      <3>5. Session' = Session
        BY <1>1, <2>3, <2>4, <3>1 DEF Session
      <3> QED
        BY <1>1, <2>3, <3>1, <3>2, <3>4, <3>5, Unheard
    <2>7. CASE idx' = 0 /\ Return
      <3>1. status' = status /\ idx' = 0
        BY <2>7 DEF Return
      <3>2. \/ op' = op /\ call' = "stop" /\ op.stop
            \/ op' = NoOp /\ call' = "none" /\ ~op.stop
        BY <1>1, <2>7 DEF Return, NextMethod, AfterWrite
      <3>3. Types'
        BY <1>1, <2>1, <2>3, <3>1, <3>2 DEF BInv, Types, TypeOK
      <3>4. CASE call' = "stop"
        <4>1. OnBus'
          BY <1>1, <2>3, <3>2, <3>4 DEF OnBus, m
        <4>2. Followed'
          BY <1>1, <2>3, <2>5, <3>2, <3>4, <4>1 DEF Followed, InRead
        <4>3. Session' = Session
          BY <1>1, <2>3, <2>4, <3>2, <3>4 DEF Session
        <4> QED
          BY <1>1, <2>3, <3>1, <3>2, <3>3, <3>4, <4>2, <4>3, Unheard
      <3>5. CASE call' = "none"
        <4>1. Followed'
          BY <1>1, <2>3, <2>5, <3>2, <3>5 DEF Followed, InRead
        <4>2. bus' = Append(Front(bus'), m)
          BY <2>3, FrontAndLast DEF m
        <4>3. Session' = Append(Session, m)
          BY <2>3, <2>4, <3>2, <3>5, <4>2 DEF Session
        <4>4. m.data \in Bus!Sent(op.data)
          BY <2>3 DEF Bus!Sent
        <4>5. Bus!HoldWrite
          BY <1>1, <2>3, <3>1, <3>2, <3>5, <4>3, <4>4 DEF Bus!HoldWrite, Running
        <4> QED
          BY <3>3, <4>1, <4>5 DEF Bus!Next
      <3> QED
        BY <3>2, <3>4, <3>5
    <2> QED
      BY <1>3, <2>6, <2>7 DEF SendDataAck
  <1> QED
    BY <1>1, <1>2, <1>3, AbortSeen

\* A method of a read that returns, or takes a turn, unseen.
LEMMA ReadGoesOn ==
  ASSUME Running, Followed, call = "receiveData", op # NoOp, op.kind = "read", Types', op' = op,
         status' = status, call' = "stop" \/ call' = "receiveData", ~opening', bus' \in Seq(Message),
         OnBus', Front(bus') = Front(bus), UNCHANGED <<wire, user>>, link' = "up" => Filled'
  PROVE  Types' /\ (Running' => Followed') /\ [Bus!Next]_(Bus!busVars)
  <1>1. Followed'
    BY DEF Followed, InRead
  <1>2. Session' = Front(bus') /\ Session = Front(bus)
    BY DEF Session, OnBus, Followed
  <1> QED
    BY <1>1, <1>2, Unheard

\* nothing, while bytes come in,
LEMMA ReceiveNothingSeen ==
  ASSUME BInv, ReceiveNothing
  PROVE  Types' /\ (Running' => Followed') /\ [Bus!Next]_(Bus!busVars)
  <1>1. /\ Running /\ call = "receiveData" /\ op.len = 0 /\ Return /\ Followed
        /\ op # NoOp /\ op.kind = "read" /\ ~opening /\ OnBus /\ bus \in Seq(Message)
        /\ UNCHANGED <<link, line, ready, autoAck, idx, rbuf, opening, bus, acks, wire, user>>
    BY DEF ReceiveNothing, Entered, BInv, Followed, lineVars, loopVars, busVars
  <1>2. call' = "stop" /\ op' = op /\ status' = status
    BY <1>1 DEF Return, NextMethod
  <1>3. Types'
    BY <1>1, <1>2 DEF BInv, Types, TypeOK
  <1>4. OnBus'
    BY <1>1, <1>2 DEF OnBus
  <1>5. link' = "up" => Filled'
    <2> SUFFICES ASSUME link' = "up" PROVE Filled'
      OBVIOUS
    <2>1. Filled /\ AtReceive
      BY <1>1 DEF Followed, InRead, BInv, IInv, Linked, InStep
    <2>2. idx = 0
      BY <1>1, <2>1 DEF AtReceive
    <2> QED
      BY <1>1, <1>2, <2>1, <2>2 DEF Filled
  <1> QED
    BY <1>1, <1>2, <1>3, <1>4, <1>5, ReadGoesOn

LEMMA ReceiveByteSeen ==
  ASSUME BInv, ReceiveByte
  PROVE  Types' /\ (Running' => Followed') /\ [Bus!Next]_(Bus!busVars)
  <1>1. /\ Running /\ call = "receiveData" /\ line = <<>> /\ Followed
        /\ op # NoOp /\ op.kind = "read" /\ ~opening /\ OnBus /\ bus \in Seq(Message)
    BY DEF ReceiveByte, Entered, BInv, Types, Followed
  <1>2. PICK b \in DeviceByte, junk \in Junk, before \in Junk : \E a \in Answers(<<b, 1>>) :
          IF ReadByte(a, 2, junk) = 1
            THEN /\ Consume(a, 2)
                 /\ IfLinked(BusReceive(b, AckBit))
                 /\ rbuf' = Append(rbuf, ReadByte(a, 1, before))
                 /\ autoAck' = AutoAckAfter
                 /\ IF LastByte THEN idx' = 0 /\ Return
                                ELSE idx' = idx + 1 /\ UNCHANGED ehweVars
                 /\ UNCHANGED <<ready, user>>
            ELSE Abort
    BY DEF ReceiveByte
  <1>3. PICK a \in Answers(<<b, 1>>) :
          IF ReadByte(a, 2, junk) = 1
            THEN /\ Consume(a, 2)
                 /\ IfLinked(BusReceive(b, AckBit))
                 /\ rbuf' = Append(rbuf, ReadByte(a, 1, before))
                 /\ autoAck' = AutoAckAfter
                 /\ IF LastByte THEN idx' = 0 /\ Return
                                ELSE idx' = idx + 1 /\ UNCHANGED ehweVars
                 /\ UNCHANGED <<ready, user>>
            ELSE Abort
    BY <1>2
  <1>4. CASE ReadByte(a, 2, junk) = 1
    <2>1. /\ Consume(a, 2) /\ IfLinked(BusReceive(b, AckBit))
          /\ rbuf' = Append(rbuf, ReadByte(a, 1, before)) /\ autoAck' = autoAck
          /\ IF LastByte THEN idx' = 0 /\ Return ELSE idx' = idx + 1 /\ UNCHANGED ehweVars
          /\ UNCHANGED <<ready, user>>
      BY <1>3, <1>4 DEF AutoAckAfter
    <2>2. b \in Byte /\ <<b, 1>> \in Seq(Byte) /\ Len(<<b, 1>>) = 2 /\ <<b, 1>>[1] = b
      BY AdapterAssumption DEF AdapterAssumption, Byte
    <2>3. /\ line' = <<>> /\ link' \in {"up", "down"}
          /\ link' = "up" => link = "up" /\ a.bytes = <<b, 1>>
          /\ a.bytes \in Seq(Byte)
      BY <1>1, <2>1, <2>2, Consumed
    <2>4. rbuf' \in Seq(Byte)
      <3>1. before \in Byte
        BY DEF Junk, Byte
      <3>2. ReadByte(a, 1, before) \in Byte
        BY <2>3, <3>1 DEF ReadByte
      <3> QED
        BY <2>1, <3>2 DEF BInv, Types, TypeOK
    <2>5. AckBit \in {0, 1} /\ autoAck \in {0, 1} /\ idx \in Nat /\ acks \in Seq({0, 1})
      BY DEF AckBit, BInv, Types, TypeOK
    <2>6. /\ op' = op /\ status' = status /\ call' = (IF LastByte THEN "stop" ELSE "receiveData")
          /\ idx' = IF LastByte THEN 0 ELSE idx + 1
      BY <1>1, <2>1 DEF Return, NextMethod, ehweVars
    <2>7. CASE link = "up"
      <3>1. BusData(b) /\ acks' = Append(acks, AckBit) /\ UNCHANGED <<opening, wire>>
        BY <2>1, <2>7 DEF IfLinked, BusReceive
      <3>2. /\ bus' \in Seq(Message) /\ bus' # <<>> /\ Front(bus') = Front(bus)
            /\ bus'[Len(bus')].data = Append(bus[Len(bus)].data, b)
            /\ bus'[Len(bus')] = Bus!Message(IF op.kind = "read" THEN I2C_M_RD ELSE 0, op.addr,
                                             bus'[Len(bus')].data)
        BY <1>1, <2>2, <3>1, LastLonger
      <3>3. OnBus'
        BY <1>1, <2>6, <3>2 DEF OnBus
      <3>4. acks' \in Seq({0, 1})
        BY <2>5, <3>1
      <3>5. Types'
        BY <2>1, <2>3, <2>4, <2>5, <2>6, <3>1, <3>4 DEF BInv, Types, TypeOK
      <3>6. link' = "up" => Filled'
        <4> SUFFICES ASSUME link' = "up" PROVE Filled'
          OBVIOUS
        <4>1. Filled /\ AtReceive
          BY <1>1, <2>7 DEF Followed, InRead, BInv, IInv, Linked, InStep
        <4>2. ReadByte(a, 1, before) = b
          <5>1. a.bytes = <<b, 1>> /\ Len(a.bytes) = 2 /\ a.bytes[1] = b
            BY <2>2, <2>3
          <5> QED
            BY <5>1 DEF ReadByte
        <4>3. rbuf' = Append(rbuf, b) /\ rbuf \in Seq(DeviceByte) /\ Len(rbuf) = idx
              /\ rbuf = bus[Len(bus)].data
          BY <1>1, <2>1, <4>1, <4>2 DEF Filled
        <4>4. rbuf' \in Seq(DeviceByte) /\ Len(rbuf') = idx + 1
          BY <1>2, <4>3
        <4>5. Len(rbuf') = IF call' = "stop" THEN op.len ELSE idx'
          BY <2>6, <4>4 DEF LastByte
        <4> QED
          BY <2>6, <3>2, <4>3, <4>4, <4>5 DEF Filled
      <3> QED
        BY <1>1, <2>1, <2>6, <3>1, <3>2, <3>3, <3>5, <3>6, ReadGoesOn
    <2>8. CASE link # "up"
      <3>1. UNCHANGED <<opening, bus, acks, wire>>
        BY <2>1, <2>8 DEF IfLinked, busVars
      <3>2. OnBus'
        BY <1>1, <2>6, <3>1 DEF OnBus
      <3>3. Types'
        BY <2>1, <2>3, <2>4, <2>5, <2>6, <3>1 DEF BInv, Types, TypeOK
      <3>4. link' # "up"
        BY <2>3, <2>8
      <3> QED
        BY <1>1, <2>1, <2>6, <3>1, <3>2, <3>3, <3>4, ReadGoesOn
    <2> QED
      BY <2>7, <2>8
  <1> QED
    BY <1>1, <1>3, <1>4, AbortSeen

\* a transaction,
LEMMA StopSeen ==
  ASSUME BInv, Stop
  PROVE  Types' /\ (Running' => Followed') /\ [Bus!Next]_(Bus!busVars)
  <1> DEFINE m == bus[Len(bus)]
  <1>1. /\ Running /\ call = "stop" /\ line = <<>> /\ Followed
        /\ op # NoOp /\ op \in Requests /\ ~opening /\ OnBus /\ bus \in Seq(Message)
        /\ op.kind = "read" \/ op.stop
    BY DEF Stop, Entered, BInv, Types, TypeOK, Followed
  <1>2. PICK a \in Answers(<<1>>) :
          IF ReadByte(a, 1, 0) = 1
            THEN /\ Consume(a, 1) /\ BusStop /\ HandOver
                 /\ Return
                 /\ UNCHANGED <<ready, autoAck, idx>>
            ELSE AbortAfter(UNCHANGED busVars \/ (link = "up" /\ BusStop))
    BY DEF Stop
  <1>3. Session = Front(bus) /\ bus = Append(Session, m)
    BY <1>1, FrontAndLast DEF Session, OnBus
  <1>4. m = Bus!Message(IF op.kind = "read" THEN I2C_M_RD ELSE 0, op.addr, m.data)
        /\ (op.kind = "write" => m.data \in Bus!Sent(op.data))
    BY <1>1 DEF OnBus, Bus!Sent
  <1>5. op.kind \in {"read", "write"} /\ (op.kind = "read" => op.len \in Nat)
    BY <1>1, RequestsAssumption DEF RequestsAssumption, WriteOp, ReadOp
  <1>6. link = "up" => IF op.kind = "read" THEN Filled ELSE rbuf = <<>>
    BY <1>1 DEF Followed, InRead
  <1>7. link = "up" /\ op.kind = "read" => rbuf \in Data /\ Len(rbuf) = op.len /\ rbuf = m.data
    <2> SUFFICES ASSUME link = "up", op.kind = "read"
                 PROVE  rbuf \in Data /\ Len(rbuf) = op.len /\ rbuf = m.data
      OBVIOUS
    <2>1. rbuf \in Seq(DeviceByte) /\ Len(rbuf) = op.len /\ rbuf = m.data
      BY <1>1, <1>6 DEF Filled
    <2>2. rbuf \in [1..op.len -> DeviceByte]
      BY <1>5, <2>1
    <2> QED
      BY <1>1, <2>1, <2>2, ReadsAssumption DEF ReadsAssumption
  <1> HIDE DEF m
  <1>8. CASE ReadByte(a, 1, 0) = 1
    <2>1. /\ Consume(a, 1) /\ BusStop /\ HandOver /\ Return
          /\ UNCHANGED <<ready, autoAck, idx>>
      BY <1>2, <1>8
    <2>2. <<1>> \in Seq(Byte) /\ Len(<<1>>) = 1
      BY DEF Byte
    <2>3. line' = <<>> /\ link' \in {"up", "down"} /\ link = "up"
      BY <1>1, <1>8, <2>1, <2>2, Consumed, Acknowledged
    <2>4. op' = NoOp /\ call' = "none" /\ status' = status
      BY <1>1, <2>1 DEF Return, NextMethod
    <2>5. wire' = bus /\ bus' = <<>> /\ UNCHANGED <<opening, acks>>
      BY <2>1 DEF BusStop
    <2>6. rbuf' = <<>> /\ user' = IF op.kind = "read" THEN [user EXCEPT ![op.buf] = rbuf] ELSE user
      BY <1>6, <2>1, <2>3 DEF HandOver
    <2>7. user' \in [UserBuf -> Data]
      <3>1. user \in [UserBuf -> Data]
        BY DEF BInv, Types, TypeOK
      <3> QED
        BY <1>7, <2>3, <2>6, <3>1
    <2>8. Types'
      <3>1. <<>> \in Seq(Byte)
        OBVIOUS
      <3> QED
        BY <2>1, <2>3, <2>4, <2>5, <2>6, <2>7, <3>1 DEF BInv, Types, TypeOK
    <2>9. Followed'
      <3>1. <<>> \in Seq(Message)
        OBVIOUS
      <3> QED
        BY <1>1, <2>4, <2>5, <2>6, <3>1 DEF Followed, InRead
    <2>10. Session' = <<>>
      BY <2>4, <2>5 DEF Session
    <2>11. CASE op.kind = "read"
      <3>1. m = Bus!Message(I2C_M_RD, op.addr, rbuf)
        BY <1>4, <1>7, <2>3, <2>11
      <3>2. Bus!StopRead
        BY <1>1, <1>3, <1>7, <2>3, <2>4, <2>5, <2>6, <2>10, <2>11, <3>1
           DEF Bus!StopRead, Running, I2C_M_RD, Bus!I2C_M_RD
      <3> QED
        BY <2>8, <2>9, <3>2 DEF Bus!Next
    <2>12. CASE op.kind = "write"
      <3>1. Bus!StopWrite
        BY <1>1, <1>3, <1>4, <2>4, <2>5, <2>6, <2>10, <2>12 DEF Bus!StopWrite, Running
      <3> QED
        BY <2>8, <2>9, <3>1 DEF Bus!Next
    <2> QED
      BY <1>5, <2>11, <2>12
  <1>9. CASE ReadByte(a, 1, 0) # 1
    <2>1. /\ status' = "failed" /\ (UNCHANGED busVars \/ (link = "up" /\ BusStop))
          /\ UNCHANGED <<op, call, link, line, ready, autoAck, idx, rbuf, user>>
      BY <1>2, <1>9 DEF AbortAfter, lineVars, loopVars
    <2>2. UNCHANGED <<opening, acks>>
      BY <2>1 DEF busVars, BusStop
    <2>3. Types' /\ ~Running'
      BY <2>1, <2>2 DEF BInv, Types, TypeOK, Running
    <2>4. CASE UNCHANGED busVars
      <3>1. Session' = Session /\ wire' = wire
        BY <2>1, <2>4 DEF Session, busVars
      <3> QED
        BY <1>1, <2>1, <2>3, <3>1, Unheard
    <2>5. CASE link = "up" /\ BusStop
      <3>1. wire' = bus /\ Session' = <<>>
        BY <2>5 DEF BusStop, Session
      <3>2. m \in Bus!LastMessages
        <4>1. CASE op.kind = "read"
          BY <1>4, <1>7, <2>5, <4>1 DEF Bus!LastMessages, I2C_M_RD, Bus!I2C_M_RD
        <4>2. CASE op.kind = "write"
          BY <1>1, <1>4, <4>2 DEF Bus!LastMessages
        <4> QED
          BY <1>5, <4>1, <4>2
      <3>3. Bus!Abort
        <4>1. wire' \in Bus!Begun(Append(Session, m))
          BY <1>3, <3>1 DEF Bus!Begun
        <4> QED
          BY <1>1, <2>1, <3>1, <3>2, <4>1 DEF Bus!Abort, Running
      <3> QED
        BY <2>3, <3>3 DEF Bus!Next
    <2> QED
      BY <2>1, <2>4, <2>5
  <1> QED
    BY <1>8, <1>9

\* nothing, when the line hangs up.
LEMMA HangUpSeen ==
  ASSUME BInv, HangUp
  PROVE  Types' /\ (Running' => Followed') /\ [Bus!Next]_(Bus!busVars)
  <1>1. /\ Running /\ link' = "down" /\ line' = <<>>
        /\ UNCHANGED <<op, call, status, ready, autoAck, idx, rbuf, opening, bus, acks, wire, user>>
    BY DEF HangUp, ehweVars, loopVars, busVars
  <1>2. Types'
    BY <1>1 DEF BInv, Types, TypeOK
  <1>3. Followed'
    BY <1>1 DEF BInv, Followed, OnBus
  <1>4. Session' = Session
    BY <1>1 DEF Session
  <1> QED
    BY <1>1, <1>2, <1>3, <1>4, Unheard

LEMMA UnchangedSeen ==
  ASSUME BInv, UNCHANGED vars
  PROVE  Types' /\ (Running' => Followed') /\ [Bus!Next]_(Bus!busVars)
  <1>1. UNCHANGED <<op, call, status, link, line, ready, autoAck, idx, rbuf, opening, bus, acks, wire, user>>
    BY DEF vars, ehweVars, lineVars, loopVars, busVars
  <1>2. Types'
    BY <1>1 DEF BInv, Types, TypeOK
  <1>3. Running' => Followed'
    BY <1>1 DEF BInv, Followed, OnBus, Filled, InRead, Running
  <1>4. Session' = Session
    BY <1>1 DEF Session
  <1> QED
    BY <1>1, <1>2, <1>3, <1>4 DEF Bus!busVars

\* or the end, when a caller passes no buffer.
LEMMA WithoutBufferSeen ==
  ASSUME BInv, WithoutBuffer
  PROVE  Types' /\ ~Running' /\ [Bus!Next]_(Bus!busVars)
  <1>1. /\ Running /\ status' = "rejected"
        /\ UNCHANGED <<op, call, link, line, ready, autoAck, idx, rbuf, opening, bus, acks, wire, user>>
    BY DEF WithoutBuffer, NoBuffer, Entered, lineVars, loopVars, busVars
  <1>2. Session' = Session
    BY <1>1 DEF Session
  <1> QED
    BY <1>1, <1>2, Unheard DEF BInv, Types, TypeOK, Running

\* So every step is one of the bus, or none.
LEMMA StepsSeen ==
  ASSUME BInv, [Next]_vars
  PROVE  BInv' /\ [Bus!Next]_(Bus!busVars)
  <1>1. Types' /\ (Running' => Followed') /\ [Bus!Next]_(Bus!busVars)
    BY ConfigureSeen, CallSeen, SetAutoAckSeen, StartSeen, SendByteSeen, SendDataSeen,
       ReceiveNothingSeen, ReceiveByteSeen, StopSeen, HangUpSeen, UnchangedSeen, WithoutBufferSeen
       DEF Next, Ended
  <1>2. IInv'
    BY IInvKept DEF BInv
  <1> QED
    BY <1>1, <1>2 DEF BInv
-----------------------------------------------------------------------------
(* Late bytes.  The driver reads them for the answers to its commands, is out of
   step, and gets no further than the first address. *)

\* No transfer has begun.
Early ==
  /\ call \in {"none", "start", "sendByte"}
  /\ op = NoOp <=> call = "none"
  /\ op # NoOp => op.addr < AddressLimit
  /\ opening <=> call = "sendByte"
  /\ bus = <<>> /\ rbuf = <<>>

\* The acknowledgements still to come before the bit of the address byte.
Before == IF call = "sendByte" THEN 1 ELSE IF ready THEN 2 ELSE 4

Waiting ==
  /\ Early /\ (~ready => call = "none")
  /\ link = "up" /\ line # <<>> /\ ~Passing(line, Before)

Late == TypeOK /\ (Running => Waiting)
Whole == BInv \/ Late

LEMMA InitTypes == Init => TypeOK
  <1> SUFFICES ASSUME Init PROVE TypeOK
    OBVIOUS
  <1>1. op = NoOp /\ call = "none" /\ status = "running" /\ link = "up" /\ autoAck = DFLT_AUTOACK
        /\ idx = 0 /\ rbuf = <<>> /\ acks = <<>> /\ user \in [UserBuf -> Data]
    BY DEF Init, EhweInit
  <1>2. ready \in BOOLEAN /\ opening \in BOOLEAN
    BY DEF Init
  <1>3. DFLT_AUTOACK \in {0, 1} /\ line \in Seq(Byte)
    BY AdapterAssumption DEF AdapterAssumption, Init
  <1>4. <<>> \in Seq(Byte) /\ <<>> \in Seq({0, 1})
    OBVIOUS
  <1> QED
    BY <1>1, <1>2, <1>3, <1>4 DEF TypeOK

\* The driver starts with no call and nothing on the bus, in step or late.
LEMMA InitWhole == HarmlessBytes /\ Init => Whole /\ Bus!Init
  <1> SUFFICES ASSUME HarmlessBytes, Init PROVE Whole /\ Bus!Init
    OBVIOUS
  <1>1. ASSUME line = <<>> PROVE Whole
    <2>1. <<>> \in Seq(Message)
      OBVIOUS
    <2>2. Followed
      BY <2>1 DEF Followed, Init, EhweInit, InRead
    <2> QED
      BY <1>1, <2>2, InitIInv, InitTypes DEF Whole, BInv, Types
  <1>2. ASSUME line # <<>> PROVE Whole
    <2>1. Early /\ ~ready /\ call = "none" /\ link = "up"
      BY DEF Early, Init, EhweInit
    <2>2. ~Passing(line, Before)
      BY <2>1 DEF Before, HarmlessBytes, Init
    <2> QED
      BY <1>2, <2>1, <2>2, InitTypes DEF Whole, Late, Waiting
  <1>3. Bus!Init
    BY DEF Bus!Init, Init, EhweInit, Session
  <1> QED
    BY <1>1, <1>2, <1>3

\* When the line hangs up before a transfer the late bytes are gone.
LEMMA DeadEarly == TypeOK' /\ Early' /\ link' = "down" /\ line' = <<>> => BInv'
  <1>1. <<>> \in Seq(Message)
    OBVIOUS
  <1> QED
    BY <1>1 DEF Early, BInv, IInv, Linked, Types, Followed

\* An answer comes behind the bytes already on the line.
LEMMA Behind ==
  ASSUME link = "up", line \in Seq(Byte), NEW reply \in Seq(Byte), NEW a \in Answers(reply)
  PROVE  /\ a.bytes \in Seq(Byte) /\ a.alive \in BOOLEAN
         /\ Len(line) <= Len(a.bytes) /\ \A k \in 1..Len(line) : a.bytes[k] = line[k]
         /\ \A k \in 1..Len(a.bytes) : k > Len(line) => k - Len(line) \in 1..Len(reply)
                                                        /\ a.bytes[k] = reply[k - Len(line)]
         /\ a.alive => Len(a.bytes) = Len(line) + Len(reply)
  <1>1. PICK n \in 0..Len(reply) : a = [bytes |-> line \o SubSeq(reply, 1, n), alive |-> n = Len(reply)]
    BY DEF Answers
  <1> DEFINE r == SubSeq(reply, 1, n)
             t == line \o r
  <1>2. r \in Seq(Byte) /\ Len(r) = n /\ \A k \in 1..n : r[k] = reply[k]
    OBVIOUS
  <1>3. a.bytes = t /\ a.alive = (n = Len(reply)) /\ n \in Nat /\ n <= Len(reply) /\ Len(reply) \in Nat
    BY <1>1
  <1> HIDE DEF r
  <1>4. t \in Seq(Byte) /\ Len(t) = Len(line) + Len(r)
        /\ \A k \in 1..Len(line) + Len(r) : t[k] = IF k <= Len(line) THEN line[k] ELSE r[k - Len(line)]
    BY <1>2, ConcatProperties
  <1>5. Len(line) \in Nat
    OBVIOUS
  <1> HIDE DEF t
  <1>6. \A k \in 1..Len(t) : k > Len(line) => k - Len(line) \in 1..n /\ t[k] = r[k - Len(line)]
    BY <1>2, <1>4, <1>5
  <1>7. \A k \in 1..Len(line) : t[k] = line[k]
    BY <1>2, <1>4, <1>5
  <1>8. a.alive => Len(t) = Len(line) + Len(reply)
    BY <1>2, <1>3, <1>4
  <1>9. a.alive \in BOOLEAN
    BY <1>3
  <1>10. \A k \in 1..Len(t) : k > Len(line) => k - Len(line) \in 1..Len(reply)
                                               /\ t[k] = reply[k - Len(line)]
    <2> SUFFICES ASSUME NEW k \in 1..Len(t), k > Len(line)
                 PROVE  k - Len(line) \in 1..Len(reply) /\ t[k] = reply[k - Len(line)]
      OBVIOUS
    <2>1. k - Len(line) \in 1..n /\ t[k] = r[k - Len(line)]
      BY <1>6
    <2>2. k - Len(line) \in 1..Len(reply)
      BY <1>3, <2>1
    <2> QED
      BY <1>2, <2>1, <2>2
  <1>11. Len(line) <= Len(t)
    BY <1>2, <1>3, <1>4, <1>5
  <1> QED
    BY <1>3, <1>4, <1>7, <1>8, <1>9, <1>10, <1>11

\* After acknowledgements read from late bytes as many are still on the line,
\* and they are no more the answers to what comes.
LEMMA StillBehind ==
  ASSUME link = "up", line \in Seq(Byte), line # <<>>, NEW reply \in Seq(Byte), NEW a \in Answers(reply),
         \A k \in 1..Len(reply) : reply[k] = 1,
         \A k \in 1..Len(reply) : k <= Len(a.bytes) /\ a.bytes[k] = 1,
         Consume(a, Len(reply)), NEW n \in Nat, ~Passing(line, n + Len(reply))
  PROVE  \/ link' = "up" /\ line' \in Seq(Byte) /\ line' # <<>> /\ ~Passing(line', n)
         \/ link' = "down" /\ line' = <<>>
  <1> DEFINE r == Len(reply)
             t == a.bytes
  <1>1. /\ t \in Seq(Byte) /\ a.alive \in BOOLEAN
        /\ \A k \in 1..Len(line) : t[k] = line[k]
        /\ \A k \in 1..Len(t) : k > Len(line) => k - Len(line) \in 1..r /\ t[k] = reply[k - Len(line)]
        /\ a.alive => Len(t) = Len(line) + r
    BY Behind
  <1>2. Len(line) \in Nat /\ Len(line) > 0 /\ r \in Nat /\ Len(t) \in Nat
    BY <1>1, EmptySeq
  <1>3. CASE ~a.alive
    BY <1>3 DEF Consume
  <1>4. CASE a.alive
    <2>1. link' = "up" /\ line' = SubSeq(t, r + 1, Len(t))
      BY <1>4 DEF Consume
    <2>2. r + 1 \in 1..Len(t) + 1 /\ Len(t) - (r + 1) + 1 = Len(line) /\ Len(t) = Len(line) + r
      BY <1>1, <1>2, <1>4
    <2> HIDE DEF t, r
    <2>3. /\ line' \in Seq(Byte) /\ Len(line') = Len(line)
          /\ \A k \in 1..Len(line) : line'[k] = t[k + r]
      <3>1. r + 1 \in Nat /\ r + 1 > 0 /\ Len(t) - (r + 1) + 1 = Len(line) /\ Len(line) > 0
        BY <1>2, <2>2
      <3>2. \A k \in 1..Len(line) : k + (r + 1) - 1 = k + r
        BY <1>2
      <3>3. SubSeq(t, r + 1, Len(t)) \in Seq(Byte)
            /\ Len(SubSeq(t, r + 1, Len(t))) = Len(line)
            /\ \A k \in 1..Len(line) : SubSeq(t, r + 1, Len(t))[k] = t[k + (r + 1) - 1]
        BY <1>1, <1>2, <2>2, <3>1
      <3> QED
        BY <2>1, <3>2, <3>3
    <2>4. line' # <<>>
      BY <1>2, <2>3
    <2>5. ASSUME Passing(line', n) PROVE FALSE
      <3>1. /\ n + 1 \in 1..Len(line) /\ line'[n + 1] = 0 /\ \A k \in 1..n : line'[k] = 1 /\ k \in 1..Len(line)
        BY <1>2, <2>3, <2>5 DEF Passing
      <3>2. t[n + 1 + r] = 0 /\ \A k \in 1..n : t[k + r] = 1
        BY <2>3, <3>1
      <3>3. \A k \in 1..(n + r) : k <= r \/ (k - r \in 1..n /\ (k - r) + r = k)
        BY <1>2
      <3>4. \A k \in 1..r : t[k] = 1
        BY DEF r, t
      <3>5. \A k \in 1..(n + r) : t[k] = 1
        <4> SUFFICES ASSUME NEW k \in 1..(n + r) PROVE t[k] = 1
          OBVIOUS
        <4>1. CASE k <= r
          <5>1. k \in 1..r
            BY <1>2, <4>1
          <5> QED
            BY <3>4, <5>1
        <4>2. CASE k - r \in 1..n /\ (k - r) + r = k
          BY <3>2, <4>2
        <4> QED
          BY <3>3, <4>1, <4>2
      <3>6. n + 1 + r \in 1..Len(t)
        BY <1>2, <2>2, <3>1
      <3>7. n + 1 + r <= Len(line)
        <4> SUFFICES ASSUME n + 1 + r > Len(line) PROVE FALSE
          BY <1>2
        <4>1. (n + 1 + r) - Len(line) \in 1..r /\ t[n + 1 + r] = reply[(n + 1 + r) - Len(line)]
          BY <1>1, <3>6
        <4>2. reply[(n + 1 + r) - Len(line)] = 1
          BY <4>1 DEF r
        <4> QED
          BY <3>2, <4>1, <4>2
      <3>8. Len(line) > n + r /\ line[n + r + 1] = 0 /\ \A k \in 1..(n + r) : line[k] = 1
        <4>1. n + 1 + r = n + r + 1 /\ n + 1 + r \in 1..Len(line) /\ \A k \in 1..(n + r) : k \in 1..Len(line)
          BY <1>2, <3>7
        <4>2. Len(line) > n + r
          BY <1>2, <3>7
        <4>3. line[n + r + 1] = 0
          BY <1>1, <3>2, <4>1
        <4>4. \A k \in 1..(n + r) : line[k] = 1
          BY <1>1, <3>5, <4>1
        <4> QED
          BY <4>2, <4>3, <4>4
      <3> QED
        BY <3>8 DEF Passing, r
    <2> QED
      BY <2>1, <2>3, <2>4, <2>5
  <1> QED
    BY <1>1, <1>3, <1>4

\* What a step does to a driver that is late: it stays so, or the line dies, or
\* the process ends; no call returns.
LEMMA LateAbort ==
  ASSUME Late, Running, Abort
  PROVE  Late' /\ [Bus!Next]_(Bus!busVars) /\ UNCHANGED <<op, call>>
  <1>1. UNCHANGED <<op, call, link, line, ready, autoAck, idx, rbuf, opening, bus, acks, wire, user>>
        /\ status' = "failed"
    BY DEF Abort, AbortAfter, lineVars, loopVars, busVars
  <1>2. Session' = Session
    BY <1>1 DEF Session
  <1> QED
    BY <1>1, <1>2, Unheard DEF Late, TypeOK, Running

LEMMA LateConfigure ==
  ASSUME Late, Configure
  PROVE  Whole' /\ [Bus!Next]_(Bus!busVars) /\ UNCHANGED <<op, call>>
  <1>1. Running /\ TypeOK /\ Waiting /\ ~ready
    BY DEF Configure, Late
  <1>2. PICK a \in Answers(<<1, 1>>) :
          IF ReadByte(a, 1, 0) = 1 /\ ReadByte(a, 2, 0) = 1
            THEN /\ Consume(a, 2)
                 /\ ready' = TRUE
                 /\ UNCHANGED <<ehweVars, loopVars, busVars, user>>
            ELSE Abort
    BY DEF Configure
  <1>3. CASE ReadByte(a, 1, 0) = 1 /\ ReadByte(a, 2, 0) = 1
    <2>1. Consume(a, 2) /\ ready' = TRUE
          /\ UNCHANGED <<op, call, status, autoAck, idx, rbuf, opening, bus, acks, wire, user>>
      BY <1>2, <1>3 DEF ehweVars, loopVars, busVars
    <2>2. /\ <<1, 1>> \in Seq(Byte) /\ Len(<<1, 1>>) = 2
          /\ \A k \in 1..2 : <<1, 1>>[k] = 1
      BY DEF Byte
    <2>3. 2 <= Len(a.bytes) /\ a.bytes[1] = 1 /\ a.bytes[2] = 1
      BY <1>3 DEF ReadByte
    <2>4. \A k \in 1..2 : k <= Len(a.bytes) /\ a.bytes[k] = 1
      <3>1. a.bytes \in Seq(Byte)
        BY <1>1, <2>2, Behind DEF Waiting, TypeOK
      <3>2. Len(a.bytes) \in Nat
        BY <3>1
      <3> QED
        BY <2>3, <3>2
    <2>5. ~Passing(line, 2 + 2)
      BY <1>1 DEF Waiting, Before
    <2>6. \/ link' = "up" /\ line' \in Seq(Byte) /\ line' # <<>> /\ ~Passing(line', 2)
          \/ link' = "down" /\ line' = <<>>
      <3> DEFINE reply == <<1, 1>>
      <3>1. reply \in Seq(Byte) /\ Len(reply) = 2 /\ \A k \in 1..Len(reply) : reply[k] = 1
        BY <2>2
      <3>2. a \in Answers(reply)
        OBVIOUS
      <3> HIDE DEF reply
      <3>3. Consume(a, Len(reply)) /\ ~Passing(line, 2 + Len(reply))
            /\ \A k \in 1..Len(reply) : k <= Len(a.bytes) /\ a.bytes[k] = 1
        BY <2>1, <2>4, <2>5, <3>1
      <3> QED
        BY <1>1, <3>1, <3>2, <3>3, StillBehind DEF Waiting, TypeOK
    <2>7. TypeOK'
      <3>1. <<>> \in Seq(Byte)
        OBVIOUS
      <3> QED
        BY <1>1, <2>1, <2>6, <3>1 DEF TypeOK
    <2>8. Early' /\ call' = "none"
      BY <1>1, <2>1 DEF Waiting, Early
    <2>9. Whole'
      <3>1. CASE link' = "up"
        BY <2>1, <2>6, <2>7, <2>8, <3>1 DEF Whole, Late, Waiting, Before
      <3>2. CASE link' # "up"
        BY <2>6, <2>7, <2>8, <3>2, DeadEarly DEF Whole
      <3> QED
        BY <3>1, <3>2
    <2>10. Session' = Session
      BY <2>1 DEF Session
    <2> QED
      BY <1>1, <2>1, <2>9, <2>10, Unheard
  <1>4. CASE ~(ReadByte(a, 1, 0) = 1 /\ ReadByte(a, 2, 0) = 1)
    BY <1>1, <1>2, <1>4, LateAbort DEF Whole
  <1> QED
    BY <1>3, <1>4

LEMMA LateCall ==
  ASSUME Late, Call
  PROVE  Whole' /\ [Bus!Next]_(Bus!busVars) /\ op = NoOp /\ call = "none"
  <1>1. PICK o \in Requests : Enter(o)
    BY DEF Call
  <1>2. /\ Running /\ op = NoOp /\ TypeOK /\ Waiting /\ ready
        /\ UNCHANGED <<link, line, ready, autoAck, idx, rbuf, opening, bus, acks, wire, user>>
    BY <1>1 DEF Call, Enter, Late, lineVars, loopVars, busVars
  <1>3. call = "none" /\ Early
    BY <1>2 DEF Waiting, Early
  <1>4. CASE o.addr < AddressLimit
    <2>1. op' = o /\ call' = "start" /\ status' = status /\ o # NoOp
      BY <1>1, <1>4, RequestsAssumption, NoOpIsNoCall DEF Enter, RequestsAssumption
    <2>2. TypeOK'
      BY <1>2, <2>1 DEF TypeOK
    <2>3. Waiting'
      BY <1>2, <1>3, <1>4, <2>1 DEF Waiting, Early, Before
    <2>4. Session' = Session
      BY <1>2, <1>3, <2>1 DEF Session
    <2>5. Bus!Request
      BY <1>2, <2>1, <2>4 DEF Bus!Request, Running
    <2> QED
      BY <1>2, <1>3, <2>2, <2>3, <2>5 DEF Bus!Next, Whole, Late
  <1>5. CASE ~(o.addr < AddressLimit)
    <2>1. status' = "rejected" /\ UNCHANGED <<op, call>>
      BY <1>1, <1>5 DEF Enter
    <2>2. TypeOK' /\ ~Running'
      BY <1>2, <2>1 DEF TypeOK, Running
    <2>3. Session' = Session
      BY <1>2, <2>1 DEF Session
    <2> QED
      BY <1>2, <1>3, <2>1, <2>2, <2>3, Unheard DEF Whole, Late
  <1> QED
    BY <1>4, <1>5

LEMMA LateSetAutoAck ==
  ASSUME Late, SetAutoAck
  PROVE  Whole' /\ [Bus!Next]_(Bus!busVars) /\ UNCHANGED <<op, call>>
  <1>1. /\ Running /\ autoAck' \in {0, 1} /\ TypeOK /\ Waiting
        /\ UNCHANGED <<op, call, status, link, line, ready, idx, rbuf, opening, bus, acks, wire, user>>
    BY DEF SetAutoAck, Late, ehweVars, lineVars, busVars
  <1>2. TypeOK'
    BY <1>1 DEF TypeOK
  <1>3. Waiting'
    BY <1>1 DEF Waiting, Early, Before
  <1>4. Session' = Session
    BY <1>1 DEF Session
  <1> QED
    BY <1>1, <1>2, <1>3, <1>4, Unheard DEF Whole, Late

LEMMA LateStart ==
  ASSUME Late, Start
  PROVE  Whole' /\ [Bus!Next]_(Bus!busVars) /\ op' = op /\ call # "sendData"
  <1>1. Running /\ call = "start" /\ TypeOK /\ Waiting /\ ready /\ op # NoOp
    BY DEF Start, Entered, Late, Waiting, Early
  <1>2. PICK a \in Answers(<<1>>) :
          IF ReadByte(a, 1, 0) = 1
            THEN Consume(a, 1) /\ BusStart /\ Return /\ UNCHANGED <<ready, loopVars, user>>
            ELSE Abort
    BY DEF Start
  <1>3. CASE ReadByte(a, 1, 0) = 1
    <2>1. /\ Consume(a, 1) /\ opening' = TRUE /\ call' = "sendByte" /\ op' = op
          /\ UNCHANGED <<status, ready, autoAck, idx, rbuf, bus, acks, wire, user>>
      BY <1>1, <1>2, <1>3 DEF BusStart, Return, NextMethod, loopVars
    <2>2. 1 <= Len(a.bytes) /\ a.bytes[1] = 1
      BY <1>3 DEF ReadByte
    <2>3. ~Passing(line, 1 + 1)
      BY <1>1 DEF Waiting, Before
    <2>4. \/ link' = "up" /\ line' \in Seq(Byte) /\ line' # <<>> /\ ~Passing(line', 1)
          \/ link' = "down" /\ line' = <<>>
      <3> DEFINE reply == <<1>>
      <3>1. reply \in Seq(Byte) /\ Len(reply) = 1 /\ \A k \in 1..Len(reply) : reply[k] = 1
        BY DEF Byte
      <3>2. a \in Answers(reply)
        OBVIOUS
      <3> HIDE DEF reply
      <3>3. Consume(a, Len(reply)) /\ ~Passing(line, 1 + Len(reply))
            /\ \A k \in 1..Len(reply) : k <= Len(a.bytes) /\ a.bytes[k] = 1
        BY <2>1, <2>2, <2>3, <3>1
      <3> QED
        BY <1>1, <3>1, <3>2, <3>3, StillBehind DEF Waiting, TypeOK
    <2>5. TypeOK'
      <3>1. <<>> \in Seq(Byte)
        OBVIOUS
      <3> QED
        BY <1>1, <2>1, <2>4, <3>1 DEF TypeOK
    <2>6. Early'
      BY <1>1, <2>1 DEF Waiting, Early
    <2>7. Whole'
      <3>1. CASE link' = "up"
        BY <1>1, <2>1, <2>4, <2>5, <2>6, <3>1 DEF Whole, Late, Waiting, Before
      <3>2. CASE link' # "up"
        BY <2>4, <2>5, <2>6, <3>2, DeadEarly DEF Whole
      <3> QED
        BY <3>1, <3>2
    <2>8. Session' = Session
      BY <1>1, <2>1 DEF Session
    <2> QED
      BY <1>1, <2>1, <2>7, <2>8, Unheard
  <1>4. CASE ReadByte(a, 1, 0) # 1
    BY <1>1, <1>2, <1>4, LateAbort DEF Whole
  <1> QED
    BY <1>3, <1>4

\* The bit taken for the address's is a late byte or an acknowledgement, which
\* is a NACK: ehwe.c ends the process.
LEMMA LateSendByte ==
  ASSUME Late, SendByte
  PROVE  Whole' /\ [Bus!Next]_(Bus!busVars) /\ UNCHANGED <<op, call>>
  <1>1. Running /\ call = "sendByte" /\ TypeOK /\ Waiting /\ opening /\ bus = <<>> /\ op # NoOp
        /\ UNCHANGED <<ready, autoAck, idx, rbuf, user>>
    BY DEF SendByte, Entered, Late, Waiting, Early, loopVars
  <1>2. PICK k \in Bulks({0, 1}) :
          IF BulkOk(k) THEN SendBulk(AddressByte, k) /\ ReturnAck(1 - k.bit) ELSE Abort
    BY DEF SendByte
  <1>3. CASE BulkOk(k)
    <2>1. PICK n \in {0, 1}, j \in Junk : \E a \in Answers(<<1, n>>) :
            k = [nak |-> n, answer |-> a, taken |-> ReadByte(a, 1, j),
                 bit |-> ReadByte(a, 2, ReadByte(a, 1, j))]
      BY DEF Bulks
    <2>2. PICK a \in Answers(<<1, n>>) :
            k = [nak |-> n, answer |-> a, taken |-> ReadByte(a, 1, j),
                 bit |-> ReadByte(a, 2, ReadByte(a, 1, j))]
      BY <2>1
    <2>3. <<1, n>> \in Seq(Byte) /\ Len(<<1, n>>) = 2 /\ <<1, n>>[1] = 1
      BY DEF Byte
    <2>4. /\ a.bytes \in Seq(Byte) /\ a.alive \in BOOLEAN
          /\ Len(line) <= Len(a.bytes) /\ \A i \in 1..Len(line) : a.bytes[i] = line[i]
          /\ \A i \in 1..Len(a.bytes) : i > Len(line) => a.bytes[i] = <<1, n>>[i - Len(line)]
      BY <1>1, <2>3, Behind DEF Waiting, TypeOK
    <2>5. Len(line) \in Nat /\ Len(line) > 0 /\ Len(a.bytes) \in Nat
      <3>1. line \in Seq(Byte) /\ line # <<>>
        BY <1>1 DEF Waiting, TypeOK
      <3> QED
        BY <2>4, <3>1, EmptySeq
    <2>6. k.taken = 1 /\ k.bit \in {0, 1} /\ ReadByte(a, 1, j) = 1 /\ k.bit = ReadByte(a, 2, 1)
      BY <1>3, <2>2 DEF BulkOk
    <2>7. a.bytes[1] = 1 /\ line[1] = 1
      BY <2>4, <2>5, <2>6 DEF ReadByte
    <2>8. k.bit = 1
      <3> SUFFICES ASSUME k.bit = 0 PROVE FALSE
        BY <2>6
      <3>1. 2 <= Len(a.bytes) /\ a.bytes[2] = 0
        BY <2>6 DEF ReadByte
      <3>2. CASE Len(line) >= 2
        <4>1. line[2] = 0
          BY <2>4, <2>5, <3>1, <3>2
        <4>2. Passing(line, 1)
          BY <2>5, <2>7, <3>2, <4>1 DEF Passing
        <4> QED
          BY <1>1, <4>2 DEF Waiting, Before
      <3>3. CASE Len(line) = 1
        <4>1. 2 \in 1..Len(a.bytes) /\ 2 > Len(line) /\ 2 - Len(line) = 1
          BY <2>5, <3>1, <3>3
        <4>2. a.bytes[2] = <<1, n>>[2 - Len(line)]
          BY <2>4, <4>1
        <4>3. a.bytes[2] = 1
          BY <2>3, <4>1, <4>2
        <4> QED
          BY <3>1, <4>3
      <3>4. \A i \in Nat : i > 0 => i >= 2 \/ i = 1
        OBVIOUS
      <3>5. Len(line) >= 2 \/ Len(line) = 1
        BY <2>5, <3>4, Zenon
      <3> QED
        BY <3>2, <3>3, <3>5
    <2>9. status' = "failed" /\ UNCHANGED <<op, call>>
      BY <1>2, <1>3, <2>8 DEF ReturnAck
    <2>10. Consume(a, 2) /\ BusSend(AddressByte, n)
      BY <1>1, <1>2, <1>3, <2>2 DEF SendBulk, IfLinked, Waiting
    <2> DEFINE m == [flags |-> AddressByte % 2, addr |-> AddressByte \div 2, len |-> 0, data |-> <<>>]
    <2>11. bus' = Append(bus, m) /\ opening' = FALSE /\ acks' = <<>> /\ wire' = wire
      BY <1>1, <2>10 DEF BusSend
    <2> HIDE DEF m
    <2>12. link' \in {"up", "down"} /\ line' \in Seq(Byte)
      <3>1. SubSeq(a.bytes, 3, Len(a.bytes)) \in Seq(Byte) /\ <<>> \in Seq(Byte)
        <4>1. CASE Len(a.bytes) >= 3
          BY <2>4, <4>1
        <4>2. CASE ~(Len(a.bytes) >= 3)
          <5>1. SubSeq(a.bytes, 3, Len(a.bytes)) = <<>>
            BY <2>4, <2>5, <4>2
          <5>2. <<>> \in Seq(Byte)
            OBVIOUS
          <5> QED
            BY <5>1, <5>2
        <4> QED
          BY <4>1, <4>2
      <3> QED
        BY <2>10, <3>1 DEF Consume
    <2>13. TypeOK' /\ ~Running'
      <3>1. <<>> \in Seq({0, 1})
        OBVIOUS
      <3> QED
        BY <1>1, <2>9, <2>11, <2>12, <3>1 DEF TypeOK, Running
    <2>14. Session' = Session
      <3>1. <<>> \in Seq({m}) /\ m \in {m} /\ bus = <<>>
        BY <1>1
      <3>2. bus' # <<>> /\ Front(bus') = bus
        BY <2>11, <3>1, FrontOfAppend
      <3> QED
        BY <1>1, <2>9, <2>11, <3>2 DEF Session
    <2> QED
      BY <1>1, <2>9, <2>11, <2>13, <2>14, Unheard DEF Whole, Late
  <1>4. CASE ~BulkOk(k)
    BY <1>1, <1>2, <1>4, LateAbort DEF Whole
  <1> QED
    BY <1>3, <1>4

LEMMA LateHangUp ==
  ASSUME Late, HangUp
  PROVE  Whole' /\ [Bus!Next]_(Bus!busVars) /\ UNCHANGED <<op, call>>
  <1>1. /\ Running /\ link' = "down" /\ line' = <<>> /\ TypeOK /\ Early
        /\ UNCHANGED <<op, call, status, ready, autoAck, idx, rbuf, opening, bus, acks, wire, user>>
    BY DEF HangUp, Late, Waiting, ehweVars, loopVars, busVars
  <1>2. TypeOK'
    <2>1. <<>> \in Seq(Byte)
      OBVIOUS
    <2> QED
      BY <1>1, <2>1 DEF TypeOK
  <1>3. Early'
    BY <1>1 DEF Early
  <1>4. Session' = Session
    BY <1>1 DEF Session
  <1> QED
    BY <1>1, <1>2, <1>3, <1>4, DeadEarly, Unheard DEF Whole

LEMMA LateUnchanged ==
  ASSUME Late, UNCHANGED vars
  PROVE  Whole' /\ [Bus!Next]_(Bus!busVars) /\ UNCHANGED <<op, call>>
  <1>1. UNCHANGED <<op, call, status, link, line, ready, autoAck, idx, rbuf, opening, bus, acks, wire, user>>
    BY DEF vars, ehweVars, lineVars, loopVars, busVars
  <1>2. TypeOK'
    BY <1>1 DEF Late, TypeOK
  <1>3. Running' => Waiting'
    BY <1>1 DEF Late, Waiting, Early, Before, Running
  <1>4. Session' = Session
    BY <1>1 DEF Session
  <1> QED
    BY <1>1, <1>2, <1>3, <1>4 DEF Whole, Late, Bus!busVars

LEMMA LateSteps ==
  ASSUME Late, [Next]_vars
  PROVE  /\ Whole' /\ [Bus!Next]_(Bus!busVars)
         /\ ~(op # NoOp /\ op' = NoOp) /\ ~(call = "sendData" /\ call' # call)
  <1>1. ~SendData /\ ~WithoutBuffer /\ ~ReceiveNothing /\ ~ReceiveByte /\ ~Stop
    BY DEF SendData, WithoutBuffer, NoBuffer, ReceiveNothing, ReceiveByte, Stop, Entered, Late, Waiting, Early
  <1> QED
    BY <1>1, LateConfigure, LateCall, LateSetAutoAck, LateStart, LateSendByte, LateHangUp,
       LateUnchanged DEF Next, Ended

LEMMA WholeKept ==
  ASSUME Whole, [Next]_vars
  PROVE  Whole' /\ [Bus!Next]_(Bus!busVars)
  BY LateSteps, StepsSeen DEF Whole

LEMMA Invariance == HarmlessBytes /\ Spec => []Whole
  <1>1. Whole /\ [Next]_vars => Whole'
    BY WholeKept
  <1> QED
    BY InitWhole, <1>1, PTL DEF Spec
-----------------------------------------------------------------------------
(* The theorems *)

\* In a transfer on a living line every byte but the last is ACKed, those of a
\* read as autoAck says, and the last of a read is not.
THEOREM AcksRight == HarmlessBytes /\ Spec => []AckPattern
  <1>1. ASSUME Whole PROVE AckPattern
    <2> SUFFICES ASSUME Running, link = "up", call \in {"sendData", "receiveData", "stop"}
                 PROVE  /\ \A n \in 1..Len(acks) - 1 : acks[n] = IF op.kind = "read" THEN autoAck ELSE 1
                        /\ op.kind = "read" /\ op.len > 0 =>
                             IF call = "stop" THEN Last(acks) = 0
                                              ELSE acks # <<>> => Last(acks) = autoAck
      BY DEF AckPattern
    <2>1. InStep
      BY <1>1 DEF Whole, Late, Waiting, Early, BInv, IInv, Linked
    <2>2. /\ Len(acks) \in Nat /\ (acks # <<>> => Len(acks) \in 1..Len(acks))
          /\ \A n \in 1..Len(acks) - 1 : n \in 1..Len(acks) /\ n < Len(acks)
      BY <2>1, EmptySeq DEF InStep
    <2>3. CASE call = "sendData"
      <3>1. AtSend /\ op.kind = "write"
        BY <2>1, <2>3 DEF InStep, AtSend, WriteOp
      <3> QED
        BY <2>2, <3>1 DEF AtSend
    <2>4. CASE call = "receiveData"
      <3>1. AtReceive /\ op.kind = "read"
        BY <2>1, <2>4 DEF InStep, AtReceive, ReadOp
      <3> QED
        BY <2>2, <2>4, <3>1 DEF AtReceive, Last
    <2>5. CASE call = "stop"
      <3>1. AtStop /\ op \in WriteOp \cup ReadOp
        BY <2>1, <2>5 DEF InStep
      <3>2. (op \in WriteOp => op.kind = "write") /\ (op \in ReadOp => op.kind = "read")
        BY DEF WriteOp, ReadOp
      <3> QED
        BY <2>2, <2>5, <3>1, <3>2 DEF AtStop, Last
    <2> QED
      BY <2>3, <2>4, <2>5
  <1> QED
    BY <1>1, Invariance, PTL

\* A write ends before its last byte only behind a NACK, or on a dead line.
THEOREM CutJustly == HarmlessBytes /\ Spec => CutOnlyAtNack
  <1> DEFINE Cut == op # NoOp /\ op.kind = "write" /\ op.data # <<>> /\ call = "sendData" /\ call' # call
             Just == \/ link' = "down"
                     \/ Last(bus').data = op.data
                     \/ Last(acks') = 0
  <1>1. IInv /\ [Next]_vars => [Cut => Just]_vars
    <2> SUFFICES ASSUME IInv, Next, Cut, link' # "down" PROVE Just
      OBVIOUS
    <2>1. SendData
      BY DEF Next, Configure, Abort, AbortAfter, Call, Enter, SetAutoAck, Start, SendByte, Entered,
             WithoutBuffer, NoBuffer, ReceiveNothing, ReceiveByte, Stop, HangUp, Ended, vars, ehweVars
    <2>2. link' = "up"
      BY <2>1 DEF SendData, SendBulk, Consume, Abort, AbortAfter
    <2>3. /\ InStep /\ AtSend
          /\ bus'[Len(bus')].data = SubSeq(op.data, 1, idx + 1)
          /\ \E nak \in {0, 1} : acks' = Append(acks, 1 - nak) /\ SendDataAck(1 - nak)
      BY <2>1, <2>2, SendDataTurn
    <2>4. PICK nak \in {0, 1} : acks' = Append(acks, 1 - nak) /\ SendDataAck(1 - nak)
      BY <2>3
    <2>5. op.data \in Seq(Byte) /\ idx \in Nat /\ idx < Len(op.data)
      BY <2>3, DataOfWrite DEF AtSend
    <2>6. CASE nak = 1
      <3>1. 1 - nak \in {0, 1} /\ 1 - nak = 0
        BY <2>6
      <3> QED
        BY <2>3, <2>4, <3>1, OneMoreAck DEF InStep, Last
    <2>7. CASE nak = 0
      <3>1. ~(idx + 1 < Len(op.data))
        BY <2>4, <2>7 DEF SendDataAck, ehweVars
      <3>2. idx + 1 = Len(op.data)
        BY <2>5, <3>1
      <3>3. SubSeq(op.data, 1, Len(op.data)) = op.data
        BY <2>5
      <3> QED
        BY <2>3, <3>2, <3>3 DEF Last
    <2> QED
      BY <2>6, <2>7
  <1>2. Late /\ [Next]_vars => [Cut => Just]_vars
    BY LateSteps
  <1>3. Whole /\ [Next]_vars => [Cut => Just]_vars
    BY <1>1, <1>2 DEF Whole, BInv
  <1> QED
    BY <1>3, Invariance, PTL DEF Spec, CutOnlyAtNack

\* A call returns only with every answer read.
THEOREM AnswersRead == HarmlessBytes /\ Spec => AnswersConsumed
  <1>1. IInv /\ [Next]_vars => [op # NoOp /\ op' = NoOp => line' = <<>>]_vars
    <2> SUFFICES ASSUME IInv, Next, op # NoOp, op' = NoOp PROVE line' = <<>>
      OBVIOUS
    <2>1. ASSUME NEW reply \in Seq(Byte), NEW a \in Answers(reply), Consume(a, Len(reply)), Running
          PROVE  line' = <<>>
      <3>1. CASE a.alive
        <4>1. link' = "up"
          BY <2>1, <3>1 DEF Consume
        <4> QED
          BY <2>1, <4>1, ReadWhole DEF IInv, Linked, InStep
      <3>2. CASE ~a.alive
        BY <2>1, <3>2 DEF Consume
      <3> QED
        BY <3>1, <3>2
    <2>2. CASE SendByte
      <3>1. Running /\ \E k \in Bulks({0, 1}) : Consume(k.answer, 2)
        BY <2>2 DEF SendByte, Entered, SendBulk, Abort, AbortAfter
      <3> QED
        BY <2>1, <3>1, BulkAnswer
    <2>3. CASE SendData
      <3>1. Running /\ \E k \in Bulks(NakChoices) : Consume(k.answer, 2)
        BY <2>3 DEF SendData, Entered, SendBulk, Abort, AbortAfter
      <3> QED
        BY <2>1, <3>1, BulkAnswer, AdapterAssumption DEF AdapterAssumption
    <2>4. CASE Stop
      <3>1. Running /\ \E a \in Answers(<<1>>) : Consume(a, 1)
        BY <2>4 DEF Stop, Entered, AbortAfter
      <3>2. <<1>> \in Seq(Byte) /\ Len(<<1>>) = 1
        BY DEF Byte
      <3> QED
        BY <2>1, <3>1, <3>2
    <2>5. ~Start /\ ~ReceiveNothing /\ ~ReceiveByte
      BY DEF Start, ReceiveNothing, ReceiveByte, Entered, Return, NextMethod, Abort, AbortAfter, ehweVars
    <2> QED
      BY <2>2, <2>3, <2>4, <2>5
      DEF Next, Configure, Abort, AbortAfter, Call, Enter, SetAutoAck, HangUp, WithoutBuffer, NoBuffer,
          Ended, vars, ehweVars
  <1>2. Late /\ [Next]_vars => [op # NoOp /\ op' = NoOp => line' = <<>>]_vars
    BY LateSteps
  <1>3. Whole /\ [Next]_vars => [op # NoOp /\ op' = NoOp => line' = <<>>]_vars
    BY <1>1, <1>2 DEF Whole, BInv
  <1> QED
    BY <1>3, Invariance, PTL DEF Spec, AnswersConsumed

\* The driver, the buffers of its callers and the line keep their types, on a
\* line that may hang up at any point of a call.
THEOREM TypeCorrect == HarmlessBytes /\ Spec => []TypeOK
  <1>1. Whole => TypeOK
    BY DEF Whole, Late, BInv, Types
  <1> QED
    BY <1>1, Invariance, PTL

\* The driver implements the bus of a cutting adapter: what is on the bus at
\* STOP is the messages of the calls since the last one, and a read returns
\* what the device sent, wherever the line hangs up and with late bytes on it.
THEOREM Refinement == HarmlessBytes /\ Spec => ImplementsBus
  <1>1. HarmlessBytes /\ Init => Bus!Init
    BY InitWhole
  <1>2. Whole /\ [Next]_vars => [Bus!Next]_(Bus!busVars)
    BY WholeKept
  <1> QED
    BY <1>1, <1>2, Invariance, PTL DEF Spec, ImplementsBus, Bus!Spec
=============================================================================
