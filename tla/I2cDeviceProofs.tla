--------------------------- MODULE I2cDeviceProofs ---------------------------
(***************************************************************************)
(* Theorems about the register accesses of I2cDevice, for any handles,     *)
(* addresses, registers and numbers: they stay clear of the restrictions   *)
(* of the driver below, leave nothing behind in it, and are the accesses   *)
(* of a RegisterFile.  The steps of the driver keep its own invariant, of  *)
(* LxiI2c; what is added says which call of an access the driver is in,    *)
(* and what it holds for the next one.                                     *)
(***************************************************************************)
EXTENDS I2cDevice, LxiI2cProofs, SequenceTheorems, FiniteSetTheorems

\* The call an access is in.
CurrentOp ==
  CASE phase = "transfer" -> SelectOp(operation)
    [] phase = "return" /\ Reading(operation) -> ReadAllOp(operation)
    [] phase = "return" /\ ~Reading(operation) -> WriteAllOp(operation)

Phases ==
  /\ device \in [Handle -> Addresses \cup {Closed}]
  /\ operation \in AllOperations \cup {NoOperation}
  /\ phase \in {"select", "transfer", "return"}
  /\ phase = "select" => op = NoOp /\ (operation = NoOperation \/ Reading(operation))
  /\ phase # "select" => operation # NoOperation
  /\ op # NoOp => op = CurrentOp
  /\ op # NoOp /\ phase = "transfer" => Reading(operation)

\* Between the write of the register and the end of the read.
Selected ==
  /\ operation # NoOperation /\ Reading(operation)
  /\ phase = IF op = NoOp THEN "transfer" ELSE "return"

\* The driver keeps the register for the read, and otherwise nothing from
\* one call to the next.
Kept ==
  Running =>
    /\ Selected => outMsg.addr = operation.addr /\ mem[outbuf] = <<operation.reg>>
    /\ ~Selected /\ call \in {"none", "start", "sendByte"} => outMsg.addr = NO_ADDR
    /\ call \in {"none", "start"} => func = IF Selected THEN "sendData" ELSE "free"

DInv == IInv /\ Phases /\ Kept /\ OnlyBadAddressRejected

\* The registers, and what a read has found.
AllRegisters ==
  /\ regs = [a \in Attached |-> regs[a]]
  /\ \A a \in Attached : regs[a] = [x \in Registers |-> regs[a][x]]

Filed ==
  /\ AllRegisters
  /\ Served /\ Reading(operation) => Len(user[Local]) = operation.count
-----------------------------------------------------------------------------
(* What an access asks of ehwe.c *)

\* The fields of an access.
LEMMA AccessFields ==
  ASSUME NEW o \in AllOperations
  PROVE  /\ o # NoOperation /\ o.addr \in Addresses /\ o.addr \in Byte
         /\ o.reg \in Registers /\ o.reg \in Byte
         /\ o.kind \in {"read_bytes", "read_uint", "write_bytes", "write_uint"}
         /\ Reading(o) => o.count \in Nat
         /\ o.kind = "read_uint" => o.count \in {1, 2, 4}
         /\ o.kind = "write_bytes" => o.data \in Seq(Byte)
         /\ o.kind = "write_uint" => o.count \in Nat
  <1>1. /\ \/ o.kind = "read_bytes" /\ o.count \in Counts
           \/ o.kind = "read_uint" /\ o.count \in Widths
           \/ o.kind = "write_bytes" /\ o.data \in Data
           \/ o.kind = "write_uint" /\ o.count \in Widths
        /\ o.addr \in Addresses /\ o.reg \in Registers
    BY DEF AllOperations
  <1>2. /\ Addresses \subseteq Byte /\ Registers \subseteq Byte
        /\ Counts \subseteq Nat /\ Widths \subseteq {1, 2, 4} /\ Data \subseteq Seq(Byte)
    <2>1. Byte \subseteq Nat
      BY DEF Byte
    <2> QED
      BY <2>1, DeviceAssumption, DataAssumption DEF DeviceAssumption, DataAssumption
  <1>3. o # NoOperation
    BY CallsAssumption DEF CallsAssumption
  <1> QED
    <2>1. \A n \in {1, 2, 4} : n \in Nat
      OBVIOUS
    <2>2. CASE o.kind = "read_bytes" /\ o.count \in Counts
      BY <1>1, <1>2, <1>3, <2>2
    <2>3. CASE o.kind = "read_uint" /\ o.count \in Widths
      BY <1>1, <1>2, <1>3, <2>1, <2>3
    <2>4. CASE o.kind = "write_bytes" /\ o.data \in Data
      BY <1>1, <1>2, <1>3, <2>4 DEF Reading
    <2>5. CASE o.kind = "write_uint" /\ o.count \in Widths
      BY <1>1, <1>2, <1>3, <2>1, <2>5 DEF Reading
    <2> QED
      BY <1>1, <2>2, <2>3, <2>4, <2>5

\* What is written behind the register is a sequence of bytes.
LEMMA PayloadSeq ==
  ASSUME NEW o \in AllOperations, ~Reading(o)
  PROVE  \E S : Payload(o) \in Seq(S)
  <1>1. CASE o.kind = "write_bytes"
    BY <1>1, AccessFields DEF Payload
  <1>2. CASE o.kind = "write_uint"
    <2>1. o.count \in Nat /\ Payload(o) = Stored(o.val, o.count)
      BY <1>2, AccessFields DEF Payload
    <2> DEFINE s == Stored(o.val, o.count)
               S == {s[i] : i \in 1..o.count}
    <2>2. s = [i \in 1..o.count |-> s[i]]
      BY DEF Stored
    <2>3. s \in [1..o.count -> S]
      BY <2>2
    <2> HIDE DEF s, S
    <2>4. s \in Seq(S)
      BY <2>1, <2>3
    <2> QED
      BY <2>1, <2>4 DEF s
  <1> QED
    BY <1>1, <1>2, AccessFields DEF Reading

\* A write sends the register first, and behind it the payload.
LEMMA RegisterFirst ==
  ASSUME NEW o \in AllOperations, ~Reading(o)
  PROVE  /\ <<o.reg>> \o Payload(o) # <<>>
         /\ Head(<<o.reg>> \o Payload(o)) = o.reg
         /\ Tail(<<o.reg>> \o Payload(o)) = Payload(o)
  <1>1. PICK S : Payload(o) \in Seq(S)
    BY PayloadSeq
  <1> DEFINE s == <<o.reg>> \o Payload(o)
             T == S \cup {o.reg}
  <1>2. Payload(o) \in Seq(T) /\ <<o.reg>> \in Seq(T)
    BY <1>1
  <1>3. s \in Seq(T) /\ Len(s) = 1 + Len(Payload(o)) /\ s[1] = o.reg
        /\ \A i \in 1..Len(Payload(o)) : s[1 + i] = Payload(o)[i]
    BY <1>2
  <1> HIDE DEF s
  <1>4. s # <<>> /\ Head(s) = o.reg
    BY <1>2, <1>3
  <1>5. Tail(s) = Payload(o)
    <2>1. Tail(s) \in Seq(T) /\ Len(Tail(s)) = Len(Payload(o))
          /\ \A i \in 1..Len(Tail(s)) : Tail(s)[i] = s[i + 1]
      BY <1>2, <1>3, <1>4
    <2>2. \A i \in 1..Len(Tail(s)) : Tail(s)[i] = Payload(o)[i]
      BY <1>3, <2>1
    <2> QED
      BY <1>2, <2>1, <2>2, SeqEqual
  <1> QED
    BY <1>4, <1>5 DEF s

\* Every transfer of an access fits the __u16 of a message.
LEMMA AccessFits ==
  ASSUME NEW o \in AllOperations
  PROVE  /\ Reading(o) => o.count % U16 = o.count
         /\ ~Reading(o) => Len(<<o.reg>> \o Payload(o)) % U16 = 1 + Len(Payload(o))
  <1>1. /\ U16 \in Nat /\ U16 > 256
        /\ \A n \in Counts : n \in 0..255
        /\ \A n \in Widths : n = 1 \/ n = 2 \/ n = 4
    BY LengthAssumption, DeviceAssumption DEF LengthAssumption, DeviceAssumption, Byte
  <1>2. \A n \in 0..256 : n % U16 = n
    BY <1>1, CutLength
  <1>3. CASE Reading(o)
    <2>1. o.count \in Counts \/ o.count \in Widths
      BY <1>3 DEF Reading, AllOperations
    <2>2. o.count \in 0..256
      BY <1>1, <2>1
    <2> QED
      BY <1>2, <1>3, <2>2
  <1>4. CASE ~Reading(o)
    <2>1. Len(Payload(o)) \in 0..255
      <3>1. CASE o.kind = "write_bytes"
        <4>1. Payload(o) = o.data /\ Len(o.data) \in Counts
          BY <3>1 DEF Payload, AllOperations
        <4> QED
          BY <1>1, <4>1
      <3>2. CASE o.kind = "write_uint"
        <4>1. o.count \in {1, 2, 4} /\ Payload(o) = Stored(o.val, o.count)
          BY <3>2, AccessFields, <1>1 DEF Payload, AllOperations
        <4>2. Len(Stored(o.val, o.count)) = o.count
          BY <4>1 DEF Stored
        <4> QED
          BY <4>1, <4>2
      <3> QED
        BY <1>4, <3>1, <3>2, AccessFields DEF Reading
    <2>2. PICK S : Payload(o) \in Seq(S)
      BY <1>4, PayloadSeq
    <2>3. Len(<<o.reg>> \o Payload(o)) = 1 + Len(Payload(o))
      BY <2>2
    <2>4. 1 + Len(Payload(o)) \in 0..256
      <3> DEFINE n == Len(Payload(o))
      <3>1. n \in 0..255
        BY <2>1
      <3> HIDE DEF n
      <3>2. 1 + n \in 0..256
        BY <3>1
      <3> QED
        BY <3>2 DEF n
    <2> QED
      BY <1>2, <1>4, <2>3, <2>4
  <1> QED
    BY <1>3, <1>4

\* The call an access is in, and its fields.
LEMMA CallFields ==
  ASSUME IInv, Phases, op # NoOp
  PROVE  /\ operation \in AllOperations /\ op.addr = operation.addr /\ op.addr \in 0..127
         /\ phase \in {"transfer", "return"}
         /\ Selected <=> op.kind = "read"
         /\ op.kind = "read" =>
              /\ op.len = operation.count /\ op.buf = Local /\ Reading(operation)
              /\ phase = "return" /\ op = ReadAllOp(operation)
         /\ op.kind # "read" =>
              /\ op.kind = "write" /\ op.data # <<>> /\ op.data \in Seq(Byte) /\ op.given
              /\ op.stop <=> phase = "return"
              /\ phase = "transfer" => op.data = <<operation.reg>> /\ Reading(operation)
              /\ phase = "return" => op = WriteAllOp(operation) /\ ~Reading(operation)
  <1>1. /\ operation \in AllOperations /\ phase \in {"transfer", "return"} /\ op = CurrentOp
        /\ phase = "transfer" => Reading(operation)
        /\ operation # NoOperation
    BY DEF Phases
  <1>2. op.addr \in 0..127 /\ (op.kind = "write" => op.data \in Seq(Byte))
    BY OpFields
  <1>3. CASE phase = "transfer"
    <2>1. op = SelectOp(operation)
      BY <1>1, <1>3 DEF CurrentOp
    <2>2. /\ op.kind = "write" /\ op.addr = operation.addr /\ op.data = <<operation.reg>>
          /\ op.stop = FALSE /\ op.given
      BY <2>1 DEF SelectOp
    <2>3. <<operation.reg>> # <<>>
      OBVIOUS
    <2> QED
      BY <1>1, <1>2, <1>3, <2>2, <2>3 DEF Selected
  <1>4. CASE phase = "return" /\ Reading(operation)
    <2>1. op = ReadAllOp(operation)
      BY <1>1, <1>4 DEF CurrentOp
    <2>2. /\ op.kind = "read" /\ op.addr = operation.addr /\ op.len = operation.count
          /\ op.buf = Local
      BY <2>1 DEF ReadAllOp
    <2> QED
      BY <1>1, <1>2, <1>4, <2>1, <2>2 DEF Selected
  <1>5. CASE phase = "return" /\ ~Reading(operation)
    <2>1. op = WriteAllOp(operation)
      BY <1>1, <1>5 DEF CurrentOp
    <2>2. /\ op.kind = "write" /\ op.addr = operation.addr /\ op.stop = TRUE /\ op.given
          /\ op.data = <<operation.reg>> \o Payload(operation)
      BY <2>1 DEF WriteAllOp
    <2> QED
      BY <1>1, <1>2, <1>5, <2>1, <2>2, RegisterFirst DEF Selected
  <1> QED
    BY <1>1, <1>3, <1>4, <1>5
-----------------------------------------------------------------------------
(* The driver's methods *)

\* A program starts with no access and no session.
LEMMA InitDInv == DeviceInit => DInv
  <1> SUFFICES ASSUME DeviceInit PROVE DInv
    OBVIOUS
  <1>1. IInv
    BY InitIInv DEF DeviceInit
  <1>2. Phases
    BY DEF DeviceInit, Init, EhweInit, Phases
  <1>3. ~Selected
    BY DEF DeviceInit, Selected
  <1>4. Kept /\ OnlyBadAddressRejected
    BY <1>3 DEF DeviceInit, Init, EhweInit, Kept, OnlyBadAddressRejected, Configured, ClearMsg
  <1> QED
    BY <1>1, <1>2, <1>4 DEF DInv

\* Steps that leave the access where it is keep its part of the invariant.
LEMMA SamePhase ==
  ASSUME Phases, UNCHANGED <<device, operation, phase>>, op' \in {op, NoOp},
         op' = NoOp => phase # "select" \/ op = NoOp
  PROVE  /\ Phases'
         /\ op' = op => Selected' = Selected
         /\ op' = NoOp => (Selected' <=> operation # NoOperation /\ Reading(operation) /\ phase = "transfer")
  <1>1. CurrentOp' = CurrentOp
    BY DEF CurrentOp, SelectOp, ReadAllOp, WriteAllOp, Reading, Payload
  <1>2. Phases'
    BY <1>1 DEF Phases, Reading
  <1>3. op' = op => Selected' = Selected
    BY DEF Selected, Reading
  <1>4. op' = NoOp => (Selected' <=> operation # NoOperation /\ Reading(operation) /\ phase = "transfer")
    BY DEF Selected, Reading
  <1> QED
    BY <1>2, <1>3, <1>4

\* Each method of the driver keeps what is said of the access above it: START,
LEMMA StartKept ==
  ASSUME DInv, Start, UNCHANGED deviceVars
  PROVE  Phases' /\ Kept' /\ OnlyBadAddressRejected'
  <1>1. /\ Running /\ call = "start" /\ call' = "sendByte" /\ op' = op /\ status' = status
        /\ UNCHANGED <<outMsg, outbuf, mem, device, operation, phase>>
    BY DEF Start, Entered, Return, NextMethod, deviceVars
  <1>2. Phases' /\ Selected' = Selected
    BY <1>1, SamePhase DEF DInv
  <1>3. Kept'
    BY <1>1, <1>2 DEF DInv, Kept
  <1> QED
    BY <1>1, <1>2, <1>3 DEF Running, OnlyBadAddressRejected

\* the address of a read, behind the register it keeps,
LEMMA SendReadAddressKept ==
  ASSUME DInv, SendReadAddress, UNCHANGED deviceVars
  PROVE  Phases' /\ Kept' /\ OnlyBadAddressRejected'
  <1>1. Running /\ call = "sendByte" /\ outMsg.addr # NO_ADDR /\ op # NoOp
    BY DEF SendReadAddress, Entered, IsReadAddress, DInv, IInv, TypeOK
  <1>2. Selected /\ outMsg.addr = operation.addr
    BY <1>1 DEF DInv, Kept
  <1>3. op.kind = "read" /\ op.addr = operation.addr
    BY <1>1, <1>2, CallFields DEF DInv
  <1>4. ReadAddressOk(AddressByte)
    BY <1>1, <1>2, <1>3, OpFields DEF ReadAddressOk, DInv
  <1>5. /\ call' = "receiveData" /\ op' = op /\ status' = status
        /\ UNCHANGED <<outMsg, outbuf, mem, device, operation, phase>>
    BY <1>1, <1>3, <1>4 DEF SendReadAddress, ReturnAck, Return, NextMethod, deviceVars
  <1>6. Phases' /\ Selected' = Selected
    BY <1>5, SamePhase DEF DInv
  <1>7. Kept'
    BY <1>1, <1>5, <1>6 DEF DInv, Kept, Running
  <1> QED
    BY <1>1, <1>5, <1>6, <1>7 DEF Running, OnlyBadAddressRejected

\* the address of a write,
LEMMA SendByteKept ==
  ASSUME DInv, SendByte, UNCHANGED deviceVars
  PROVE  Phases' /\ Kept' /\ OnlyBadAddressRejected'
  <1>1. Running /\ call = "sendByte" /\ op # NoOp /\ func = "start" /\ outMsg.addr = NO_ADDR
    BY DEF SendByte, Entered, IsReadAddress, DInv, IInv, TypeOK, AfterStart
  <1>2. ~Selected
    <2>1. Selected => outMsg.addr = operation.addr
      BY <1>1 DEF DInv, Kept
    <2>2. operation.addr \in 0..127
      BY <1>1, CallFields DEF DInv
    <2> QED
      BY <1>1, <2>1, <2>2 DEF NO_ADDR
  <1>3. op.kind = "write" /\ op.data # <<>> /\ op.data \in Seq(Byte)
    BY <1>1, <1>2, CallFields DEF DInv
  <1>4. Len(op.data) > 0
    BY <1>3
  <1>5. /\ call' = "sendData" /\ op' = op /\ status' = status
        /\ UNCHANGED <<device, operation, phase>>
    BY <1>1, <1>3, <1>4 DEF SendByte, ReturnAck, Return, NextMethod, deviceVars
  <1>6. Phases' /\ Selected' = Selected
    BY <1>5, SamePhase DEF DInv
  <1>7. Kept'
    BY <1>2, <1>5, <1>6 DEF Kept
  <1> QED
    BY <1>1, <1>5, <1>6, <1>7 DEF Running, OnlyBadAddressRejected

\* the bytes of a write, kept for the read where the access selects a register,
LEMMA SendDataKept ==
  ASSUME DInv, SendData, UNCHANGED deviceVars
  PROVE  Phases' /\ Kept' /\ OnlyBadAddressRejected'
  <1>1. /\ Running /\ call = "sendData" /\ op # NoOp /\ op.kind = "write"
        /\ func = "sendByte" /\ outbuf # NULL /\ mem[outbuf] = <<AddressByte>>
        /\ TypeOK /\ HeapOwned
    BY DEF SendData, Entered, DInv, IInv, TypeOK, AfterAddress
  <1>2. /\ ~Selected /\ op.addr = operation.addr /\ op.data \in Seq(Byte)
        /\ op.stop <=> phase = "return"
        /\ phase \in {"transfer", "return"}
        /\ phase = "transfer" => op.data = <<operation.reg>> /\ Reading(operation)
        /\ operation \in AllOperations
    BY <1>1, CallFields DEF DInv
  <1>3. /\ Replace(op.data) /\ SetOutMsg(OutAddr, op.data) /\ func' = "sendData"
        /\ Return /\ UNCHANGED <<device, operation, phase>>
    BY <1>1 DEF SendData, deviceVars
  <1>4. status' = status /\ call' = AfterWrite
    BY <1>1, <1>3 DEF Return, NextMethod
  <1>5. CASE phase = "return"
    <2>1. call' = "stop" /\ op' = op
      BY <1>2, <1>3, <1>4, <1>5 DEF Return, AfterWrite, NextMethod
    <2>2. Phases' /\ Selected' = Selected
      BY <1>3, <2>1, SamePhase DEF DInv
    <2> QED
      BY <1>1, <1>2, <1>4, <2>1, <2>2 DEF Kept, Running, OnlyBadAddressRejected
  <1>6. CASE phase = "transfer"
    <2>1. call' = "none" /\ op' = NoOp
      BY <1>1, <1>2, <1>3, <1>4, <1>6 DEF Return, AfterWrite, NextMethod
    <2>2. Phases' /\ Selected'
      BY <1>2, <1>3, <1>6, <2>1, SamePhase, AccessFields DEF DInv
    <2>3. mem'[outbuf'] = op.data
      BY <1>1, <1>2, <1>3, ReplaceOutbuf
    <2>4. outMsg'.addr = op.addr
      <3>1. OutAddr = RW_ADDR(AddressByte)
        BY <1>1 DEF OutAddr, AddrInOutbuf
      <3>2. OutAddr = op.addr
        BY <1>1, <3>1, OpFields DEF DInv
      <3> QED
        BY <1>3, <3>2 DEF SetOutMsg
    <2>5. Kept'
      BY <1>2, <1>3, <1>6, <2>1, <2>2, <2>3, <2>4 DEF Kept
    <2> QED
      BY <1>1, <1>4, <2>2, <2>5 DEF Running, OnlyBadAddressRejected
  <1> QED
    BY <1>2, <1>5, <1>6

\* the read,
LEMMA ReceiveDataKept ==
  ASSUME DInv, ReceiveData, UNCHANGED deviceVars
  PROVE  Phases' /\ Kept' /\ OnlyBadAddressRejected'
  <1>1. Running /\ call = "receiveData" /\ op # NoOp /\ op.kind = "read" /\ func = "sendByte"
    BY DEF ReceiveData, Entered, DInv, IInv, TypeOK, BeforeReceive
  <1>2. op.buf = Local /\ Local # NULL
    BY <1>1, CallFields, DeviceAssumption, PointerAssumption
       DEF DInv, DeviceAssumption, PointerAssumption
  <1>3. /\ call' = "stop" /\ op' = op /\ status' = status
        /\ UNCHANGED <<outMsg, outbuf, mem, device, operation, phase>>
    BY <1>1, <1>2 DEF ReceiveData, Return, NextMethod, deviceVars
  <1>4. Phases' /\ Selected' = Selected
    BY <1>3, SamePhase DEF DInv
  <1>5. Kept'
    BY <1>1, <1>3, <1>4 DEF DInv, Kept
  <1> QED
    BY <1>1, <1>3, <1>4, <1>5 DEF Running, OnlyBadAddressRejected

\* Nothing is left for stop to object to.
LEMMA AtStop ==
  ASSUME DInv, Entered("stop")
  PROVE  /\ AddressesOk /\ op # NoOp /\ phase = "return" /\ operation \in AllOperations
         /\ outMsg.addr = operation.addr /\ outMsg.buf = outbuf /\ outMsg.flags = 0
         /\ outMsg.len = Len(mem[outbuf]) % U16
         /\ IF op.kind = "read"
              THEN /\ func = "receiveData" /\ Reading(operation)
                   /\ mem[outbuf] = <<operation.reg>>
                   /\ inMsg.len = operation.count /\ inMsg.buf = Local
              ELSE /\ func = "sendData" /\ ~Reading(operation)
                   /\ mem[outbuf] = <<operation.reg>> \o Payload(operation)
  <1>1. Running /\ call = "stop" /\ op # NoOp
    BY DEF Entered, DInv, IInv, TypeOK
  <1>2. operation \in AllOperations /\ op.addr = operation.addr /\ op.addr \in 0..127
        /\ (Selected <=> op.kind = "read") /\ op.kind \in {"read", "write"}
    BY <1>1, CallFields DEF DInv
  <1>3. CASE op.kind = "read"
    <2>1. /\ func = "receiveData" /\ ReadAddressed
          /\ inMsg.len = op.len % U16 /\ inMsg.buf = op.buf
      BY <1>1, <1>3 DEF DInv, IInv, BeforeStop
    <2>2. outMsg.addr = operation.addr /\ mem[outbuf] = <<operation.reg>>
      BY <1>1, <1>2, <1>3 DEF DInv, Kept
    <2>3. /\ op.len = operation.count /\ op.buf = Local /\ Reading(operation) /\ phase = "return"
      BY <1>1, <1>3, CallFields DEF DInv
    <2>4. outMsg.addr # NO_ADDR
      BY <1>2, <2>2 DEF NO_ADDR
    <2>5. /\ inMsg.addr = op.addr /\ outMsg.buf = outbuf /\ outMsg.flags = 0
          /\ outMsg.len = Len(mem[outbuf]) % U16
      BY <2>1, <2>4 DEF ReadAddressed, DInv, IInv, OutMsgOfOutbuf
    <2>6. AddressesOk
      BY <1>2, <2>1, <2>2, <2>5 DEF AddressesOk, SendState, ReceiveState
    <2>7. inMsg.len = operation.count
      BY <1>2, <2>1, <2>3, AccessFits
    <2> QED
      BY <1>1, <1>2, <1>3, <2>1, <2>2, <2>3, <2>5, <2>6, <2>7
  <1>4. CASE op.kind = "write"
    <2>1. op.data # <<>> /\ op.stop
      BY <1>1, <1>4, CallFields DEF DInv, IInv, BeforeStop
    <2>2. func = "sendData" /\ outMsg.addr = op.addr /\ mem[outbuf] = op.data
      BY <1>1, <1>4, <2>1 DEF DInv, IInv, BeforeStop
    <2>3. phase = "return" /\ op = WriteAllOp(operation) /\ ~Reading(operation)
      BY <1>1, <1>4, <2>1, CallFields DEF DInv
    <2>4. op.data = <<operation.reg>> \o Payload(operation)
      BY <2>3 DEF WriteAllOp
    <2>5. outMsg.addr # NO_ADDR
      BY <1>2, <2>2 DEF NO_ADDR
    <2>6. outMsg.buf = outbuf /\ outMsg.flags = 0 /\ outMsg.len = Len(mem[outbuf]) % U16
      BY <2>5 DEF DInv, IInv, OutMsgOfOutbuf
    <2>7. AddressesOk
      BY <1>2, <2>2 DEF AddressesOk, SendState, ReceiveState
    <2> QED
      BY <1>1, <1>2, <1>4, <2>2, <2>3, <2>4, <2>6, <2>7
  <1> QED
    BY <1>2, <1>3, <1>4

\* What is handed to the kernel first: the register, and all that follows it.
LEMMA FirstMessage ==
  ASSUME DInv, Entered("stop")
  PROVE  /\ Outgoing.addr = operation.addr /\ Outgoing.data = mem[outbuf]
         /\ Outgoing.len = Len(mem[outbuf])
         /\ Head(mem[outbuf]) = operation.reg /\ mem[outbuf] # <<>>
         /\ \E S : mem[outbuf] \in Seq(S)
  <1>1. /\ outMsg.addr = operation.addr /\ outMsg.buf = outbuf
        /\ outMsg.len = Len(mem[outbuf]) % U16 /\ operation \in AllOperations
        /\ IF op.kind = "read" THEN mem[outbuf] = <<operation.reg>>
           ELSE ~Reading(operation) /\ mem[outbuf] = <<operation.reg>> \o Payload(operation)
    BY AtStop
  <1>2. /\ Head(mem[outbuf]) = operation.reg /\ mem[outbuf] # <<>>
        /\ Len(mem[outbuf]) % U16 = Len(mem[outbuf])
        /\ \E S : mem[outbuf] \in Seq(S)
    <2>1. CASE op.kind = "read"
      <3>1. U16 \in Nat /\ 1 < U16
        BY LengthAssumption DEF LengthAssumption
      <3>2. 1 % U16 = 1
        BY <3>1, CutLength
      <3>3. /\ Len(<<operation.reg>>) = 1 /\ Head(<<operation.reg>>) = operation.reg
            /\ <<operation.reg>> # <<>> /\ <<operation.reg>> \in Seq({operation.reg})
        OBVIOUS
      <3>4. mem[outbuf] = <<operation.reg>>
        BY <1>1, <2>1
      <3> QED
        BY <3>2, <3>3, <3>4
    <2>2. CASE op.kind # "read"
      <3>1. PICK S : Payload(operation) \in Seq(S)
        BY <1>1, <2>2, PayloadSeq
      <3>2. /\ Payload(operation) \in Seq(S \cup {operation.reg})
            /\ <<operation.reg>> \in Seq(S \cup {operation.reg})
        BY <3>1
      <3>3. /\ <<operation.reg>> \o Payload(operation) \in Seq(S \cup {operation.reg})
            /\ Len(<<operation.reg>> \o Payload(operation)) = 1 + Len(Payload(operation))
        BY <3>2
      <3> QED
        BY <1>1, <2>2, <3>3, RegisterFirst, AccessFits
    <2> QED
      BY <2>1, <2>2
  <1>3. SubSeq(mem[outMsg.buf], 1, outMsg.len) = mem[outbuf]
    BY <1>1, <1>2, WholeSubSeq
  <1> QED
    BY <1>1, <1>2, <1>3 DEF Outgoing, Message

\* and STOP, which ends the session.
LEMMA StopKept ==
  ASSUME DInv, Stop, UNCHANGED deviceVars
  PROVE  Phases' /\ Kept' /\ OnlyBadAddressRejected'
  <1>1. Entered("stop") /\ phase = "return" /\ op # NoOp
    BY AtStop DEF Stop
  <1>2. /\ call' = "none" /\ op' = NoOp /\ status' = status /\ Running
        /\ func' = "free" /\ outMsg' = ClearMsg
        /\ UNCHANGED <<device, operation, phase>>
    BY <1>1 DEF Stop, Entered, Epilogue, Return, NextMethod, deviceVars
  <1>3. Phases' /\ ~Selected'
    BY <1>1, <1>2, SamePhase DEF DInv
  <1>4. Kept'
    BY <1>2, <1>3 DEF Kept, ClearMsg
  <1> QED
    BY <1>2, <1>3, <1>4 DEF Running, OnlyBadAddressRejected

\* All of them together.
LEMMA BelowKept == DInv /\ Below => DInv'
  <1> SUFFICES ASSUME DInv, Below PROVE DInv'
    OBVIOUS
  <1>1. UNCHANGED deviceVars
    BY DEF Below
  <1>2. IInv'
    BY NextIInv DEF DInv, Below, Next
  <1>3. ~StopRejected /\ ~WithoutBuffer
    <2>1. ~StopRejected
      BY AtStop DEF StopRejected
    <2>2. WithoutBuffer => op # NoOp /\ op.kind = "write" /\ ~op.given
      BY DEF WithoutBuffer, NoBuffer, Entered, DInv, IInv, TypeOK, AfterAddress
    <2> QED
      BY <2>1, <2>2, CallFields DEF DInv
  <1>4. CASE StopFailed
    <2>1. status' = "failed" /\ UNCHANGED <<op, device, operation, phase>>
      BY <1>1, <1>4 DEF StopFailed, deviceVars
    <2>2. Phases'
      BY <2>1, SamePhase DEF DInv
    <2> QED
      BY <1>2, <2>1, <2>2 DEF DInv, Kept, Running, OnlyBadAddressRejected
  <1>5. ~StopFailed => Phases' /\ Kept' /\ OnlyBadAddressRejected'
    BY <1>1, <1>3, StartKept, SendReadAddressKept, SendByteKept, SendDataKept, ReceiveDataKept, StopKept
       DEF Below
  <1> QED
    BY <1>2, <1>4, <1>5 DEF DInv
-----------------------------------------------------------------------------
(* The accesses *)

\* What is said of the driver depends on its own state alone.
LEMMA SameDriver ==
  ASSUME DInv, UNCHANGED vars
  PROVE  IInv' /\ UNCHANGED <<op, call, status, func, outMsg, outbuf, mem, user>>
  BY UnchangedStep DEF DInv, vars, ehweVars, driverVars

\* Between accesses.
LEMMA WhenIdle ==
  ASSUME DInv, Idle
  PROVE  /\ Running /\ operation = NoOperation /\ phase = "select" /\ op = NoOp /\ call = "none"
         /\ outMsg.addr = NO_ADDR /\ func = "free" /\ ~Selected
  <1>1. Running /\ operation = NoOperation /\ phase = "select" /\ op = NoOp
    BY DEF DInv, Phases, Idle
  <1>2. call = "none"
    BY <1>1 DEF DInv, IInv, TypeOK
  <1>3. ~Selected
    BY <1>1 DEF Selected
  <1> QED
    BY <1>1, <1>2, <1>3 DEF DInv, Kept

\* Handles come and go between accesses.
LEMMA OpenClose ==
  ASSUME DInv, NEW h \in Handle,
         Close(h) \/ \E a \in Addresses : Open(h, a)
  PROVE  DInv'
  <1>1. Idle /\ UNCHANGED vars /\ UNCHANGED <<operation, phase>>
    BY DEF Open, Close
  <1>2. UNCHANGED <<op, call, status, func, outMsg, outbuf, mem>> /\ IInv'
    BY <1>1, SameDriver
  <1>3. device' \in [Handle -> Addresses \cup {Closed}]
    BY DEF Open, Close, DInv, Phases
  <1>4. Phases'
    BY <1>1, <1>2, <1>3, WhenIdle DEF DInv, Phases
  <1>5. Kept' /\ OnlyBadAddressRejected'
    BY <1>1, <1>2, WhenIdle DEF Kept, Selected, Running, OnlyBadAddressRejected
  <1> QED
    BY <1>2, <1>4, <1>5 DEF DInv

\* An access begins with no session in the driver.
LEMMA BeginStep ==
  ASSUME DInv, NEW h \in Handle, NEW o \in AllOperations, Begin(h, o)
  PROVE  DInv'
  <1>1. /\ Idle /\ UNCHANGED vars /\ device' = device
        /\ operation' = o /\ phase' = IF Reading(o) THEN "select" ELSE "transfer"
    BY DEF Begin
  <1>2. UNCHANGED <<op, call, status, func, outMsg, outbuf, mem>> /\ IInv'
    BY <1>1, SameDriver
  <1>3. /\ op' = NoOp /\ status' = "running" /\ call' = "none"
        /\ func' = "free" /\ outMsg'.addr = NO_ADDR
    BY <1>1, <1>2, WhenIdle DEF Running
  <1>4. o # NoOperation
    BY AccessFields
  <1>5. Phases'
    BY <1>1, <1>3, <1>4 DEF DInv, Phases, Reading
  <1>6. ~Selected'
    BY <1>1, <1>3 DEF Selected, Reading
  <1>7. Kept' /\ OnlyBadAddressRejected'
    BY <1>3, <1>6 DEF Kept, OnlyBadAddressRejected
  <1> QED
    BY <1>2, <1>5, <1>7 DEF DInv

\* Every function begins an access of AllOperations.
LEMMA AccessBegins ==
  ASSUME DInv, NEW h \in Handle, ReadBytes(h) \/ ReadUint(h) \/ WriteBytes(h) \/ WriteUint(h)
  PROVE  \E o \in AllOperations : Begin(h, o)
  <1>1. \A o : Begin(h, o) => o.addr = device[h] /\ device[h] \in Addresses
    BY DEF Begin, DInv, Phases
  <1>2. CASE ReadBytes(h)
    <2>1. PICK r \in Registers, n \in Counts :
            Begin(h, [kind |-> "read_bytes", addr |-> device[h], reg |-> r, count |-> n])
      BY <1>2 DEF ReadBytes
    <2>2. device[h] \in Addresses
      BY <1>1, <2>1
    <2>3. [kind |-> "read_bytes", addr |-> device[h], reg |-> r, count |-> n] \in AllOperations
      BY <2>2 DEF AllOperations
    <2> QED
      BY <2>1, <2>3
  <1>3. CASE ReadUint(h)
    <2>1. PICK r \in Registers, n \in Widths :
            Begin(h, [kind |-> "read_uint", addr |-> device[h], reg |-> r, count |-> n])
      BY <1>3 DEF ReadUint
    <2>2. device[h] \in Addresses
      BY <1>1, <2>1
    <2>3. [kind |-> "read_uint", addr |-> device[h], reg |-> r, count |-> n] \in AllOperations
      BY <2>2 DEF AllOperations
    <2> QED
      BY <2>1, <2>3
  <1>4. CASE WriteBytes(h)
    <2>1. PICK r \in Registers, bytes \in Data :
            /\ Len(bytes) \in Counts
            /\ Begin(h, [kind |-> "write_bytes", addr |-> device[h], reg |-> r, data |-> bytes])
      BY <1>4 DEF WriteBytes
    <2>2. device[h] \in Addresses
      BY <1>1, <2>1
    <2>3. [kind |-> "write_bytes", addr |-> device[h], reg |-> r, data |-> bytes] \in AllOperations
      BY <2>1, <2>2 DEF AllOperations
    <2> QED
      BY <2>1, <2>3
  <1>5. CASE WriteUint(h)
    <2>1. PICK r \in Registers, n \in Widths, v \in Values :
            Begin(h, [kind |-> "write_uint", addr |-> device[h], reg |-> r, count |-> n, val |-> v])
      BY <1>5 DEF WriteUint
    <2>2. device[h] \in Addresses
      BY <1>1, <2>1
    <2>3. [kind |-> "write_uint", addr |-> device[h], reg |-> r, count |-> n, val |-> v]
            \in AllOperations
      BY <2>2 DEF AllOperations
    <2> QED
      BY <2>1, <2>3
  <1> QED
    BY <1>2, <1>3, <1>4, <1>5

\* The calls the program makes keep the invariant,
LEMMA AccessKept == DInv /\ Access => DInv'
  <1> SUFFICES ASSUME DInv, NEW h \in Handle,
                      \/ \E a \in Addresses : Open(h, a)
                      \/ Close(h) \/ ReadBytes(h) \/ ReadUint(h) \/ WriteBytes(h) \/ WriteUint(h)
               PROVE  DInv'
    BY DEF Access
  <1> QED
    BY OpenClose, AccessBegins, BeginStep

\* A call of ehwe.c is entered, or its assertion of the address fails.
LEMMA EnterKept ==
  ASSUME DInv, op = NoOp, operation \in AllOperations, device' = device, operation' = operation,
         NEW o \in Requests, Enter(o), UNCHANGED <<driverVars, user, wire>>,
         o.addr = operation.addr, o = CurrentOp', phase' # "select",
         phase' = "transfer" => Reading(operation) /\ phase = "select",
         phase' = "return" => phase = "transfer",
         phase' \in {"transfer", "return"}
  PROVE  DInv'
  <1>1. IInv'
    BY NextIInv DEF DInv, Call, Next
  <1>2. UNCHANGED <<func, outMsg, outbuf, mem>>
    BY DEF driverVars
  <1>3. Running /\ call = "none"
    BY DEF Enter, DInv, IInv, TypeOK
  <1>4. o # NoOp /\ operation # NoOperation
    BY AccessFields, RequestsAssumption, NoOpAssumption DEF RequestsAssumption, NoOpAssumption
  <1>5. CASE o.addr < AddressLimit
    <2>1. op' = o /\ call' = "start" /\ status' = status
      BY <1>5 DEF Enter
    <2>2. Phases'
      BY <1>4, <2>1 DEF DInv, Phases, Reading
    <2>3. Selected' <=> Selected
      BY <1>4, <2>1 DEF Selected, Reading
    <2>4. Kept'
      BY <1>2, <1>3, <2>1, <2>3 DEF DInv, Kept, Running
    <2>5. OnlyBadAddressRejected'
      BY <1>3, <2>1 DEF OnlyBadAddressRejected, Running
    <2> QED
      BY <1>1, <2>2, <2>4, <2>5 DEF DInv
  <1>6. CASE ~(o.addr < AddressLimit)
    <2>1. status' = "rejected" /\ UNCHANGED <<op, call>>
      BY <1>6 DEF Enter
    <2>2. Phases'
      BY <1>4, <2>1 DEF DInv, Phases, Reading
    <2>3. operation'.addr >= 128
      <3>1. operation.addr \in Byte
        BY AccessFields
      <3> QED
        BY <1>6, <3>1 DEF AddressLimit, Byte
    <2>4. Kept' /\ OnlyBadAddressRejected'
      BY <1>4, <2>1, <2>3 DEF Kept, Running, OnlyBadAddressRejected
    <2> QED
      BY <1>1, <2>2, <2>4 DEF DInv
  <1> QED
    BY <1>5, <1>6

\* so does the i2c_write of the register,
LEMMA SelectStep == DInv /\ Select => DInv'
  <1> SUFFICES ASSUME DInv, Select PROVE DInv'
    OBVIOUS
  <1>1. /\ op = NoOp /\ phase = "select" /\ phase' = "transfer" /\ operation # NoOperation
        /\ Enter(SelectOp(operation)) /\ UNCHANGED <<device, operation, driverVars, user, wire>>
    BY DEF Select
  <1>2. operation \in AllOperations /\ Reading(operation)
    BY <1>1 DEF DInv, Phases
  <1>3. SelectOp(operation) \in Requests
    BY <1>2, CallsAssumption DEF CallsAssumption
  <1>4. SelectOp(operation).addr = operation.addr
    BY DEF SelectOp
  <1>5. CurrentOp' = SelectOp(operation)
    BY <1>1 DEF CurrentOp, SelectOp
  <1> QED
    BY <1>1, <1>2, <1>3, <1>4, <1>5, EnterKept

\* the i2c_read or i2c_write behind it,
LEMMA TransferStep == DInv /\ Transfer => DInv'
  <1> SUFFICES ASSUME DInv, Transfer PROVE DInv'
    OBVIOUS
  <1> DEFINE o == IF Reading(operation) THEN ReadAllOp(operation) ELSE WriteAllOp(operation)
  <1>1. /\ op = NoOp /\ phase = "transfer" /\ phase' = "return" /\ operation # NoOperation
        /\ Enter(o) /\ UNCHANGED <<device, operation, driverVars, user, wire>>
    BY DEF Transfer
  <1>2. operation \in AllOperations
    BY <1>1 DEF DInv, Phases
  <1>3. o \in Requests
    BY <1>2, CallsAssumption DEF CallsAssumption
  <1>4. o.addr = operation.addr
    BY DEF ReadAllOp, WriteAllOp
  <1>5. CurrentOp' = o
    BY <1>1 DEF CurrentOp, ReadAllOp, WriteAllOp, Reading, Payload
  <1> HIDE DEF o
  <1> QED
    BY <1>1, <1>2, <1>3, <1>4, <1>5, EnterKept

\* the return to the program,
LEMMA FinishStep == DInv /\ Finish => DInv'
  <1> SUFFICES ASSUME DInv, Finish PROVE DInv'
    OBVIOUS
  <1>1. /\ Running /\ op = NoOp /\ phase = "return" /\ phase' = "select" /\ operation' = NoOperation
        /\ user' = [user EXCEPT ![Local] = <<>>]
        /\ UNCHANGED <<device, op, call, status, func, outMsg, inMsg, outbuf, inbuf, nmsgs, mem, wire>>
    BY DEF Finish, ehweVars, driverVars
  <1>2. user' \in [UserBuf -> Data]
    BY <1>1, CallsAssumption DEF CallsAssumption, DInv, IInv, TypeOK
  <1>3. IInv'
    BY <1>1, <1>2 DEF DInv, IInv, TypeOK, HeapOwned, AddressAsserted, OutMsgOfOutbuf, BetweenCalls,
       AfterStart, AfterAddress, AddressByte, BeforeReceive, BeforeStop, ReadAddressed
  <1>4. Phases'
    BY <1>1 DEF DInv, Phases
  <1>5. ~Selected /\ ~Selected'
    BY <1>1 DEF Selected
  <1>6. Kept' /\ OnlyBadAddressRejected'
    BY <1>1, <1>5 DEF DInv, Kept, Running, OnlyBadAddressRejected
  <1> QED
    BY <1>3, <1>4, <1>6 DEF DInv

\* and a step of no part of it.
LEMMA StutterStep == DInv /\ UNCHANGED <<vars, deviceVars>> => DInv'
  <1> SUFFICES ASSUME DInv, UNCHANGED <<vars, deviceVars>> PROVE DInv'
    OBVIOUS
  <1>1. IInv' /\ UNCHANGED <<op, call, status, func, outMsg, outbuf, mem, device, operation, phase>>
    BY SameDriver DEF deviceVars
  <1>2. Phases' /\ Selected' = Selected
    BY <1>1, SamePhase DEF DInv
  <1> QED
    BY <1>1, <1>2 DEF DInv, Kept, Running, OnlyBadAddressRejected

\* Every step keeps it, ...
LEMMA DeviceNextKept == DInv /\ [DeviceNext]_allVars => DInv'
  BY AccessKept, SelectStep, TransferStep, FinishStep, BelowKept, StutterStep
     DEF DeviceNext, allVars

\* ... so it holds throughout.
LEMMA DeviceInvariance == DeviceSpec => []DInv
  <1> QED
    BY InitDInv, DeviceNextKept, PTL DEF DeviceSpec

\* ehwe_i2c_device.c: no sequence of register accesses runs into one of the
\* driver's restrictions; what is rejected is an address that is not 7 bits.
THEOREM AccessesSupported == DeviceSpec => []OnlyBadAddressRejected
  <1>1. DInv => OnlyBadAddressRejected
    BY DEF DInv
  <1> QED
    BY <1>1, DeviceInvariance, PTL

\* Between accesses the driver holds no session and no memory.
THEOREM NothingHeld == DeviceSpec => []NoSessionLeft
  <1>1. DInv => NoSessionLeft
    <2> SUFFICES ASSUME DInv, Idle PROVE Session = <<>> /\ func = "free" /\ outbuf = NULL
      BY DEF NoSessionLeft
    <2>1. call = "none" /\ outMsg.addr = NO_ADDR /\ func = "free"
      BY WhenIdle
    <2>2. outbuf = NULL
      BY <2>1 DEF DInv, IInv, BetweenCalls
    <2> QED
      BY <2>1, <2>2 DEF Session
  <1> QED
    BY <1>1, DeviceInvariance, PTL
-----------------------------------------------------------------------------
(* Numbers and registers *)

\* Induction, by counting: a set with 0 and all successors that misses an x
\* would map its members up to x one to one on fewer.
LEMMA Induction ==
  ASSUME NEW S, 0 \in S, \A n \in Nat : n \in S => n + 1 \in S
  PROVE  Nat \subseteq S
  <1> SUFFICES ASSUME NEW x \in Nat, x \notin S PROVE FALSE
    OBVIOUS
  <1> DEFINE T == S \cap 0..x
             f == [n \in T |-> n + 1]
  <1>1. T \in SUBSET (0..x) /\ 0 \in T /\ T \subseteq Nat /\ \A n \in T : n < x
    OBVIOUS
  <1>2. \A n \in T : n + 1 \in T \ {0}
    BY <1>1
  <1>3. f \in [T -> T \ {0}] /\ \A n \in T : f[n] = n + 1
    BY <1>2
  <1> HIDE DEF T, f
  <1>4. IsFiniteSet(T)
    <2>1. IsFiniteSet(0..x)
      BY FS_Interval
    <2> QED
      BY <1>1, <2>1, FS_Subset
  <1>5. /\ IsFiniteSet(T \ {0}) /\ Cardinality(T \ {0}) = Cardinality(T) - 1
        /\ Cardinality(T) \in Nat
    BY <1>1, <1>4, FS_RemoveElement, FS_CardinalityType
  <1>6. PICK m, n \in T : m # n /\ f[m] = f[n]
    BY <1>3, <1>4, <1>5, FS_PigeonHole
  <1> QED
    BY <1>1, <1>3, <1>6

\* The recursion behind Loaded, unfolded once at every byte.
Unfolds(b, f) ==
  f = [i \in 1..Len(b) + 1 |-> IF i > Len(b) THEN 0 ELSE b[i] + 256 * f[i + 1]]

\* The function Loaded chooses is the one its recursion describes.
LEMMA LoadedUnfolds ==
  ASSUME NEW b, NEW w, Unfolds(b, w)
  PROVE  \E f : Unfolds(b, f) /\ Loaded(b) = f[1]
  <1> DEFINE from == CHOOSE g : g = [i \in 1..Len(b) + 1 |->
                                       IF i > Len(b) THEN 0 ELSE b[i] + 256 * g[i + 1]]
  <1>1. Unfolds(b, from)
    BY Zenon DEF Unfolds
  <1>2. Loaded(b) = from[1]
    BY DEF Loaded
  <1> HIDE DEF from
  <1> QED
    BY <1>1, <1>2

\* What a load of up to four bytes through a pointer returns is the number
\* whose digits they are; digits that are not there count as 0.
LEMMA LoadedDigits ==
  ASSUME NEW b, Len(b) \in {1, 2, 4},
         NEW x \in Nat, NEW y \in Nat, NEW z \in Nat, NEW u \in Nat,
         b[1] = x, y = IF Len(b) >= 2 THEN b[2] ELSE 0,
         z = IF Len(b) >= 3 THEN b[3] ELSE 0, u = IF Len(b) >= 4 THEN b[4] ELSE 0
  PROVE  Loaded(b) = File!Number(b)
  <1> DEFINE w == [i \in 1..Len(b) + 1 |->
                     IF i > Len(b) THEN 0
                     ELSE IF i = 4 THEN u ELSE IF i = 3 THEN z + 256 * u
                     ELSE IF i = 2 THEN y + 256 * (z + 256 * u)
                     ELSE x + 256 * (y + 256 * (z + 256 * u))]
  <1>1. Unfolds(b, w)
    <2>1. \A i \in 1..Len(b) + 1 : w[i] = IF i > Len(b) THEN 0 ELSE b[i] + 256 * w[i + 1]
      <3>1. CASE Len(b) = 1
        BY <3>1
      <3>2. CASE Len(b) = 2
        BY <3>2
      <3>3. CASE Len(b) = 4
        BY <3>3
      <3> QED
        BY <3>1, <3>2, <3>3
    <2>2. w = [i \in 1..Len(b) + 1 |-> w[i]]
      OBVIOUS
    <2> HIDE DEF w
    <2> QED
      BY <2>1, <2>2 DEF Unfolds
  <1> HIDE DEF w
  <1>2. PICK f : Unfolds(b, f) /\ Loaded(b) = f[1]
    BY <1>1, LoadedUnfolds
  <1>3. f[1] = x + 256 * (y + 256 * (z + 256 * u))
    <2>1. \A i \in 1..Len(b) + 1 : f[i] = IF i > Len(b) THEN 0 ELSE b[i] + 256 * f[i + 1]
      BY <1>2 DEF Unfolds
    <2>2. CASE Len(b) = 1
      BY <2>1, <2>2
    <2>3. CASE Len(b) = 2
      BY <2>1, <2>3
    <2>4. CASE Len(b) = 4
      BY <2>1, <2>4
    <2> QED
      BY <2>2, <2>3, <2>4
  <1>4. File!Number(b) = x + 256 * (y + 256 * (z + 256 * u))
    BY DEF File!Number
  <1> QED
    BY <1>2, <1>3, <1>4

\* A load of 1, 2 or 4 bytes is the number of the register file.
LEMMA LoadedNumber ==
  ASSUME NEW b \in Seq(Byte), Len(b) \in {1, 2, 4}
  PROVE  Loaded(b) = File!Number(b)
  <1> DEFINE d(i) == IF Len(b) >= i THEN b[i] ELSE 0
  <1>1. \A i \in 1..Len(b) : b[i] \in Nat
    <2>1. Byte \subseteq Nat
      BY DEF Byte
    <2>2. \A i \in 1..Len(b) : b[i] \in Byte
      OBVIOUS
    <2> QED
      BY <2>1, <2>2
  <1>2. \A i \in {1, 2, 3, 4} : d(i) \in Nat
    BY <1>1
  <1>3. d(1) = b[1] /\ d(1) \in Nat /\ d(2) \in Nat /\ d(3) \in Nat /\ d(4) \in Nat
    BY <1>2
  <1> QED
    BY <1>3, LoadedDigits

\* A device that stores the bytes it is sent one after the other ends up with
\* the last one for each register.
LEMMA StoresWritten ==
  ASSUME NEW a, NEW r, NEW S, NEW bytes \in Seq(S),
         regs[a] = [x \in Registers |-> regs[a][x]]
  PROVE  Stores(regs[a], r, bytes) = File!Written(a, r, bytes)
  <1> DEFINE n == Len(bytes)
             hits(k, x) == {i \in 1..k : RegisterAt(r, i) = x}
             last(h) == CHOOSE i \in h : \A j \in h : j <= i
             W(k) == [x \in Registers |-> IF hits(k, x) = {} THEN regs[a][x]
                                                             ELSE bytes[last(hits(k, x))]]
             Recursion(g) == g = [i \in 0..n |-> IF i = 0 THEN regs[a]
                                   ELSE [g[i - 1] EXCEPT ![RegisterAt(r, i)] = bytes[i]]]
             w == [k \in 0..n |-> W(k)]
             after == CHOOSE g : Recursion(g)
  <1>1. n \in Nat
    OBVIOUS
  <1>2. W(0) = regs[a]
    <2>1. \A x : hits(0, x) = {}
      OBVIOUS
    <2> HIDE DEF hits
    <2>2. W(0) = [x \in Registers |-> regs[a][x]]
      BY <2>1
    <2> QED
      BY <2>2
  <1>3. ASSUME NEW k \in 1..n
        PROVE  W(k) = [W(k - 1) EXCEPT ![RegisterAt(r, k)] = bytes[k]]
    <2>1. k \in Nat /\ k - 1 \in Nat
      BY <1>1
    <2>2. ASSUME NEW x, x # RegisterAt(r, k) PROVE hits(k, x) = hits(k - 1, x)
      BY <2>1, <2>2
    <2>3. hits(k, RegisterAt(r, k)) # {} /\ last(hits(k, RegisterAt(r, k))) = k
      <3> DEFINE h == hits(k, RegisterAt(r, k))
      <3>1. k \in h /\ \A j \in h : j <= k /\ j \in Nat
        BY <2>1
      <3> HIDE DEF h
      <3>2. \A i \in h : (\A j \in h : j <= i) => i = k
        BY <2>1, <3>1
      <3>3. last(h) \in h /\ \A j \in h : j <= last(h)
        BY <3>1, Zenon
      <3> QED
        BY <3>1, <3>2, <3>3 DEF h
    <2> HIDE DEF hits, last
    <2>4. W(k) = [x \in Registers |-> IF x = RegisterAt(r, k) THEN bytes[k] ELSE W(k - 1)[x]]
      BY <2>2, <2>3
    <2>5. W(k - 1) = [x \in Registers |-> W(k - 1)[x]]
      OBVIOUS
    <2> HIDE DEF W
    <2> QED
      BY <2>4, <2>5
  <1> HIDE DEF W
  <1>4. \A k \in 0..n : w[k] = IF k = 0 THEN regs[a]
                               ELSE [w[k - 1] EXCEPT ![RegisterAt(r, k)] = bytes[k]]
    BY <1>1, <1>2, <1>3
  <1>5. Recursion(w)
    BY <1>4
  <1> HIDE DEF w
  <1>6. Recursion(after)
    BY <1>5, Zenon
  <1>7. Stores(regs[a], r, bytes) = after[n]
    BY DEF Stores
  <1> HIDE DEF after
  <1>11. \A k \in 0..n : after[k] = IF k = 0 THEN regs[a]
                                   ELSE [after[k - 1] EXCEPT ![RegisterAt(r, k)] = bytes[k]]
    BY <1>6
  <1>8. \A k \in Nat : k \in 0..n => after[k] = w[k]
    <2> DEFINE T == {k \in Nat : k \in 0..n => after[k] = w[k]}
    <2>1. 0 \in T
      BY <1>1, <1>4, <1>11
    <2>2. ASSUME NEW k \in Nat, k \in T PROVE k + 1 \in T
      <3>1. k + 1 \in 0..n => k \in 0..n /\ k + 1 # 0 /\ (k + 1) - 1 = k
        BY <1>1
      <3>2. k + 1 \in 0..n => after[k] = w[k]
        BY <2>2, <3>1
      <3>3. k + 1 \in 0..n => after[k + 1] = [after[k] EXCEPT ![RegisterAt(r, k + 1)] = bytes[k + 1]]
        BY <1>11, <3>1
      <3>4. k + 1 \in 0..n => w[k + 1] = [w[k] EXCEPT ![RegisterAt(r, k + 1)] = bytes[k + 1]]
        BY <1>4, <3>1
      <3>5. k + 1 \in 0..n => after[k + 1] = w[k + 1]
        BY <3>2, <3>3, <3>4, <3>1
      <3> QED
        BY <3>5
    <2> HIDE DEF T
    <2>3. Nat \subseteq T
      BY <2>1, <2>2, Induction
    <2> QED
      BY <2>3 DEF T
  <1>9. after[n] = W(n)
    BY <1>1, <1>8 DEF w
  <1>10. File!Written(a, r, bytes) = W(n)
    BY DEF File!Written, File!Register, RegisterAt, W
  <1> QED
    BY <1>7, <1>9, <1>10
-----------------------------------------------------------------------------
(* The register file *)

\* What a read has found, once it is served.
Value == IF Served /\ Reading(operation) THEN user[Local] ELSE <<>>

\* The variables of the register file, one by one.
LEMMA FileVars ==
  UNCHANGED <<regs, operation, Served, Value, result, Running>> => UNCHANGED File!vars
  BY DEF File!vars, Value

\* The registers start as those of a register file.
LEMMA InitFiled == DeviceInit => Filed /\ File!Init
  <1> SUFFICES ASSUME DeviceInit PROVE Filed /\ File!Init
    OBVIOUS
  <1>1. phase = "select" /\ Running /\ operation = NoOperation /\ result = <<>>
    BY DEF DeviceInit, Init, EhweInit, Running
  <1>2. ~Served
    BY <1>1 DEF Served
  <1>3. AllRegisters
    BY DEF DeviceInit, AllRegisters
  <1> QED
    BY <1>1, <1>2, <1>3 DEF Filed, File!Init

\* A step of the program that no caller sees: nothing is served before or after.
LEMMA Unseen ==
  ASSUME Filed, UNCHANGED <<regs, operation, result>>, ~Served, ~Served', Running' = Running
  PROVE  Filed' /\ UNCHANGED File!vars
  <1>1. Value = <<>> /\ Value' = <<>>
    BY DEF Value
  <1>2. Served' = Served
    BY DEF Served
  <1>3. UNCHANGED <<regs, operation, Served, Value, result, Running>>
    BY <1>1, <1>2, Zenon
  <1>4. Filed'
    BY DEF Filed, AllRegisters
  <1> QED
    BY <1>3, <1>4, FileVars

\* ... or the end of the process.
LEMMA Ending ==
  ASSUME Filed, UNCHANGED <<regs, operation, result>>, ~Served, ~Served', Running, ~Running'
  PROVE  Filed' /\ File!Next
  <1>1. Value = <<>> /\ Value' = <<>>
    BY DEF Value
  <1>2. Served' = Served /\ Running' = FALSE
    BY DEF Served, Running
  <1>3. UNCHANGED Value
    BY <1>1
  <1>4. File!Die
    BY <1>2, <1>3, Zenon DEF File!Die, Value
  <1> QED
    BY <1>4 DEF Filed, File!Next, AllRegisters

\* Beginning an access is its invocation; opening and closing go unseen.
LEMMA AccessFiled ==
  ASSUME DInv, Filed, Access
  PROVE  Filed' /\ [File!Next]_(File!vars)
  <1>1. PICK h \in Handle :
          \/ \E a \in Addresses : Open(h, a)
          \/ Close(h) \/ ReadBytes(h) \/ ReadUint(h) \/ WriteBytes(h) \/ WriteUint(h)
    BY DEF Access
  <1>2. CASE Close(h) \/ \E a \in Addresses : Open(h, a)
    <2>1. Idle /\ UNCHANGED vars /\ UNCHANGED <<operation, phase, result, regs>>
      BY <1>2 DEF Open, Close
    <2>2. UNCHANGED <<op, status>> /\ phase = "select"
      BY <2>1, SameDriver, WhenIdle
    <2> QED
      BY <2>1, <2>2, Unseen DEF Served, Running
  <1>3. CASE ReadBytes(h) \/ ReadUint(h) \/ WriteBytes(h) \/ WriteUint(h)
    <2>1. PICK o \in AllOperations : Begin(h, o)
      BY <1>3, AccessBegins
    <2>2. /\ Idle /\ UNCHANGED vars /\ UNCHANGED <<result, regs>>
          /\ operation' = o /\ phase' \in {"select", "transfer"}
      BY <2>1 DEF Begin
    <2>3. UNCHANGED <<op, status>> /\ phase = "select" /\ operation = NoOperation /\ Running /\ Running'
      BY <2>2, SameDriver, WhenIdle DEF Running
    <2>4. ~Served /\ ~Served'
      BY <2>2, <2>3 DEF Served
    <2>5. Value = <<>> /\ Value' = <<>>
      BY <2>4 DEF Value
    <2>6. Served' = Served /\ Running' = Running
      BY <2>3, <2>4 DEF Served, Running
    <2>7. UNCHANGED Value
      BY <2>5
    <2>8. File!Invoke
      BY <2>2, <2>3, <2>6, <2>7, Zenon DEF File!Invoke, Value
    <2> QED
      BY <2>2, <2>4, <2>8 DEF File!Next, Filed, AllRegisters
  <1> QED
    BY <1>1, <1>2, <1>3

\* The calls of ehwe.c an access makes go unseen, or end the process.
LEMMA EnterFiled ==
  ASSUME DInv, Filed, Select \/ Transfer
  PROVE  Filed' /\ [File!Next]_(File!vars)
  <1>1. /\ op = NoOp /\ Running /\ UNCHANGED <<operation, result, regs>>
        /\ phase # "return" /\ operation # NoOperation
    BY DEF Select, Transfer
  <1>2. PICK o \in Requests : Enter(o)
    <2>1. operation \in AllOperations /\ (phase = "select" => Reading(operation))
      BY <1>1 DEF DInv, Phases
    <2>2. SelectOp(operation) \in Requests \/ ~Reading(operation)
      BY <2>1, CallsAssumption DEF CallsAssumption
    <2>3. (IF Reading(operation) THEN ReadAllOp(operation) ELSE WriteAllOp(operation)) \in Requests
      BY <2>1, CallsAssumption DEF CallsAssumption
    <2> QED
      BY <2>1, <2>2, <2>3 DEF Select, Transfer
  <1>3. ~Served
    BY <1>1 DEF Served
  <1>4. CASE o.addr < AddressLimit
    <2>1. op' = o /\ status' = status /\ o # NoOp
      BY <1>2, <1>4, RequestsAssumption, NoOpAssumption DEF Enter, RequestsAssumption, NoOpAssumption
    <2>2. ~Served' /\ Running' = Running
      BY <2>1 DEF Served, Running
    <2> QED
      BY <1>1, <1>3, <2>2, Unseen
  <1>5. CASE ~(o.addr < AddressLimit)
    <2>1. status' = "rejected"
      BY <1>2, <1>5 DEF Enter
    <2>2. ~Running'
      BY <2>1 DEF Running
    <2>3. ~Served'
      BY <2>2 DEF Served
    <2> QED
      BY <1>1, <1>3, <2>2, <2>3, Ending
  <1> QED
    BY <1>4, <1>5

\* The return of an access is its response.
LEMMA FinishFiled ==
  ASSUME DInv, Filed, Finish
  PROVE  Filed' /\ File!Next
  <1>1. /\ Running /\ op = NoOp /\ phase = "return" /\ phase' = "select" /\ operation' = NoOperation
        /\ UNCHANGED <<regs, status>>
        /\ result' = CASE operation.kind = "read_bytes" -> user[Local]
                       [] operation.kind = "read_uint"  -> <<Loaded(user[Local])>>
                       [] OTHER -> <<>>
    BY DEF Finish, ehweVars
  <1>2. Served /\ ~Served' /\ Running'
    BY <1>1 DEF Served, Running
  <1>3. operation \in AllOperations
    BY <1>1 DEF DInv, Phases
  <1>4. result' = IF operation.kind \in {"read_bytes", "read_uint"}
                    THEN IF operation.kind = "read_uint" THEN <<File!Number(Value)>> ELSE Value
                    ELSE <<>>
    <2>1. CASE operation.kind = "read_uint"
      <3>1. user[Local] \in Seq(Byte)
        BY DeviceAssumption, DataAssumption DEF DeviceAssumption, DataAssumption, DInv, IInv, TypeOK
      <3>2. Reading(operation) /\ Len(user[Local]) \in {1, 2, 4}
        BY <1>2, <1>3, <2>1, AccessFields DEF Filed, Reading
      <3>3. Loaded(user[Local]) = File!Number(user[Local])
        BY <3>1, <3>2, LoadedNumber
      <3>4. Value = user[Local]
        BY <1>2, <3>2 DEF Value
      <3> QED
        BY <1>1, <2>1, <3>3, <3>4
    <2>2. CASE operation.kind = "read_bytes"
      <3>1. Value = user[Local]
        BY <1>2, <2>2 DEF Value, Reading
      <3> QED
        BY <1>1, <2>2, <3>1
    <2>3. CASE operation.kind \notin {"read_bytes", "read_uint"}
      BY <1>1, <2>3
    <2> QED
      BY <2>1, <2>2, <2>3
  <1>5. Value' = <<>>
    BY <1>2 DEF Value
  <1>6. File!Respond
    BY <1>1, <1>2, <1>4, <1>5 DEF File!Respond, File!Answer, Value
  <1> QED
    BY <1>1, <1>2, <1>6 DEF File!Next, Filed, AllRegisters

\* A method below that returns within an access, or ends the process.
LEMMA BelowUnseen ==
  ASSUME DInv, Filed, Below, ~((Stop \/ StopFailed) /\ Carried(wire') /\ UNCHANGED deviceVars)
  PROVE  Filed' /\ [File!Next]_(File!vars)
  <1>1. /\ Running /\ UNCHANGED <<regs, operation, phase, result>>
        /\ Start \/ SendReadAddress \/ SendByte \/ SendData \/ WithoutBuffer \/ ReceiveData \/ StopRejected
    BY DEF Below, deviceVars, Start, SendReadAddress, SendByte, SendData, WithoutBuffer, NoBuffer,
           ReceiveData, StopRejected, Entered
  <1>2. op # NoOp
    BY <1>1 DEF Start, SendReadAddress, SendByte, SendData, WithoutBuffer, NoBuffer, ReceiveData,
                StopRejected, Entered, DInv, IInv, TypeOK
  <1>3. ~Served
    BY <1>2 DEF Served
  <1>4. CASE Running'
    <2>1. op' = op \/ (call \in {"sendByte", "sendData"} /\ op' = NoOp /\ AfterWrite = "none")
      <3>1. \A how : Abort(how) => op' = op
        BY DEF Abort
      <3>2. \A a : ReturnAck(a) => op' = op \/ Return
        BY DEF ReturnAck
      <3>3. Return => op' = op \/ (call \in {"sendByte", "sendData"} /\ op' = NoOp /\ AfterWrite = "none") \/ call = "stop"
        BY <1>2 DEF Return, NextMethod, DInv, IInv, TypeOK
      <3> QED
        BY <1>1, <3>1, <3>2, <3>3 DEF Start, SendReadAddress, SendByte, SendData, WithoutBuffer,
           NoBuffer, ReceiveData, StopRejected, Entered
    <2>2. op' = NoOp => phase # "return"
      <3>1. call \in {"sendByte", "sendData"} /\ op' = NoOp /\ AfterWrite = "none" => ~op.stop
        BY DEF AfterWrite
      <3>2. op.kind = "read" => call # "sendData"
        BY <1>2 DEF DInv, IInv, AfterAddress
      <3>3. op.kind = "read" /\ call = "sendByte" => op' = op
        BY <1>1, <1>2 DEF Start, SendReadAddress, SendByte, SendData, WithoutBuffer, NoBuffer,
             ReceiveData, StopRejected, Entered, ReturnAck, Return, NextMethod, Abort
      <3> QED
        BY <1>2, <2>1, <3>1, <3>2, <3>3, CallFields DEF DInv
    <2>3. ~Served'
      BY <1>1, <1>2, <2>1, <2>2 DEF Served
    <2> QED
      BY <1>1, <1>3, <1>4, <2>3, Unseen
  <1>5. CASE ~Running'
    <2>1. ~Served'
      BY <1>5 DEF Served
    <2> QED
      BY <1>1, <1>3, <1>5, <2>1, Ending
  <1> QED
    BY <1>4, <1>5

\* What is on the wire first of a transaction that has begun: a part of its
\* first message.
LEMMA BegunFirst ==
  ASSUME NEW t, NEW w \in Begun(t), w # <<>>, Len(t) \in {1, 2},
         NEW S, t[1].data \in Seq(S), t[1].len = Len(t[1].data)
  PROVE  \E n \in 0..t[1].len : w[1].addr = t[1].addr /\ w[1].data = SubSeq(t[1].data, 1, n)
  <1>1. t[1].len \in Nat /\ SubSeq(t[1].data, 1, t[1].len) = t[1].data
    BY WholeSubSeq
  <1>2. CASE w = t
    BY <1>1, <1>2
  <1>3. CASE w # t
    <2>1. PICK m \in 1..Len(t) : \E n \in 0..t[m].len : w = Cut(t, m, n)
      BY <1>3 DEF Begun
    <2>2. PICK n \in 0..t[m].len : w = Cut(t, m, n)
      BY <2>1
    <2>3. CASE m = 1
      <3>1. SubSeq(t, 1, 0) = <<>>
        OBVIOUS
      <3>2. w[1] = Message(t[1].flags, t[1].addr, SubSeq(t[1].data, 1, n))
        BY <2>2, <2>3, <3>1 DEF Cut
      <3> QED
        BY <2>2, <2>3, <3>2 DEF Message
    <2>4. CASE m = 2
      <3>1. w[1] = t[1]
        BY <2>2, <2>4 DEF Cut
      <3> QED
        BY <1>1, <3>1
    <2> QED
      BY <2>1, <2>3, <2>4
  <1> QED
    BY <1>2, <1>3

\* The first message of what is handed to the kernel.
LEMMA HandedFirst ==
  ASSUME NEW n \in {1, 2}, NEW t \in Transactions(n)
  PROVE  t[1] = Outgoing /\ Len(t) \in {1, 2} /\ t # <<>>
  <1>1. CASE n = 1
    <2>1. t = <<Outgoing>>
      BY <1>1 DEF Transactions
    <2> QED
      BY <2>1
  <1>2. CASE n = 2
    <2>1. PICK reply \in Replies : t = <<Outgoing, Incoming(reply)>>
      BY <1>2 DEF Transactions
    <2> QED
      BY <2>1
  <1> QED
    BY <1>1, <1>2

\* The first bytes of a sequence, its head apart.
LEMMA PartOfSeq ==
  ASSUME NEW S, NEW s \in Seq(S), s # <<>>, NEW n \in 1..Len(s)
  PROVE  /\ Head(SubSeq(s, 1, n)) = Head(s)
         /\ Tail(SubSeq(s, 1, n)) = SubSeq(Tail(s), 1, n - 1)
         /\ n - 1 \in 0..Len(Tail(s)) /\ SubSeq(Tail(s), 1, n - 1) \in Seq(S)
  <1> DEFINE p == SubSeq(s, 1, n)
             q == SubSeq(Tail(s), 1, n - 1)
  <1>1. n \in Nat /\ Len(s) \in Nat /\ n <= Len(s) /\ n >= 1
    OBVIOUS
  <1>2. p \in Seq(S) /\ Len(p) = n /\ \A i \in 1..n : p[i] = s[i]
    BY <1>1
  <1>3. Tail(s) \in Seq(S) /\ Len(Tail(s)) = Len(s) - 1
        /\ \A i \in 1..Len(s) - 1 : Tail(s)[i] = s[i + 1]
    BY <1>1
  <1>4. q \in Seq(S) /\ Len(q) = n - 1 /\ \A i \in 1..n - 1 : q[i] = Tail(s)[i]
    BY <1>1, <1>3
  <1>5. p # <<>> /\ Head(p) = s[1] /\ Head(s) = s[1]
    BY <1>1, <1>2
  <1>6. Tail(p) \in Seq(S) /\ Len(Tail(p)) = n - 1 /\ \A i \in 1..n - 1 : Tail(p)[i] = p[i + 1]
    BY <1>1, <1>2, <1>5
  <1> HIDE DEF p, q
  <1>7. \A i \in 1..n - 1 : Tail(p)[i] = q[i]
    BY <1>1, <1>2, <1>3, <1>4, <1>6
  <1>8. Tail(p) = q
    BY <1>4, <1>6, <1>7, SeqEqual
  <1> QED
    BY <1>1, <1>3, <1>4, <1>5, <1>8 DEF p, q

\* A sequence of one.
LEMMA TailOne == ASSUME NEW x PROVE Tail(<<x>>) = <<>> /\ Head(<<x>>) = x
  <1>1. <<x>> \in Seq({x}) /\ <<x>> # <<>> /\ Len(<<x>>) = 1 /\ <<x>>[1] = x
    OBVIOUS
  <1>2. Tail(<<x>>) \in Seq({x}) /\ Len(Tail(<<x>>)) = 0 /\ Head(<<x>>) = x
    BY <1>1, HeadTailProperties
  <1> QED
    BY <1>2, EmptySeq

\* What a device has stored of a write is what the register file stores, and a
\* write of no bytes changes nothing.
LEMMA FileWritten ==
  ASSUME Filed, NEW a \in Attached, NEW r, NEW S, NEW bytes \in Seq(S),
         regs' = [regs EXCEPT ![a] = Stores(regs[a], r, bytes)]
  PROVE  /\ regs' = [regs EXCEPT ![a] = File!Written(a, r, bytes)]
         /\ AllRegisters'
         /\ bytes = <<>> => regs' = regs
  <1>1. regs' = [regs EXCEPT ![a] = File!Written(a, r, bytes)]
    BY StoresWritten DEF Filed, AllRegisters
  <1>2. File!Written(a, r, bytes) = [x \in Registers |-> File!Written(a, r, bytes)[x]]
    BY DEF File!Written
  <1>3. bytes = <<>> => File!Written(a, r, bytes) = regs[a]
    BY DEF File!Written, Filed, AllRegisters
  <1>4. bytes = <<>> => regs' = regs
    BY <1>1, <1>3 DEF Filed, AllRegisters
  <1>5. AllRegisters'
    BY <1>1, <1>2 DEF Filed, AllRegisters
  <1> QED
    BY <1>1, <1>4, <1>5

\* stop is where an access takes effect.
LEMMA StopFiled ==
  ASSUME DInv, Filed, Stop, Carried(wire'), UNCHANGED deviceVars
  PROVE  Filed' /\ File!Next
  <1> DEFINE a == operation.addr
             r == operation.reg
             sent == mem[outbuf]
             bytes == Tail(sent)
  <1>1. /\ Entered("stop") /\ Running /\ op # NoOp /\ phase = "return" /\ operation \in AllOperations
        /\ outMsg.addr = a /\ outMsg.buf = outbuf
        /\ IF op.kind = "read"
             THEN /\ func = "receiveData" /\ Reading(operation) /\ sent = <<r>>
                  /\ inMsg.len = operation.count /\ inMsg.buf = Local
             ELSE /\ func = "sendData" /\ ~Reading(operation) /\ sent = <<r>> \o Payload(operation)
    BY AtStop DEF Stop, Entered
  <1>2. /\ op' = NoOp /\ status' = status /\ UNCHANGED <<operation, phase, result>>
        /\ nmsgs' = PacketCount /\ Ioctl(nmsgs')
    BY <1>1 DEF Stop, Entered, Return, NextMethod, deviceVars
  <1>3. ~Served /\ Served' /\ Running'
    BY <1>1, <1>2 DEF Served, Running
  <1>4. Head(sent) = r /\ sent # <<>>
    BY <1>1, FirstMessage
  <1>5. wire' # <<>> /\ wire'[1].addr = a /\ wire'[1].data = sent
    <2>1. nmsgs' \in {1, 2}
      BY <1>1, <1>2 DEF PacketCount, SendState, ReceiveState
    <2>2. wire' # <<>> /\ wire'[1] = Outgoing
      BY <1>2, <2>1, HandedFirst DEF Ioctl
    <2> QED
      BY <1>1, <2>2, FirstMessage
  <1>6. a \in Attached /\ regs' = [regs EXCEPT ![a] = Stores(regs[a], r, bytes)]
    BY <1>4, <1>5 DEF Carried
  <1>7. \E S : bytes \in Seq(S)
    <2>1. CASE op.kind = "read"
      <3>1. bytes = <<>>
        BY <1>1, <2>1, TailOne
      <3>2. <<>> \in Seq(Byte)
        OBVIOUS
      <3> QED
        BY <3>1, <3>2
    <2>2. CASE op.kind # "read"
      BY <1>1, <2>2, RegisterFirst, PayloadSeq
    <2> QED
      BY <2>1, <2>2
  <1> HIDE DEF sent, bytes
  <1>9. /\ regs' = [regs EXCEPT ![a] = File!Written(a, r, bytes)]
        /\ bytes = <<>> => regs' = regs
    <2> HIDE DEF a, r
    <2> QED
      BY <1>6, <1>7, FileWritten
  <1>10. AllRegisters'
    BY <1>6, <1>7, FileWritten
  <1>11. CASE op.kind = "read"
    <2>1. bytes = <<>>
      BY <1>1, <1>11, TailOne DEF bytes, sent
    <2>3. regs' = regs
      BY <1>9, <2>1
    <2>4. nmsgs' = 2
      BY <1>1, <1>2, <1>11 DEF PacketCount, SendState, ReceiveState
    <2>5. PICK reply \in Data :
            /\ Len(reply) = inMsg.len
            /\ wire' = <<Outgoing, Incoming(reply)>> /\ wire'[2].data = reply
            /\ user' = [user EXCEPT ![inMsg.buf] = reply]
      BY <1>2, <2>4, ReadPart DEF Ioctl
    <2>6. user'[Local] = reply /\ Len(reply) = operation.count /\ reply \in Seq(Byte)
      BY <1>1, <1>11, <2>5, DeviceAssumption, DataAssumption
         DEF DeviceAssumption, DataAssumption, DInv, IInv, TypeOK
    <2>7. \A i \in 1..operation.count : reply[i] = regs[a][RegisterAt(r, i)]
      <3>1. Len(wire') = 2 /\ wire'[2].len = operation.count /\ wire'[2].data = reply
        BY <1>1, <1>11, <2>5 DEF Incoming, Message
      <3> QED
        BY <1>4, <1>5, <2>3, <3>1 DEF Carried
    <2>8. reply = File!Read(a, r, operation.count)
      <3>1. reply = [i \in 1..operation.count |-> reply[i]]
        BY <2>6
      <3>2. File!Read(a, r, operation.count) = [i \in 1..operation.count |-> regs[a][RegisterAt(r, i)]]
        BY DEF File!Read, File!Register, RegisterAt
      <3> HIDE DEF a, r
      <3> QED
        BY <2>7, <3>1, <3>2
    <2>9. Reading(operation) /\ operation.kind \in {"read_bytes", "read_uint"}
      BY <1>1, <1>11 DEF Reading
    <2>10. Value' = reply
      BY <1>2, <1>3, <2>6, <2>9 DEF Value, Reading
    <2>11. File!Effect
      BY <1>1, <1>2, <1>3, <2>3, <2>8, <2>9, <2>10, AccessFields DEF File!Effect, Value
    <2> QED
      BY <1>2, <1>3, <1>10, <2>6, <2>9, <2>11 DEF Filed, File!Next
  <1>12. CASE op.kind # "read"
    <2>1. bytes = Payload(operation) /\ ~Reading(operation)
      BY <1>1, <1>12, RegisterFirst DEF bytes, sent
    <2>2. Payload(operation) = File!Payload(operation)
      BY <1>1, <2>1, AccessFields DEF Payload, File!Payload, Stored, File!Bytes, Reading
    <2>3. Value = <<>> /\ Value' = <<>> /\ operation.kind \notin {"read_bytes", "read_uint"}
      BY <1>2, <2>1 DEF Value, Reading
    <2>4. File!Effect
      BY <1>1, <1>2, <1>3, <1>9, <2>1, <2>2, <2>3, AccessFields DEF File!Effect, Value
    <2> QED
      BY <1>2, <1>10, <2>1, <2>4 DEF Filed, File!Next, Reading
  <1> QED
    BY <1>11, <1>12

\* A transaction that fails has stored the first bytes of a write, or none.
LEMMA StopFailedFiled ==
  ASSUME DInv, Filed, StopFailed, Carried(wire'), UNCHANGED deviceVars
  PROVE  Filed' /\ File!Next
  <1> DEFINE a == operation.addr
             r == operation.reg
             sent == mem[outbuf]
  <1>1. /\ Entered("stop") /\ Running /\ op # NoOp /\ op' = op /\ ~Running'
        /\ UNCHANGED <<operation, phase, result, user>> /\ operation \in AllOperations
        /\ PacketCount \in {1, 2}
    BY AtStop DEF StopFailed, Entered, Running, deviceVars, PacketCount, SendState, ReceiveState
  <1>2. ~Served /\ ~Served' /\ Value = <<>> /\ Value' = <<>>
    BY <1>1 DEF Served, Value
  <1>3. Served' = Served /\ Running' = FALSE
    BY <1>1, <1>2 DEF Served, Running
  <1>4. UNCHANGED Value
    BY <1>2
  <1>5. Outgoing.addr = a /\ Outgoing.data = sent /\ Outgoing.len = Len(sent)
        /\ Head(sent) = r /\ sent # <<>>
    BY <1>1, FirstMessage
  <1>6. PICK S : sent \in Seq(S)
    BY <1>1, FirstMessage
  <1>7. CASE regs' = regs
    <2>1. File!Die
      BY <1>1, <1>3, <1>4, <1>7, Zenon DEF File!Die, Value
    <2> QED
      BY <1>2, <1>7, <2>1 DEF Filed, File!Next, AllRegisters
  <1>8. CASE regs' # regs
    <2>1. PICK t \in Transactions(PacketCount) : wire' \in Begun(t)
      BY DEF StopFailed
    <2>2. wire' # <<>> /\ wire'[1].data # <<>>
      BY <1>8 DEF Carried
    <2>3. PICK n \in 0..Len(sent) : wire'[1].addr = a /\ wire'[1].data = SubSeq(sent, 1, n)
      <3>1. t[1] = Outgoing /\ Len(t) \in {1, 2}
        BY <1>1, <2>1, HandedFirst
      <3>2. t[1].data \in Seq(S) /\ t[1].len = Len(t[1].data)
        BY <1>5, <1>6, <3>1
      <3> HIDE DEF sent, a
      <3>3. \E n \in 0..t[1].len : wire'[1].addr = t[1].addr /\ wire'[1].data = SubSeq(t[1].data, 1, n)
        BY <2>1, <2>2, <3>1, <3>2, BegunFirst
      <3> QED
        BY <1>5, <3>1, <3>3
    <2> DEFINE bytes == SubSeq(Tail(sent), 1, n - 1)
    <2>4. /\ Head(SubSeq(sent, 1, n)) = r /\ Tail(SubSeq(sent, 1, n)) = bytes
          /\ n - 1 \in 0..Len(Tail(sent)) /\ bytes \in Seq(S)
      <3>1. n # 0
        BY <2>2, <2>3
      <3> HIDE DEF sent
      <3> QED
        BY <1>5, <1>6, <3>1, PartOfSeq
    <2>5. a \in Attached /\ regs' = [regs EXCEPT ![a] = Stores(regs[a], r, bytes)]
      BY <2>2, <2>3, <2>4 DEF Carried
    <2> HIDE DEF sent, bytes
    <2>6. /\ regs' = [regs EXCEPT ![a] = File!Written(a, r, bytes)]
          /\ bytes = <<>> => regs' = regs
      <3>1. bytes \in Seq(S)
        BY <2>4
      <3> HIDE DEF a, r
      <3> QED
        BY ONLY Filed, <2>5, <3>1, FileWritten
    <2>7. AllRegisters'
      BY <2>4, <2>5, FileWritten
    <2>8. ~Reading(operation) /\ Tail(sent) = File!Payload(operation)
      <3>1. CASE op.kind = "read"
        <4>1. Tail(sent) = <<>>
          BY <1>1, <3>1, AtStop, TailOne DEF sent
        <4>2. bytes = <<>>
          BY <2>4, <4>1 DEF bytes
        <4> QED
          BY <1>8, <2>6, <4>2
      <3>2. CASE op.kind # "read"
        <4>1. ~Reading(operation) /\ sent = <<r>> \o Payload(operation)
          BY <1>1, <3>2, AtStop DEF sent
        <4>2. Tail(sent) = Payload(operation)
          BY <1>1, <4>1, RegisterFirst DEF sent
        <4>3. Payload(operation) = File!Payload(operation)
          BY <1>1, <4>1, AccessFields DEF Payload, File!Payload, Stored, File!Bytes, Reading
        <4> QED
          BY <4>1, <4>2, <4>3
      <3> QED
        BY <3>1, <3>2
    <2>9. operation # NoOperation /\ operation.kind \in {"write_bytes", "write_uint"}
      BY <1>1, <2>8, AccessFields DEF Reading
    <2>10. \E k \in 0..Len(File!Payload(operation)) :
             regs' = [regs EXCEPT ![a] =
                        File!Written(a, r, SubSeq(File!Payload(operation), 1, k))]
      <3>1. n - 1 \in 0..Len(File!Payload(operation)) /\ bytes = SubSeq(File!Payload(operation), 1, n - 1)
        BY <2>4, <2>8 DEF bytes
      <3> QED
        BY <2>6, <3>1
    <2>11. File!Die
      BY <1>1, <1>2, <1>3, <1>4, <2>9, <2>10, Zenon DEF File!Die, Value
    <2> QED
      BY <1>2, <2>7, <2>11 DEF Filed, File!Next
  <1> QED
    BY <1>7, <1>8

\* Every step is one of the register file, or unseen.
LEMMA NextFiled ==
  ASSUME DInv, Filed, [DeviceNext]_allVars
  PROVE  Filed' /\ [File!Next]_(File!vars)
  <1>1. CASE Below
    <2>1. CASE Stop /\ Carried(wire') /\ UNCHANGED deviceVars
      BY <2>1, StopFiled
    <2>2. CASE StopFailed /\ Carried(wire') /\ UNCHANGED deviceVars
      BY <2>2, StopFailedFiled
    <2>3. CASE ~((Stop \/ StopFailed) /\ Carried(wire') /\ UNCHANGED deviceVars)
      BY <1>1, <2>3, BelowUnseen
    <2> QED
      BY <2>1, <2>2, <2>3
  <1>2. CASE UNCHANGED allVars
    <2>1. UNCHANGED <<regs, operation, phase, result, op, status, user>>
      BY <1>2 DEF allVars, deviceVars, vars, ehweVars
    <2>2. UNCHANGED <<Served, Value, Running>>
      BY <2>1 DEF Served, Value, Running, Reading
    <2> QED
      BY <2>1, <2>2, FileVars DEF Filed, AllRegisters, Reading
  <1> QED
    BY <1>1, <1>2, AccessFiled, EnterFiled, FinishFiled DEF DeviceNext

\* ehwe_i2c_device.c on ehwe.c on the i2c-dev driver: the register accesses are
\* those of a register file, each of them carried out in one step or not at all.
THEOREM ImplementsRegisters == DeviceSpec => ImplementsFile
  <1>1. DeviceInit => Filed /\ File!Init
    BY InitFiled
  <1>2. DInv /\ Filed /\ [DeviceNext]_allVars => Filed' /\ [File!Next]_(File!vars)
    BY NextFiled
  <1> QED
    BY <1>1, <1>2, DeviceInvariance, PTL DEF DeviceSpec, ImplementsFile, File!Spec
=============================================================================
