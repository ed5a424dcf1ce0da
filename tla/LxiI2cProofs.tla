---------------------------- MODULE LxiI2cProofs ----------------------------
(***************************************************************************)
(* TLAPS proofs about LxiI2c, for every set of requests, byte strings,     *)
(* buffers and heap addresses: type correctness, the ownership of the heap *)
(* block, the memory handed to the kernel; and what a caller sees: which   *)
(* calls are rejected, which are carried out, and that the driver          *)
(* implements I2CBus.                                                      *)
(***************************************************************************)
EXTENDS LxiI2c, TLAPS

\* A call in progress is one of the two kinds, with fields of their types.
LEMMA OpKinds ==
  ASSUME op \in Requests \cup {NoOp}, op # NoOp
  PROVE  op \in WriteOp \cup ReadOp
  BY RequestsAssumption DEF RequestsAssumption

\* The address byte of ehwe.c survives its conversion back by RW_ADDR, and
\* its low bit tells a read from a write.
LEMMA AddressBytes ==
  ASSUME NEW a \in Byte, a < AddressLimit
  PROVE  /\ WRITE_ADDR(a) \in Byte /\ READ_ADDR(a) \in Byte
         /\ RW_ADDR(WRITE_ADDR(a)) = a /\ RW_ADDR(READ_ADDR(a)) = a
         /\ WRITE_ADDR(a) % 2 = 0 /\ READ_ADDR(a) % 2 = 1
  <1> USE DEF AddressLimit, Byte
  <1>0. \A x \in Byte : x % 256 = x
    OBVIOUS
  <1>1. WRITE_ADDR(a) = 2 * a /\ READ_ADDR(a) = 2 * a + 1
    <2>1. 2 * a \in Byte /\ 2 * a + 1 \in Byte
      OBVIOUS
    <2> QED
      BY <1>0, <2>1 DEF WRITE_ADDR, READ_ADDR
  <1>2. (2 * a) \div 2 = a /\ (2 * a + 1) \div 2 = a
    OBVIOUS
  <1>3. (2 * a) % 2 = 0 /\ (2 * a + 1) % 2 = 1
    OBVIOUS
  <1> QED
    BY <1>1, <1>2, <1>3 DEF RW_ADDR

\* A length cut to 16 bits is one, and unchanged if it fits.
LEMMA CutLength ==
  ASSUME NEW n \in Nat
  PROVE  n % U16 \in 0..U16 - 1 /\ n % U16 <= n /\ (n < U16 => n % U16 = n)
  <1> DEFINE m == U16
  <1>1. m \in Nat /\ m > 1
    BY LengthAssumption DEF LengthAssumption
  <1> HIDE DEF m
  <1>2. n % m \in 0..m - 1
    BY <1>1
  <1>3. n < m => n % m = n
    BY <1>1
  <1>4. n % m <= n
    <2>1. CASE n < m
      BY <1>3, <2>1
    <2>2. CASE n >= m
      BY <1>1, <1>2, <2>2
    <2> QED
      BY <1>1, <2>1, <2>2
  <1> QED
    BY <1>2, <1>3, <1>4 DEF m

\* Replacing outbuf leaves exactly one allocated block, with the given bytes.
LEMMA ReplaceOutbuf ==
  ASSUME TypeOK, HeapOwned, NEW bytes \in Seq(Byte), Replace(bytes)
  PROVE  /\ outbuf' \in Block /\ mem' \in [Block -> Content]
         /\ mem'[outbuf'] = bytes
         /\ HeapOwned'
  <1> USE PointerAssumption DEF PointerAssumption, TypeOK, HeapOwned, Content
  <1>1. PICK p \in Block : /\ Release(outbuf)[p] = Freed
                           /\ outbuf' = p
                           /\ mem' = [Release(outbuf) EXCEPT ![p] = bytes]
    BY DEF Replace
  <1>2. Release(outbuf) \in [Block -> Content]
    BY DEF Release
  <1>3. \A q \in Block : Release(outbuf)[q] = Freed
    BY DEF Release
  <1> QED
    BY <1>1, <1>2, <1>3

LEMMA InitIInv == Init => IInv
  <1> SUFFICES ASSUME Init PROVE IInv
    OBVIOUS
  <1> USE DEF Init, EhweInit
  <1>1. TypeOK
    <2>1. outMsg \in Msg /\ inMsg \in Msg
      BY LengthAssumption DEF LengthAssumption, Configured, ClearMsg, Msg, NO_ADDR, Byte, I2C_M_RD
    <2>2. mem \in [Block -> Content]
      BY DEF Content
    <2> QED
      BY <2>1, <2>2 DEF TypeOK, FuncState
  <1>2. HeapOwned
    BY PointerAssumption DEF PointerAssumption, HeapOwned
  <1>3. OutMsgOfOutbuf
    BY DEF OutMsgOfOutbuf, Configured, ClearMsg
  <1> QED
    BY <1>1, <1>2, <1>3 DEF IInv, AddressAsserted, BetweenCalls, AfterStart,
       AfterAddress, BeforeReceive, BeforeStop

(* One lemma for each action: it preserves the invariant. *)

\* A step that ends the process changes nothing but the status.
LEMMA EndStep ==
  ASSUME IInv, status' \in {"rejected", "failed"}, nmsgs' \in 0..2,
         UNCHANGED <<op, call, func, outMsg, inMsg, outbuf, inbuf, mem, user>>
  PROVE  IInv'
  <1>1. /\ UNCHANGED <<op, call, func, outMsg, inMsg, outbuf, inbuf, mem, user>>
        /\ status' \in {"rejected", "failed"}
    OBVIOUS
  <1> USE DEF IInv
  <1>2. TypeOK'
    BY <1>1 DEF TypeOK
  <1>3. HeapOwned'
    BY <1>1 DEF HeapOwned
  <1>4. OutMsgOfOutbuf'
    BY <1>1 DEF OutMsgOfOutbuf
  <1>5. AfterAddress'
    BY <1>1 DEF AfterAddress, AddressByte
  <1>6. BeforeStop' /\ BeforeReceive'
    BY <1>1 DEF BeforeStop, BeforeReceive, ReadAddressed
  <1> QED
    BY <1>1, <1>2, <1>3, <1>4, <1>5, <1>6 DEF AddressAsserted, BetweenCalls, AfterStart

LEMMA AbortStep ==
  ASSUME IInv, NEW how \in {"rejected", "failed"}, Abort(how)
  PROVE  IInv'
  <1>1. nmsgs' \in 0..2
    BY DEF Abort, driverVars, IInv, TypeOK
  <1> QED
    BY <1>1, EndStep DEF Abort, driverVars

LEMMA CallStep == ASSUME IInv, Call PROVE IInv'
  <1>1. PICK o \in Requests : Enter(o) /\ UNCHANGED <<driverVars, user, wire>>
    BY DEF Call
  <1>2. UNCHANGED <<func, outMsg, inMsg, outbuf, inbuf, nmsgs, mem, user>>
    BY <1>1 DEF driverVars
  <1>3. o # NoOp
    BY RequestsAssumption, NoOpAssumption DEF RequestsAssumption, NoOpAssumption
  <1>4. CASE o.addr < AddressLimit
    <2>1. op = NoOp /\ op' = o /\ call' = "start" /\ UNCHANGED status
      BY <1>1, <1>4 DEF Enter
    <2>2. call = "none"
      BY <2>1 DEF IInv, TypeOK
    <2>3. TypeOK'
      BY <1>2, <1>3, <2>1 DEF IInv, TypeOK
    <2>4. HeapOwned' /\ OutMsgOfOutbuf'
      BY <1>2 DEF IInv, HeapOwned, OutMsgOfOutbuf
    <2>5. BetweenCalls'
      BY <1>2, <2>1, <2>2 DEF IInv, BetweenCalls
    <2> QED
      BY <1>4, <2>1, <2>3, <2>4, <2>5
         DEF IInv, AddressAsserted, AfterStart, AfterAddress, BeforeReceive, BeforeStop
  <1>5. CASE ~(o.addr < AddressLimit)
    <2>1. Abort("rejected")
      BY <1>1, <1>5 DEF Enter, Abort
    <2> QED
      BY <2>1, AbortStep
  <1> QED
    BY <1>4, <1>5

LEMMA StartStep == ASSUME IInv, Start PROVE IInv'
  <1> USE DEF IInv
  <1>1. /\ call = "start" /\ call' = "sendByte" /\ op' = op /\ UNCHANGED status
        /\ UNCHANGED <<outMsg, outbuf, inbuf, nmsgs, mem, user>>
        /\ func' = "start"
    BY DEF Start, Entered, Return, NextMethod
  <1>2. inMsg' = IF func \in SendState THEN [inMsg EXCEPT !.addr = outMsg.addr] ELSE inMsg
    BY DEF Start
  <1>3. inMsg' \in Msg
    BY <1>2 DEF TypeOK, Msg
  <1>4. TypeOK'
    BY <1>1, <1>3 DEF TypeOK, FuncState
  <1>5. HeapOwned' /\ OutMsgOfOutbuf'
    BY <1>1 DEF HeapOwned, OutMsgOfOutbuf
  <1>6. outMsg.addr # NO_ADDR => inMsg'.addr = outMsg.addr
    BY <1>1, <1>2 DEF BetweenCalls, OutMsgOfOutbuf, SendState, TypeOK, Msg
  <1> QED
    BY <1>1, <1>4, <1>5, <1>6
       DEF AddressAsserted, BetweenCalls, AfterStart, AfterAddress, BeforeReceive, BeforeStop

\* The fields of the call in progress.
LEMMA OpFields ==
  ASSUME IInv, op # NoOp
  PROVE  /\ op.kind \in {"write", "read"} /\ op.addr \in 0..127
         /\ op.kind = "write" => op.data \in Seq(Byte)
         /\ op.kind = "read" => op.len \in Nat /\ op.buf \in UserBuf
         /\ AddressByte \in Byte
         /\ op.kind = "write" => AddressByte % 2 = 0
         /\ op.kind = "read" => AddressByte % 2 = 1
         /\ RW_ADDR(AddressByte) = op.addr
  <1>1. op \in WriteOp \cup ReadOp
    BY OpKinds DEF IInv, TypeOK
  <1>2. op.kind \in {"write", "read"} /\ op.addr \in Byte /\ op.addr < AddressLimit
    BY <1>1 DEF WriteOp, ReadOp, IInv, AddressAsserted
  <1>3. op.kind = "write" => op.data \in Seq(Byte)
    BY <1>1, DataAssumption DEF WriteOp, ReadOp, DataAssumption
  <1>4. op.kind = "read" => op.len \in Nat /\ op.buf \in UserBuf
    BY <1>1 DEF WriteOp, ReadOp
  <1>5. op.addr \in 0..127
    BY <1>2 DEF Byte, AddressLimit
  <1> QED
    BY <1>2, <1>3, <1>4, <1>5, AddressBytes DEF AddressByte

LEMMA SendReadAddressStep == ASSUME IInv, SendReadAddress PROVE IInv'
  <1>1. CASE ~ReadAddressOk(AddressByte)
    BY <1>1, AbortStep DEF SendReadAddress
  <1>2. CASE ReadAddressOk(AddressByte)
    <2> USE DEF IInv
    <2>1. /\ call = "sendByte" /\ op' = IF call' = "none" THEN NoOp ELSE op
          /\ call' = NextMethod /\ UNCHANGED status
          /\ UNCHANGED <<outMsg, inMsg, outbuf, inbuf, nmsgs, mem, user>>
          /\ func' = "sendByte" /\ outMsg.addr # NO_ADDR
      BY <1>2 DEF SendReadAddress, Entered, ReturnAck, Return, IsReadAddress
    <2>2. op # NoOp
      BY <2>1 DEF TypeOK
    <2>3. op.kind = "read" /\ outMsg.addr = op.addr
      BY <1>2, <2>2, OpFields DEF ReadAddressOk
    <2>4. call' = "receiveData" /\ op' = op
      BY <2>1, <2>3 DEF NextMethod
    <2>5. inMsg.addr = outMsg.addr
      BY <2>1 DEF AfterStart
    <2>6. TypeOK'
      BY <2>1, <2>2, <2>4 DEF TypeOK, FuncState
    <2>7. HeapOwned' /\ OutMsgOfOutbuf'
      BY <2>1 DEF HeapOwned, OutMsgOfOutbuf
    <2>8. BeforeReceive'
      BY <2>1, <2>3, <2>4, <2>5 DEF BeforeReceive, ReadAddressed
    <2> QED
      BY <2>1, <2>4, <2>6, <2>7, <2>8
         DEF AddressAsserted, BetweenCalls, AfterStart, AfterAddress, BeforeStop
  <1> QED
    BY <1>1, <1>2

LEMMA SendByteStep == ASSUME IInv, SendByte PROVE IInv'
  <1>1. CASE func = "sendByte" /\ outbuf = NULL
    BY <1>1, AbortStep DEF SendByte
  <1>2. CASE ~(func = "sendByte" /\ outbuf = NULL)
    <2> USE DEF IInv
    <2>1. /\ call = "sendByte" /\ func = "start"
          /\ call' = NextMethod /\ op' = IF call' = "none" THEN NoOp ELSE op
          /\ UNCHANGED <<status, inMsg, inbuf, nmsgs, user>>
          /\ func' = "sendByte" /\ outMsg.addr = NO_ADDR
      BY <1>2 DEF SendByte, Entered, ReturnAck, Return, IsReadAddress, AfterStart
    <2>2. op # NoOp
      BY <2>1 DEF TypeOK
    <2>3. <<AddressByte>> \in Seq(Byte)
      BY <2>2, OpFields
    <2>4. /\ outbuf' \in Block /\ mem' \in [Block -> Content]
          /\ mem'[outbuf'] = <<AddressByte>> /\ HeapOwned'
      BY <1>2, <2>3, ReplaceOutbuf DEF SendByte
    <2>5. outMsg' = [addr |-> NO_ADDR, flags |-> 0, len |-> 1, buf |-> outbuf'] /\ 1 % U16 = 1
      <3>1. Len(<<AddressByte>>) = 1 /\ 1 % U16 = 1
        BY LengthAssumption, CutLength DEF LengthAssumption
      <3> QED
        BY <1>2, <2>1, <3>1 DEF SendByte, SetOutMsg, OutAddr
    <2>6. outMsg' \in Msg
      BY <2>4, <2>5, LengthAssumption DEF LengthAssumption, Msg, NO_ADDR, Byte
    <2>7. outbuf' # NULL
      BY <2>4, PointerAssumption DEF PointerAssumption
    <2>8. OutMsgOfOutbuf'
      BY <2>4, <2>5, <2>7 DEF OutMsgOfOutbuf
    <2>9. \/ op.kind = "read" /\ call' = "receiveData" /\ op' = op
          \/ op.kind = "write" /\ op.data # <<>> /\ call' = "sendData" /\ op' = op
          \/ op.kind = "write" /\ op.data = <<>> /\ op.stop /\ call' = "stop" /\ op' = op
          \/ op.kind = "write" /\ op.data = <<>> /\ call' = "none" /\ op' = NoOp
      <3>1. op.kind = "write" => (Len(op.data) > 0 <=> op.data # <<>>)
        BY <2>2, OpFields
      <3> QED
        BY <2>1, <2>2, <3>1, OpFields DEF NextMethod, AfterWrite
    <2>10. TypeOK'
      BY <2>1, <2>2, <2>4, <2>6, <2>9 DEF TypeOK, FuncState
    <2>11. AddressAsserted' /\ BetweenCalls' /\ AfterStart'
      BY <2>1, <2>5, <2>7, <2>9 DEF AddressAsserted, BetweenCalls, AfterStart
    <2>12. AfterAddress'
      BY <2>1, <2>4, <2>5, <2>7, <2>9 DEF AfterAddress, AddressByte
    <2>13. BeforeReceive' /\ BeforeStop'
      BY <2>1, <2>5, <2>9 DEF BeforeReceive, BeforeStop, ReadAddressed
    <2> QED
      BY <2>4, <2>8, <2>10, <2>11, <2>12, <2>13
  <1> QED
    BY <1>1, <1>2

LEMMA SendDataStep == ASSUME IInv, SendData PROVE IInv'
  <1> USE DEF IInv
  <1>1. call = "sendData" /\ op # NoOp
    BY DEF SendData, Entered, TypeOK
  <1>2. /\ op.kind = "write" /\ op.data # <<>> /\ op.data \in Seq(Byte)
        /\ func = "sendByte" /\ outbuf # NULL /\ mem[outbuf] = <<AddressByte>>
    BY <1>1, OpFields DEF AfterAddress
  <1>3. /\ call' = AfterWrite /\ op' = IF call' = "none" THEN NoOp ELSE op
        /\ UNCHANGED <<status, inMsg, inbuf, nmsgs, user>>
        /\ func' = "sendData"
    BY <1>1, <1>2 DEF SendData, Return, NextMethod
  <1>4. /\ outbuf' \in Block /\ mem' \in [Block -> Content]
        /\ mem'[outbuf'] = op.data /\ HeapOwned'
    BY <1>2, ReplaceOutbuf DEF SendData
  <1>5. OutAddr = op.addr
    <2>1. mem[outbuf][1] = AddressByte
      BY <1>2
    <2> QED
      BY <1>1, <1>2, <2>1, OpFields DEF OutAddr, AddrInOutbuf
  <1>6. outMsg' = [addr |-> op.addr, flags |-> 0, len |-> Len(op.data) % U16, buf |-> outbuf']
    BY <1>2, <1>5 DEF SendData, SetOutMsg
  <1>7. outMsg' \in Msg /\ outMsg'.addr \in 0..127 /\ outMsg'.addr # NO_ADDR
    <2>1. op.addr \in 0..127 /\ op.addr \in Byte /\ Len(op.data) % U16 \in 0..U16 - 1
      <3>1. op.addr \in 0..127 /\ op.addr \in Byte /\ Len(op.data) \in Nat
        BY <1>1, <1>2, OpFields DEF Byte
      <3> QED
        BY <3>1, CutLength
    <2>2. outMsg' \in Msg
      BY <1>4, <1>6, <2>1 DEF Msg
    <2>3. outMsg'.addr = op.addr
      BY <1>6
    <2>4. op.addr # NO_ADDR
      <3>1. op.addr \in 0..127
        BY <2>1
      <3> QED
        BY <3>1 DEF NO_ADDR
    <2> QED
      BY <2>1, <2>2, <2>3, <2>4
  <1>8. outbuf' # NULL
    BY <1>4, PointerAssumption DEF PointerAssumption
  <1>9. OutMsgOfOutbuf'
    BY <1>4, <1>6, <1>7, <1>8 DEF OutMsgOfOutbuf
  <1>10. \/ op.stop /\ call' = "stop" /\ op' = op
         \/ call' = "none" /\ op' = NoOp
    BY <1>3 DEF AfterWrite
  <1>11. TypeOK'
    BY <1>1, <1>3, <1>4, <1>7, <1>10 DEF TypeOK, FuncState
  <1>12. AddressAsserted' /\ BetweenCalls' /\ AfterStart' /\ AfterAddress' /\ BeforeReceive'
    BY <1>3, <1>7, <1>10
       DEF AddressAsserted, BetweenCalls, AfterStart, AfterAddress, BeforeReceive
  <1>13. BeforeStop'
    <2>1. op.given
      BY DEF SendData
    <2> QED
      BY <1>2, <1>3, <1>4, <1>6, <1>10, <2>1 DEF BeforeStop
  <1> QED
    BY <1>4, <1>9, <1>11, <1>12, <1>13

LEMMA ReceiveDataStep == ASSUME IInv, ReceiveData PROVE IInv'
  <1>1. CASE op.buf = NULL \/ func # "sendByte"
    BY <1>1, AbortStep DEF ReceiveData
  <1>2. CASE ~(op.buf = NULL \/ func # "sendByte")
    <2> USE DEF IInv
    <2>1. /\ call = "receiveData" /\ op # NoOp /\ call' = "stop" /\ op' = op
          /\ inbuf' = op.buf
          /\ inMsg' = [inMsg EXCEPT !.flags = I2C_M_RD, !.len = op.len % U16, !.buf = op.buf]
          /\ UNCHANGED <<status, outMsg, outbuf, nmsgs, mem, user>>
          /\ func' = "receiveData"
      BY <1>2 DEF ReceiveData, Entered, Return, NextMethod, TypeOK
    <2>2. op.kind = "read" /\ op.len \in Nat /\ op.buf \in UserBuf /\ ReadAddressed
      BY <2>1, OpFields DEF BeforeReceive
    <2>3. inMsg' \in Msg
      <3>1. op.len % U16 \in 0..U16 - 1
        BY <2>2, CutLength
      <3> QED
        BY <2>1, <2>2, <3>1 DEF TypeOK, Msg
    <2>4. TypeOK'
      BY <2>1, <2>2, <2>3 DEF TypeOK, FuncState
    <2>5. HeapOwned' /\ OutMsgOfOutbuf'
      BY <2>1 DEF HeapOwned, OutMsgOfOutbuf
    <2>6. /\ inMsg'.addr = inMsg.addr /\ inMsg'.flags = I2C_M_RD
          /\ inMsg'.len = op.len % U16 /\ inMsg'.buf = op.buf
      BY <2>1 DEF TypeOK, Msg
    <2>7. BeforeStop'
      BY <2>1, <2>2, <2>6 DEF BeforeStop, ReadAddressed
    <2> QED
      BY <2>1, <2>4, <2>5, <2>7
         DEF AddressAsserted, BetweenCalls, AfterStart, AfterAddress, BeforeReceive
  <1> QED
    BY <1>1, <1>2

\* When stop passes its address checks there is a message to send.
LEMMA StopReady ==
  ASSUME IInv, Entered("stop"), AddressesOk
  PROVE  /\ call = "stop" /\ op # NoOp
         /\ outMsg.addr = op.addr /\ outMsg.addr # NO_ADDR
         /\ outbuf \in Block /\ outMsg.buf = outbuf /\ mem[outbuf] # Freed
         /\ outMsg.flags = 0 /\ outMsg.len = Len(mem[outbuf]) % U16
         /\ mem[outbuf] \in Seq(Byte)
         /\ \/ /\ op.kind = "write" /\ op.stop /\ func = "sendData"
               /\ mem[outbuf] = op.data /\ PacketCount = 1
            \/ /\ op.kind = "read" /\ func = "receiveData" /\ PacketCount = 2
               /\ inMsg.addr = op.addr /\ inMsg.flags = I2C_M_RD
               /\ inMsg.len = op.len % U16 /\ inMsg.buf = op.buf
  <1> USE DEF IInv
  <1>1. call = "stop" /\ op # NoOp
    BY DEF Entered, TypeOK
  <1>2. outMsg.addr < 128
    BY <1>1 DEF AddressesOk, BeforeStop, SendState, ReceiveState
  <1>3. outMsg.addr # NO_ADDR
    BY <1>2 DEF NO_ADDR
  <1>4. /\ outbuf \in Block /\ outMsg.buf = outbuf /\ outMsg.flags = 0
        /\ outMsg.len = Len(mem[outbuf]) % U16
    BY <1>3 DEF OutMsgOfOutbuf, TypeOK
  <1>5. mem[outbuf] # Freed /\ mem[outbuf] \in Seq(Byte)
    BY <1>4 DEF HeapOwned, TypeOK, Content
  <1> QED
    BY <1>1, <1>3, <1>4, <1>5 DEF BeforeStop, ReadAddressed, PacketCount, SendState, ReceiveState

\* The second message of a transaction of two holds a reply.
LEMMA ReadPart ==
  ASSUME NEW t \in Transactions(2)
  PROVE  \E reply \in Data : /\ Len(reply) = inMsg.len /\ t = <<Outgoing, Incoming(reply)>>
                             /\ t[2].data = reply
  <1>1. PICK reply \in Replies : t = <<Outgoing, Incoming(reply)>>
    BY DEF Transactions
  <1>2. t[2].data = reply
    BY <1>1 DEF Incoming, Message
  <1> QED
    BY <1>1, <1>2 DEF Replies

LEMMA StopFailedStep == ASSUME IInv, StopFailed PROVE IInv'
  <1>1. PacketCount \in 0..2
    BY DEF PacketCount, IInv, TypeOK
  <1> QED
    BY <1>1, EndStep DEF StopFailed

LEMMA StopStep == ASSUME IInv, Stop PROVE IInv'
  <1> USE DEF IInv
  <1>1. /\ call' = "none" /\ op' = NoOp /\ UNCHANGED <<status, inMsg, inbuf>>
        /\ mem' = Release(outbuf) /\ outbuf' = NULL /\ outMsg' = ClearMsg
        /\ func' = "free" /\ nmsgs' = PacketCount /\ Ioctl(nmsgs')
    BY DEF Stop, Entered, Return, NextMethod, Epilogue
  <1>2. outbuf \in Block /\ PacketCount \in {1, 2}
    BY StopReady DEF Stop
  <1>3. mem' \in [Block -> Content] /\ HeapOwned'
    BY <1>1, <1>2, PointerAssumption
       DEF PointerAssumption, Release, TypeOK, HeapOwned, Content
  <1>4. user' \in [UserBuf -> Data]
    <2>1. CASE PacketCount = 1
      BY <1>1, <2>1 DEF Ioctl, TypeOK
    <2>2. CASE PacketCount = 2
      <3>1. wire'[2].data \in Data
        BY <1>1, <2>2, ReadPart DEF Ioctl
      <3> QED
        BY <1>1, <2>2, <3>1 DEF Ioctl, TypeOK
    <2> QED
      BY <1>2, <2>1, <2>2
  <1>5. outMsg' \in Msg
    BY <1>1, LengthAssumption DEF LengthAssumption, ClearMsg, Msg, NO_ADDR, Byte
  <1>6. TypeOK'
    BY <1>1, <1>2, <1>3, <1>4, <1>5 DEF TypeOK, FuncState
  <1>7. OutMsgOfOutbuf'
    BY <1>1 DEF OutMsgOfOutbuf, ClearMsg
  <1> QED
    BY <1>1, <1>3, <1>6, <1>7
       DEF AddressAsserted, BetweenCalls, AfterStart, AfterAddress, BeforeReceive, BeforeStop

LEMMA UnchangedStep == ASSUME IInv, UNCHANGED vars PROVE IInv'
  <1> USE DEF vars, ehweVars, driverVars
  <1> QED
    BY DEF IInv, TypeOK, HeapOwned, AddressAsserted, OutMsgOfOutbuf, BetweenCalls, AfterStart,
           AfterAddress, AddressByte, BeforeReceive, BeforeStop, ReadAddressed

\* IInv is inductive.
LEMMA NextIInv == IInv /\ [Next]_vars => IInv'
  <1> SUFFICES ASSUME IInv, [Next]_vars PROVE IInv'
    OBVIOUS
  <1>1. CASE Call
    BY <1>1, CallStep
  <1>2. CASE Start
    BY <1>2, StartStep
  <1>3. CASE SendReadAddress
    BY <1>3, SendReadAddressStep
  <1>4. CASE SendByte
    BY <1>4, SendByteStep
  <1>5. CASE SendData
    BY <1>5, SendDataStep
  <1>6. CASE ReceiveData
    BY <1>6, ReceiveDataStep
  <1>7. CASE StopRejected
    BY <1>7, AbortStep DEF StopRejected
  <1>8. CASE StopFailed
    BY <1>8, StopFailedStep
  <1>11. CASE WithoutBuffer
    BY <1>11, AbortStep DEF WithoutBuffer, NoBuffer, Abort
  <1>9. CASE Stop
    BY <1>9, StopStep
  <1>10. CASE Ended \/ UNCHANGED vars
    BY <1>10, UnchangedStep DEF Ended
  <1> QED
    BY <1>1, <1>2, <1>3, <1>4, <1>5, <1>6, <1>7, <1>8, <1>9, <1>10, <1>11 DEF Next

\* The inductive invariant, whatever calls are made: between two methods the
\* driver holds what the calls before have left it with.
THEOREM Invariance == Spec => []IInv
  <1> QED
    BY InitIInv, NextIInv, PTL DEF Spec

(* The theorems. *)

\* Every variable keeps its type, whatever calls are made.
THEOREM TypeCorrect == Spec => []TypeOK
  <1>1. IInv => TypeOK
    BY DEF IInv
  <1> QED
    BY <1>1, Invariance, PTL

\* The driver's malloc and free calls balance: at any time outbuf is the one
\* allocated block, or there is none.
THEOREM HeapSafe == Spec => []HeapOwned
  <1>1. IInv => HeapOwned
    BY DEF IInv
  <1> QED
    BY <1>1, Invariance, PTL

\* The kernel is never given freed memory, a length beyond the memory, a length
\* other than the transfer's if that fits the message, or a receive buffer that
\* an earlier i2c_read left behind - for transfers of any length.
THEOREM KernelMemorySafe == Spec => []KernelMemory
  <1>1. IInv => KernelMemory
    <2> SUFFICES ASSUME IInv, Entered("stop"), AddressesOk PROVE KernelMemory
      BY DEF KernelMemory
    <2>1. Len(mem[outbuf]) \in Nat
      BY StopReady
    <2>2. /\ outMsg.len <= Len(mem[outbuf])
          /\ Len(mem[outbuf]) < U16 => outMsg.len = Len(mem[outbuf])
      BY <2>1, StopReady, CutLength
    <2>3. op.kind = "read" => inMsg.len <= op.len /\ (op.len < U16 => inMsg.len = op.len)
      <3>1. op.kind = "read" => op.len \in Nat /\ inMsg.len = op.len % U16
        BY StopReady, OpFields
      <3> QED
        BY <3>1, CutLength
    <2> QED
      BY <2>2, <2>3, StopReady DEF KernelMemory
  <1> QED
    BY <1>1, Invariance, PTL
-----------------------------------------------------------------------------
(* What a caller sees *)

\* Before stop, the session is the message in msg[OUT_MSG], if any.
LEMMA SessionOutsideStop ==
  ASSUME ~(call = "stop" /\ op.kind = "write")
  PROVE  Session = IF outMsg.addr = NO_ADDR THEN <<>>
                   ELSE <<Outgoing>>
  BY DEF Session

\* The driver rejects a call in progress only if it could not carry it out.
LEMMA RejectStep ==
  ASSUME IInv, Next, op # NoOp, status = "running", status' = "rejected"
  PROVE  ~Supported
  <1>1. CASE SendReadAddress
    <2>1. call = "sendByte" /\ outMsg.addr # NO_ADDR /\ ~ReadAddressOk(AddressByte)
      BY <1>1 DEF SendReadAddress, Entered, IsReadAddress, ReturnAck, Return
    <2>2. Session = <<Outgoing>>
      BY <2>1 DEF Session
    <2>3. Session # <<>> /\ Session[1].addr = outMsg.addr
      BY <2>2 DEF Outgoing, Message
    <2>4. op.kind = "read" => outMsg.addr # op.addr
      BY <2>1, OpFields DEF ReadAddressOk
    <2> QED
      BY <2>3, <2>4 DEF Supported
  <1>2. CASE SendByte
    BY <1>2 DEF SendByte, Entered, IInv, AfterStart, ReturnAck, Return
  <1>3. CASE SendData
    BY <1>3 DEF SendData, Entered, IInv, AfterAddress, Return
  <1>4. CASE ReceiveData
    <2>1. call = "receiveData" /\ op.kind = "read" /\ func = "sendByte"
      BY <1>4 DEF ReceiveData, Entered, IInv, BeforeReceive
    <2>2. op.buf # NULL
      BY <2>1, OpFields, PointerAssumption DEF PointerAssumption
    <2> QED
      BY <1>4, <2>1, <2>2 DEF ReceiveData, Return
  <1>5. CASE StopRejected
    <2>1. call = "stop" /\ ~AddressesOk
      BY <1>5 DEF StopRejected, Entered
    <2>2. op.addr < 128
      <3>1. op.addr \in 0..127
        BY OpFields
      <3> QED
        BY <3>1
    <2>3. CASE op.kind = "write"
      <3>1. op.stop /\ (op.data # <<>> => func = "sendData" /\ outMsg.addr = op.addr)
        BY <2>1, <2>3 DEF IInv, BeforeStop
      <3>2. op.data = <<>>
        BY <2>1, <2>2, <3>1 DEF AddressesOk, SendState, ReceiveState
      <3> QED
        BY <2>3, <3>1, <3>2 DEF Supported
    <2>4. CASE op.kind = "read"
      <3>1. func = "receiveData" /\ ReadAddressed
        BY <2>1, <2>4 DEF IInv, BeforeStop
      <3>2. outMsg.addr = NO_ADDR
        BY <2>1, <2>2, <3>1 DEF AddressesOk, ReadAddressed, SendState, ReceiveState
      <3> QED
        BY <2>4, <3>2 DEF Supported, Session
    <2> QED
      BY <2>3, <2>4, OpFields
  <1>6. CASE Call \/ Start \/ StopFailed \/ Stop \/ Ended
    <2>1. CASE Call
      BY <2>1 DEF Call, Enter
    <2>2. CASE Start
      BY <2>2 DEF Start, Return
    <2>3. CASE StopFailed
      BY <2>3 DEF StopFailed
    <2>4. CASE Stop
      BY <2>4 DEF Stop, Return
    <2>5. CASE Ended
      BY <2>5 DEF Ended, Running
    <2> QED
      BY <1>6, <2>1, <2>2, <2>3, <2>4, <2>5
  <1>7. CASE WithoutBuffer
    <2>1. op.data # <<>> /\ op.kind = "write" /\ ~op.given
      BY <1>7 DEF WithoutBuffer, NoBuffer, Entered, IInv, AfterAddress
    <2> QED
      BY <2>1 DEF Supported
  <1> QED
    BY <1>1, <1>2, <1>3, <1>4, <1>5, <1>6, <1>7 DEF Next

\* The driver carries a call out only if it is one of the supported.
LEMMA CompleteStep ==
  ASSUME IInv, Next, op # NoOp, op' = NoOp
  PROVE  Supported
  <1>1. CASE SendByte
    <2>1. call = "sendByte" /\ outMsg.addr = NO_ADDR
      BY <1>1 DEF SendByte, Entered, IsReadAddress, IInv, AfterStart
    <2>2. NextMethod = "none"
      BY <1>1 DEF SendByte, ReturnAck, Return, Abort
    <2>3. op.kind = "write" /\ ~op.stop /\ op.data = <<>>
      <3>1. op.kind = "write" => op.data \in Seq(Byte)
        BY OpFields
      <3>2. op.kind = "write" /\ ~op.stop /\ ~(Len(op.data) > 0)
        BY <2>1, <2>2, OpFields DEF NextMethod, AfterWrite
      <3> QED
        BY <3>1, <3>2
    <2> QED
      BY <2>1, <2>3 DEF Supported, Session
  <1>2. CASE SendData
    <2>1. /\ call = "sendData" /\ op.kind = "write" /\ op.data # <<>> /\ outMsg.addr = NO_ADDR
          /\ op.given
      BY <1>2 DEF SendData, Entered, IInv, AfterAddress
    <2> QED
      BY <2>1 DEF Supported, Session
  <1>3. CASE Stop
    <2>1. /\ call = "stop" /\ outMsg.addr # NO_ADDR /\ outMsg.addr = op.addr
          /\ \/ op.kind = "write" /\ op.stop /\ func = "sendData"
             \/ op.kind = "read"
      BY <1>3, StopReady DEF Stop
    <2>2. CASE op.kind = "write"
      <3>1. op.data # <<>> /\ op.given
        BY <2>1, <2>2 DEF IInv, BeforeStop
      <3> QED
        BY <2>1, <2>2, <3>1 DEF Supported, Session
    <2>3. CASE op.kind = "read"
      <3>1. Session = <<Outgoing>>
        BY <2>1, <2>3 DEF Session
      <3>2. Session # <<>> /\ Session[1].addr = outMsg.addr
        BY <3>1 DEF Outgoing, Message
      <3> QED
        BY <2>1, <2>3, <3>2 DEF Supported
    <2> QED
      BY <2>1, <2>2, <2>3
  <1>4. CASE Call
    BY <1>4 DEF Call, Enter
  <1>5. CASE Start
    BY <1>5 DEF Start, Entered, Return, NextMethod
  <1>6. CASE SendReadAddress
    <2>1. CASE ReadAddressOk(AddressByte)
      <3>1. op.kind = "read"
        BY <2>1, OpFields DEF ReadAddressOk
      <3> QED
        BY <1>6, <2>1, <3>1 DEF SendReadAddress, Entered, ReturnAck, Return, NextMethod
    <2>2. CASE ~ReadAddressOk(AddressByte)
      BY <1>6, <2>2 DEF SendReadAddress, Abort
    <2> QED
      BY <2>1, <2>2
  <1>7. CASE ReceiveData
    BY <1>7 DEF ReceiveData, Entered, Return, NextMethod, Abort
  <1>8. CASE StopRejected \/ StopFailed \/ WithoutBuffer \/ Ended
    BY <1>8 DEF StopRejected, StopFailed, WithoutBuffer, NoBuffer, Abort, Ended, vars, ehweVars
  <1> QED
    BY <1>1, <1>2, <1>3, <1>4, <1>5, <1>6, <1>7, <1>8 DEF Next

\* The driver's checks stop no call it could have carried out.
THEOREM RejectsJustly == Spec => RejectsOnlyUnsupported
  <1>1. IInv /\ [Next]_vars =>
          [op # NoOp /\ status = "running" /\ status' = "rejected" => ~Supported]_vars
    BY RejectStep
  <1> QED
    BY <1>1, Invariance, PTL DEF Spec, RejectsOnlyUnsupported

\* The driver carries out nothing else: no call is completed on an address
\* or a message left over from an earlier session.
THEOREM CompletesJustly == Spec => CompletesOnlySupported
  <1>1. IInv /\ [Next]_vars => [op # NoOp /\ op' = NoOp => Supported]_vars
    BY CompleteStep
  <1> QED
    BY <1>1, Invariance, PTL DEF Spec, CompletesOnlySupported

(* The driver implements I2CBus. *)

LEMMA InitBus == Init => Bus!Init
  BY DEF Init, EhweInit, Bus!Init, Session, Configured, ClearMsg, NO_ADDR

\* Steps that only collect leave the session alone.
LEMMA SameSession ==
  ASSUME UNCHANGED <<outMsg, mem>>,
         ~(call = "stop" /\ op.kind = "write"),
         ~(call' = "stop" /\ op'.kind = "write")
  PROVE  Session' = Session
  BY DEF Session, Outgoing, Message

LEMMA AbortBus ==
  ASSUME NEW how \in {"rejected", "failed"}, status = "running", Abort(how)
  PROVE  Bus!Abort
  <1>1. UNCHANGED <<op, call, outMsg, mem, wire, user>> /\ status' = how
    BY DEF Abort, driverVars
  <1>2. Session' = Session
    BY <1>1 DEF Session, Outgoing, Message
  <1> QED
    BY <1>1, <1>2 DEF Bus!Abort

LEMMA CallBus == ASSUME IInv, Call PROVE Bus!Next
  <1>1. PICK o \in Requests : Enter(o) /\ UNCHANGED <<driverVars, user, wire>>
    BY DEF Call
  <1>2. UNCHANGED <<outMsg, mem, user, wire>> /\ status = "running" /\ op = NoOp
    BY <1>1 DEF driverVars, Enter, Running
  <1>3. call = "none"
    BY <1>2 DEF IInv, TypeOK
  <1>4. CASE o.addr < AddressLimit
    <2>1. op' = o /\ call' = "start" /\ UNCHANGED status
      BY <1>1, <1>4 DEF Enter
    <2>2. Session' = Session
      BY <1>2, <1>3, <2>1, SameSession
    <2> QED
      BY <1>2, <2>1, <2>2 DEF Bus!Next, Bus!Request
  <1>5. CASE ~(o.addr < AddressLimit)
    <2>1. Abort("rejected")
      BY <1>1, <1>5 DEF Enter, Abort
    <2> QED
      BY <1>2, <2>1, AbortBus DEF Bus!Next
  <1> QED
    BY <1>4, <1>5

\* A step that changes nothing a caller sees.
LEMMA Stutter ==
  ASSUME UNCHANGED <<op, status, user, wire>>, Session' = Session
  PROVE  UNCHANGED Bus!busVars
  BY DEF Bus!busVars

LEMMA StartBus == ASSUME IInv, Start PROVE UNCHANGED Bus!busVars
  <1>1. /\ call = "start" /\ call' = "sendByte"
        /\ UNCHANGED <<op, status, outMsg, mem, user, wire>>
    BY DEF Start, Entered, Return, NextMethod
  <1>2. Session' = Session
    BY <1>1, SameSession
  <1> QED
    BY <1>1, <1>2, Stutter

LEMMA SendReadAddressBus ==
  ASSUME IInv, SendReadAddress
  PROVE  Bus!Next \/ UNCHANGED Bus!busVars
  <1>1. CASE ~ReadAddressOk(AddressByte)
    BY <1>1, AbortBus DEF SendReadAddress, Entered, Running, Bus!Next
  <1>2. CASE ReadAddressOk(AddressByte)
    <2>1. call = "sendByte" /\ op # NoOp
      BY DEF SendReadAddress, Entered, IInv, TypeOK
    <2>2. op.kind = "read"
      BY <1>2, <2>1, OpFields DEF ReadAddressOk
    <2>3. call' = "receiveData" /\ UNCHANGED <<op, status, outMsg, mem, user, wire>>
      BY <1>2, <2>1, <2>2 DEF SendReadAddress, ReturnAck, Return, NextMethod
    <2>4. Session' = Session
      BY <2>1, <2>3, SameSession
    <2> QED
      BY <2>3, <2>4, Stutter
  <1> QED
    BY <1>1, <1>2

\* The one step that needs every held write to carry a byte: an address byte
\* held without data is in outbuf only, and the next sendByte drops it.
LEMMA SendByteBus ==
  ASSUME IInv, SendByte, NonEmptyHolds
  PROVE  UNCHANGED Bus!busVars
  <1>1. /\ call = "sendByte" /\ func = "start" /\ outMsg.addr = NO_ADDR
        /\ op \in Requests /\ op # NoOp
    BY DEF SendByte, Entered, IInv, AfterStart, IsReadAddress, TypeOK
  <1>2. /\ call' = NextMethod /\ op' = IF NextMethod = "none" THEN NoOp ELSE op
        /\ UNCHANGED <<status, user, wire>> /\ outMsg'.addr = NO_ADDR
    BY <1>1 DEF SendByte, ReturnAck, Return, SetOutMsg, OutAddr
  <1>3. NextMethod # "none"
    <2>1. op.kind = "write" /\ ~op.stop => Len(op.data) > 0
      <3>1. op.kind = "write" => op.data \in Seq(Byte)
        BY <1>1, OpFields
      <3>2. op.kind = "write" /\ ~op.stop => op.data # <<>>
        BY <1>1 DEF NonEmptyHolds
      <3> QED
        BY <3>1, <3>2
    <2> QED
      BY <1>1, <2>1, OpFields DEF NextMethod, AfterWrite
  <1>4. Session = <<>> /\ Session' = <<>>
    BY <1>1, <1>2 DEF Session
  <1> QED
    BY <1>2, <1>3, <1>4, Stutter

\* Lengths that fit are handed over as they are.
LEMMA FitLengths ==
  ASSUME IInv, Fits, op # NoOp
  PROVE  /\ op.kind = "write" => Len(op.data) % U16 = Len(op.data)
         /\ op.kind = "read" => op.len % U16 = op.len
  <1>1. op \in Requests
    BY DEF IInv, TypeOK
  <1>2. /\ op.kind = "write" => Len(op.data) < U16 /\ Len(op.data) \in Nat
        /\ op.kind = "read" => op.len < U16 /\ op.len \in Nat
    BY <1>1, OpFields DEF Fits
  <1> QED
    BY <1>2, CutLength

LEMMA WholeSubSeq == ASSUME NEW S, NEW s \in Seq(S) PROVE SubSeq(s, 1, Len(s)) = s
  OBVIOUS

LEMMA SendDataBus ==
  ASSUME IInv, SendData, Fits
  PROVE  Bus!Next \/ UNCHANGED Bus!busVars
  <1>1. /\ call = "sendData" /\ op # NoOp /\ op.kind = "write" /\ op.data \in Seq(Byte)
        /\ func = "sendByte" /\ outbuf # NULL /\ outMsg.addr = NO_ADDR
        /\ mem[outbuf] = <<AddressByte>> /\ status = "running"
    BY OpFields DEF SendData, Entered, Running, IInv, TypeOK, AfterAddress
  <1>2. /\ call' = AfterWrite /\ op' = IF AfterWrite = "none" THEN NoOp ELSE op
        /\ UNCHANGED <<status, user, wire>>
    BY <1>1 DEF SendData, Return, NextMethod
  <1>3. mem'[outbuf'] = op.data
    BY <1>1, ReplaceOutbuf DEF SendData, IInv
  <1>4. OutAddr = op.addr /\ op.addr # NO_ADDR
    <2>1. mem[outbuf][1] = AddressByte
      BY <1>1
    <2>2. OutAddr = op.addr
      BY <1>1, <2>1, OpFields DEF OutAddr, AddrInOutbuf
    <2>3. op.addr \in 0..127
      BY <1>1, OpFields
    <2>4. op.addr # NO_ADDR
      BY <2>3 DEF NO_ADDR
    <2> QED
      BY <2>2, <2>4
  <1>5. outMsg' = [addr |-> op.addr, flags |-> 0, len |-> Len(op.data), buf |-> outbuf']
    <2>1. Len(op.data) % U16 = Len(op.data)
      BY <1>1, FitLengths
    <2> QED
      BY <1>1, <1>4, <2>1 DEF SendData, SetOutMsg
  <1>6. Session = <<>>
    BY <1>1 DEF Session
  <1>7. CASE op.stop
    <2>1. call' = "stop" /\ op' = op
      BY <1>2, <1>7 DEF AfterWrite
    <2>2. Session' = <<>>
      BY <1>1, <2>1 DEF Session
    <2> QED
      BY <1>2, <1>6, <2>1, <2>2, Stutter
  <1>8. CASE ~op.stop
    <2>1. call' = "none" /\ op' = NoOp
      BY <1>2, <1>8 DEF AfterWrite
    <2>2. Session' = <<Outgoing'>>
      BY <1>4, <1>5, <2>1 DEF Session
    <2>3. Outgoing' = Bus!Message(0, op.addr, op.data)
      <3>1. SubSeq(op.data, 1, Len(op.data)) = op.data
        BY <1>1, WholeSubSeq
      <3>2. SubSeq(mem'[outMsg'.buf], 1, outMsg'.len) = op.data
        BY <1>3, <1>5, <3>1
      <3> QED
        BY <1>5, <3>2 DEF Outgoing, Message, Bus!Message
    <2>4. Session' = Append(Session, Bus!Message(0, op.addr, op.data))
      BY <1>6, <2>2, <2>3
    <2> QED
      BY <1>1, <1>2, <1>8, <2>1, <2>4 DEF Bus!Next, Bus!HoldWrite, Bus!Sent
  <1> QED
    BY <1>7, <1>8

LEMMA ReceiveDataBus ==
  ASSUME IInv, ReceiveData
  PROVE  Bus!Next \/ UNCHANGED Bus!busVars
  <1>1. CASE op.buf = NULL \/ func # "sendByte"
    BY <1>1, AbortBus DEF ReceiveData, Entered, Running, Bus!Next
  <1>2. CASE ~(op.buf = NULL \/ func # "sendByte")
    <2>1. /\ call = "receiveData" /\ op.kind = "read"
          /\ UNCHANGED <<op, status, outMsg, mem, user, wire>>
      BY <1>2 DEF ReceiveData, Entered, Return, NextMethod, IInv, BeforeReceive
    <2>2. Session' = Session
      BY <2>1, SameSession
    <2> QED
      BY <2>1, <2>2, Stutter
  <1> QED
    BY <1>1, <1>2

\* What stop hands to the kernel: the session, and behind it the message of the
\* call in progress.
LEMMA Handed ==
  ASSUME IInv, Fits, Entered("stop"), AddressesOk, NEW t \in Transactions(PacketCount)
  PROVE  \E msg \in Bus!LastMessages :
           /\ t = Append(Session, msg)
           /\ op.kind = "write" => msg = Bus!Message(0, op.addr, op.data) /\ PacketCount = 1
           /\ op.kind = "read" =>
                /\ PacketCount = 2
                /\ t[2].data \in Data /\ Len(t[2].data) = op.len
                /\ msg = Bus!Message(Bus!I2C_M_RD, op.addr, t[2].data)
  <1>1. /\ call = "stop" /\ outMsg.addr = op.addr /\ outMsg.addr # NO_ADDR /\ outMsg.flags = 0
        /\ op # NoOp /\ outMsg.buf = outbuf /\ outMsg.len = Len(mem[outbuf]) % U16
        /\ \/ op.kind = "write" /\ op.stop /\ mem[outbuf] = op.data /\ PacketCount = 1
           \/ /\ op.kind = "read" /\ PacketCount = 2
              /\ inMsg.addr = op.addr /\ inMsg.flags = I2C_M_RD
              /\ inMsg.len = op.len % U16 /\ inMsg.buf = op.buf
    BY StopReady
  <1>2. CASE op.kind = "write"
    <2>1. t = <<Outgoing>>
      BY <1>1, <1>2 DEF Transactions
    <2>2. Session = <<>>
      BY <1>1, <1>2 DEF Session
    <2>3. SubSeq(op.data, 1, Len(op.data)) = op.data
      BY <1>1, <1>2, OpFields, WholeSubSeq
    <2>4. SubSeq(mem[outMsg.buf], 1, outMsg.len) = op.data
      BY <1>1, <1>2, <2>3, FitLengths
    <2>5. Outgoing = Bus!Message(0, op.addr, op.data)
      BY <1>1, <2>4 DEF Outgoing, Message, Bus!Message
    <2>6. t = Append(Session, Outgoing)
      BY <2>1, <2>2
    <2>7. Outgoing \in Bus!LastMessages
      BY <1>1, <1>2, <2>5 DEF Bus!LastMessages, Bus!Sent
    <2> QED
      BY <1>1, <1>2, <2>5, <2>6, <2>7
  <1>3. CASE op.kind = "read"
    <2>1. PICK reply \in Data : /\ Len(reply) = inMsg.len /\ t = <<Outgoing, Incoming(reply)>>
                                /\ t[2].data = reply
      BY <1>1, <1>3, ReadPart
    <2>2. Session = <<Outgoing>>
      BY <1>1, <1>3 DEF Session
    <2>3. Incoming(reply) = Bus!Message(Bus!I2C_M_RD, op.addr, reply)
      BY <1>1, <1>3 DEF Incoming, Message, Bus!Message, I2C_M_RD, Bus!I2C_M_RD
    <2>4. t = Append(Session, Incoming(reply))
      BY <2>1, <2>2
    <2>5. Len(reply) = op.len
      BY <1>1, <1>3, <2>1, FitLengths
    <2>6. Incoming(reply) \in Bus!LastMessages
      BY <1>1, <1>3, <2>3, <2>5 DEF Bus!LastMessages
    <2> QED
      BY <1>1, <1>3, <2>1, <2>3, <2>4, <2>5, <2>6
  <1> QED
    BY <1>1, <1>2, <1>3

LEMMA StopBus == ASSUME IInv, Fits, Stop PROVE Bus!Next
  <1>1. /\ call = "stop" /\ op # NoOp /\ status = "running"
        /\ call' = "none" /\ op' = NoOp /\ UNCHANGED status
        /\ outMsg' = ClearMsg /\ Ioctl(PacketCount)
    <2>1. nmsgs' = PacketCount /\ Ioctl(nmsgs')
      BY DEF Stop
    <2> QED
      BY <2>1 DEF Stop, Entered, Running, Return, NextMethod, Epilogue, IInv, TypeOK
  <1>2. Session' = <<>>
    BY <1>1 DEF Session, ClearMsg
  <1>3. PICK msg \in Bus!LastMessages :
          /\ wire' = Append(Session, msg)
          /\ op.kind = "write" => msg = Bus!Message(0, op.addr, op.data) /\ PacketCount = 1
          /\ op.kind = "read" =>
               /\ PacketCount = 2
               /\ wire'[2].data \in Data /\ Len(wire'[2].data) = op.len
               /\ msg = Bus!Message(Bus!I2C_M_RD, op.addr, wire'[2].data)
    <2>1. wire' \in Transactions(PacketCount) /\ Entered("stop") /\ AddressesOk
      BY <1>1 DEF Ioctl, Stop
    <2> QED
      BY <2>1, Handed
  <1>4. CASE op.kind = "write"
    <2>1. user' = user /\ op.stop
      BY <1>1, <1>3, <1>4, StopReady DEF Ioctl, Stop
    <2> QED
      BY <1>1, <1>2, <1>3, <1>4, <2>1 DEF Bus!Next, Bus!StopWrite, Bus!Sent
  <1>5. CASE op.kind = "read"
    <2>1. inMsg.buf = op.buf
      BY <1>5, StopReady DEF Stop
    <2>2. user' = [user EXCEPT ![op.buf] = wire'[2].data]
      BY <1>1, <1>3, <1>5, <2>1 DEF Ioctl
    <2> QED
      BY <1>1, <1>2, <1>3, <1>5, <2>2 DEF Bus!Next, Bus!StopRead
  <1> QED
    BY <1>1, <1>4, <1>5, OpFields

LEMMA SameBegun == ASSUME NEW t PROVE Begun(t) = Bus!Begun(t)
  BY DEF Begun, Cut, Message, Bus!Begun, Bus!Cut, Bus!Message

\* An ioctl that fails has put a part of the transaction on the bus.
LEMMA StopFailedBus == ASSUME IInv, Fits, StopFailed PROVE Bus!Abort
  <1>1. /\ Entered("stop") /\ AddressesOk /\ status = "running" /\ status' = "failed"
        /\ UNCHANGED <<op, call, outMsg, mem, user>> /\ op # NoOp
    BY StopReady DEF StopFailed, Entered, Running
  <1>2. PICK t \in Transactions(PacketCount) : wire' \in Begun(t)
    BY DEF StopFailed
  <1>3. PICK msg \in Bus!LastMessages : t = Append(Session, msg)
    BY <1>1, Handed
  <1>4. wire' \in Bus!Begun(Append(Session, msg))
    BY <1>2, <1>3, SameBegun
  <1>5. Session' = Session
    BY <1>1 DEF Session, Outgoing, Message
  <1> QED
    BY <1>1, <1>4, <1>5 DEF Bus!Abort

LEMMA UnchangedBus == UNCHANGED vars => UNCHANGED Bus!busVars
  BY DEF vars, ehweVars, driverVars, Bus!busVars, Session, Outgoing, Message

\* Every step of the driver is a step of the bus, or one the bus does not see.
LEMMA NextBus == NonEmptyHolds /\ Fits /\ IInv /\ [Next]_vars => [Bus!Next]_(Bus!busVars)
  <1> SUFFICES ASSUME NonEmptyHolds, Fits, IInv, [Next]_vars
               PROVE  Bus!Next \/ UNCHANGED Bus!busVars
    OBVIOUS
  <1>1. CASE Call
    BY <1>1, CallBus
  <1>2. CASE Start
    BY <1>2, StartBus
  <1>3. CASE SendReadAddress
    BY <1>3, SendReadAddressBus
  <1>4. CASE SendByte
    BY <1>4, SendByteBus
  <1>5. CASE SendData
    BY <1>5, SendDataBus
  <1>6. CASE ReceiveData
    BY <1>6, ReceiveDataBus
  <1>7. CASE StopRejected
    BY <1>7, AbortBus DEF StopRejected, Entered, Running, Bus!Next
  <1>8. CASE StopFailed
    BY <1>8, StopFailedBus DEF Bus!Next
  <1>11. CASE WithoutBuffer
    BY <1>11, AbortBus DEF WithoutBuffer, NoBuffer, Abort, Entered, Running, Bus!Next
  <1>9. CASE Stop
    BY <1>9, StopBus
  <1>10. CASE Ended \/ UNCHANGED vars
    BY <1>10, UnchangedBus DEF Ended
  <1> QED
    BY <1>1, <1>2, <1>3, <1>4, <1>5, <1>6, <1>7, <1>8, <1>9, <1>10, <1>11 DEF Next

\* i2c_write and i2c_read on a Linux i2c-dev adapter keep the promise of
\* I2CBus to their callers, as long as every held write carries a byte and no
\* transfer is longer than the __u16 of a message.
THEOREM Refinement == ASSUME NonEmptyHolds, Fits PROVE Spec => ImplementsBus
  <1>1. IInv /\ [Next]_vars => [Bus!Next]_(Bus!busVars)
    BY NextBus
  <1> QED
    BY <1>1, InitBus, Invariance, PTL DEF Spec, ImplementsBus, Bus!Spec
=============================================================================
