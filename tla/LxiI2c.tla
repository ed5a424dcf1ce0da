------------------------------- MODULE LxiI2c -------------------------------
(***************************************************************************)
(* The I2C driver for Linux i2c-dev adapters,                              *)
(* src/adapters/lxi/i2c_driver.c, under i2c_write and i2c_read of ehwe.c.  *)
(* The kernel takes a whole transaction at once, so start, sendByte,       *)
(* sendData and receiveData only collect two messages, and stop hands them *)
(* to ioctl(I2C_RDWR).  What has been collected is remembered in func_0    *)
(* (the last method called), the two messages, and outbuf, a heap block    *)
(* the driver allocates and frees on the way.                              *)
(***************************************************************************)
EXTENDS EhweI2c, I2CMessages

CONSTANTS
  U16,        \* 2^16: the len of a struct i2c_msg is a __u16
  Block,      \* addresses malloc may return
  NULL,       \* the null pointer
  Freed       \* content of a block that is not allocated

ASSUME PointerAssumption ==
  /\ NULL \notin Block \cup UserBuf
  /\ Block \cap UserBuf = {}
  /\ Freed \notin Seq(Byte)

ASSUME LengthAssumption == U16 \in Nat /\ U16 > 1

VARIABLES
  func,       \* lxi_state.i2c.func_0
  outMsg,     \* lxi_state.i2c.msg[OUT_MSG]
  inMsg,      \* lxi_state.i2c.msg[IN_MSG]
  outbuf,     \* lxi_state.i2c.outbuf
  inbuf,      \* lxi_state.i2c.inbuf
  nmsgs,      \* lxi_state.i2c.packets.nmsgs
  mem,        \* the heap blocks
  user,       \* what the last read has put into each of the callers' buffers
  wire        \* what the last ioctl has put on the bus

driverVars == <<func, outMsg, inMsg, outbuf, inbuf, nmsgs, mem>>
vars == <<ehweVars, driverVars, user, wire>>

NO_ADDR == 255

FuncState == {"free", "start", "sendByte", "sendData", "receiveByte", "receiveData"}
SendState == {"sendByte", "sendData"}
ReceiveState == {"receiveByte", "receiveData"}

\* struct i2c_msg
Msg == [addr : Byte, flags : {0, I2C_M_RD}, len : 0..U16 - 1,
        buf : Block \cup UserBuf \cup {NULL}]
ClearMsg == [addr |-> NO_ADDR, flags |-> 0, len |-> 0, buf |-> NULL]

RW_ADDR(b) == b \div 2

\* lxii2c_configure; it leaves the flags and nmsgs as malloc returned them.
Configured(flags) == [ClearMsg EXCEPT !.flags = flags]

Init ==
  /\ EhweInit
  /\ func = "free"
  /\ outMsg \in {Configured(f) : f \in {0, I2C_M_RD}}
  /\ inMsg \in {Configured(f) : f \in {0, I2C_M_RD}}
  /\ outbuf = NULL
  /\ inbuf = NULL
  /\ nmsgs \in 0..2
  /\ mem = [p \in Block |-> Freed]
  /\ user \in [UserBuf -> Data]
  /\ wire = <<>>

\* The process ends: a failed ASSURE or assert.
Abort(how) == status' = how /\ UNCHANGED <<op, call, driverVars, user, wire>>

\* Mutant: the old outbuf is not freed.
ReleaseNothing(p) == mem

\* The heap after free(p), and a malloc that replaces outbuf and is filled.
Release(p) == IF p = NULL THEN mem ELSE [mem EXCEPT ![p] = Freed]
Replace(bytes) ==
  \E p \in Block :
    /\ Release(outbuf)[p] = Freed
    /\ outbuf' = p
    /\ mem' = [Release(outbuf) EXCEPT ![p] = bytes]

\* Mutant: the message keeps pointing to the outbuf that was freed.
SetOutMsgStale(addr, bytes) ==
  outMsg' = [addr |-> addr, flags |-> 0, len |-> Len(bytes) % U16, buf |-> outbuf]

\* The message sendByte and sendData leave in msg[OUT_MSG] for the new outbuf;
\* the int sz is cut to the field's 16 bits.
SetOutMsg(addr, bytes) ==
  outMsg' = [addr |-> addr, flags |-> 0, len |-> Len(bytes) % U16, buf |-> outbuf']

\* The address kept in outbuf[0] by an earlier sendByte.
AddrInOutbuf == RW_ADDR(mem[outbuf][1])
OutAddr == IF func = "sendByte" THEN AddrInOutbuf ELSE outMsg.addr
-----------------------------------------------------------------------------
Call == \E o \in Requests : Enter(o) /\ UNCHANGED <<driverVars, user, wire>>

\* Mutant: the address is not carried over to the read message.
StartNoAddress ==
  /\ Entered("start")
  /\ func' = "start"
  /\ Return
  /\ UNCHANGED <<outMsg, inMsg, outbuf, inbuf, nmsgs, mem, user, wire>>

\* lxii2c_start
Start ==
  /\ Entered("start")
  /\ inMsg' = IF func \in SendState THEN [inMsg EXCEPT !.addr = outMsg.addr] ELSE inMsg
  /\ func' = "start"
  /\ Return
  /\ UNCHANGED <<outMsg, outbuf, inbuf, nmsgs, mem, user, wire>>

\* lxii2c_sendByte: after a re-START with an address already in place the
\* byte has to be the read address of the same device.
IsReadAddress == func = "start" /\ outMsg.addr # NO_ADDR
\* Mutants: the read bit taken the wrong way; the device not compared.
ReadAddressOkInverted(b) == b % 2 = 0 /\ RW_ADDR(b) = outMsg.addr
ReadAddressOkAnyDevice(b) == b % 2 = 1

ReadAddressOk(b) == b % 2 = 1 /\ RW_ADDR(b) = outMsg.addr

SendReadAddress ==
  /\ Entered("sendByte") /\ IsReadAddress
  /\ IF ReadAddressOk(AddressByte)
       THEN /\ func' = "sendByte"
            /\ ReturnAck(1)
            /\ UNCHANGED <<outMsg, inMsg, outbuf, inbuf, nmsgs, mem, user, wire>>
       ELSE Abort("rejected")

\* lxii2c_sendByte, any other byte: a fresh outbuf holds it.
SendByte ==
  /\ Entered("sendByte") /\ ~IsReadAddress
  /\ IF func = "sendByte" /\ outbuf = NULL
       THEN Abort("rejected")
       ELSE /\ Replace(<<AddressByte>>)
            /\ SetOutMsg(OutAddr, <<AddressByte>>)
            /\ func' = "sendByte"
            /\ ReturnAck(1)
            /\ UNCHANGED <<inMsg, inbuf, nmsgs, user, wire>>

\* lxii2c_sendData: the held byte becomes the message's address.
SendData ==
  /\ Entered("sendData") /\ op.given
  /\ IF func = "sendByte" /\ outbuf = NULL
       THEN Abort("rejected")
       ELSE /\ Replace(op.data)
            /\ SetOutMsg(OutAddr, op.data)
            /\ func' = "sendData"
            /\ Return
            /\ UNCHANGED <<inMsg, inbuf, nmsgs, user, wire>>

WithoutBuffer == NoBuffer /\ UNCHANGED <<driverVars, user, wire>>

\* lxii2c_receiveData
ReceiveData ==
  /\ Entered("receiveData")
  /\ IF op.buf = NULL \/ func # "sendByte"
       THEN Abort("rejected")
       ELSE /\ inbuf' = op.buf
            /\ inMsg' = [inMsg EXCEPT !.flags = I2C_M_RD, !.len = op.len % U16, !.buf = op.buf]
            /\ func' = "receiveData"
            /\ Return
            /\ UNCHANGED <<outMsg, outbuf, nmsgs, mem, user, wire>>
-----------------------------------------------------------------------------
(* lxii2c_stop *)

AddressesOk ==
  /\ func \in SendState => outMsg.addr < 128
  /\ func \in ReceiveState =>
       inMsg.addr < 128 /\ outMsg.addr < 128 /\ inMsg.addr = outMsg.addr

\* Mutant: messages are counted on from the last transaction.
PacketCountOn == CASE func \in SendState    -> nmsgs + 1
                   [] func \in ReceiveState -> nmsgs + 2
                   [] OTHER                 -> nmsgs

PacketCount == CASE func \in SendState    -> 1
                 [] func \in ReceiveState -> 2
                 [] OTHER                 -> nmsgs

\* The two messages as the kernel puts them on the bus (external): the bytes
\* the first points to, and as many bytes as the second asks the device for.
Outgoing == Message(outMsg.flags, outMsg.addr, SubSeq(mem[outMsg.buf], 1, outMsg.len))
Incoming(reply) == Message(inMsg.flags, inMsg.addr, reply)
Replies == {reply \in Data : Len(reply) = inMsg.len}

\* The transactions n messages may make.
Transactions(n) ==
  CASE n = 2 -> {<<Outgoing, Incoming(reply)>> : reply \in Replies}
    [] n = 1 -> {<<Outgoing>>}
    [] OTHER -> {<<>>}

\* ioctl(I2C_RDWR) succeeds; what was read is copied to where the second
\* message points.
Ioctl(n) ==
  /\ wire' \in Transactions(n)
  /\ user' = IF n = 2 THEN [user EXCEPT ![inMsg.buf] = wire'[2].data] ELSE user

StopRejected == Entered("stop") /\ ~AddressesOk /\ Abort("rejected")

\* The kernel reports an error: no such device, an address or byte not ACKed.
\* What was sent by then was sent; nothing is copied to the caller.
StopFailed ==
  /\ Entered("stop") /\ AddressesOk
  /\ nmsgs' = PacketCount
  /\ \E t \in Transactions(nmsgs') : wire' \in Begun(t)
  /\ status' = "failed"
  /\ UNCHANGED <<op, call, func, outMsg, inMsg, outbuf, inbuf, mem, user>>

Epilogue ==
  /\ mem' = Release(outbuf)
  /\ outbuf' = NULL
  /\ outMsg' = ClearMsg
  /\ func' = "free"
  /\ UNCHANGED <<inMsg, inbuf>>

Stop ==
  /\ Entered("stop") /\ AddressesOk
  /\ nmsgs' = PacketCount
  /\ Ioctl(nmsgs')
  /\ Epilogue
  /\ Return
-----------------------------------------------------------------------------
\* The process has ended.
Ended == ~Running /\ UNCHANGED vars

Next ==
  \/ Call \/ Start \/ SendReadAddress \/ SendByte \/ SendData \/ WithoutBuffer
  \/ ReceiveData \/ StopRejected \/ StopFailed \/ Stop \/ Ended

\* Whether a caller ever makes another call is up to the caller; once a call
\* is entered the thread runs on.
Method == Start \/ SendReadAddress \/ SendByte \/ SendData \/ WithoutBuffer
          \/ ReceiveData \/ StopRejected \/ StopFailed \/ Stop

Spec == Init /\ [][Next]_vars
FairSpec == Spec /\ WF_vars(Method)
-----------------------------------------------------------------------------
(* Properties *)

Content == Seq(Byte) \cup {Freed}

\* Every variable stays in its type.
TypeOK ==
  /\ op \in Requests \cup {NoOp}
  /\ call \in {"none", "start", "sendByte", "sendData", "receiveData", "stop"}
  /\ call = "none" <=> op = NoOp
  /\ status \in {"running", "rejected", "failed"}
  /\ func \in FuncState
  /\ outMsg \in Msg /\ inMsg \in Msg
  /\ outbuf \in Block \cup {NULL}
  /\ inbuf \in UserBuf \cup {NULL}
  /\ nmsgs \in 0..2
  /\ mem \in [Block -> Content]
  /\ user \in [UserBuf -> Data]

\* Across the free/malloc pairs of sendByte, sendData and stop the heap holds
\* exactly the block outbuf points to: none is leaked, freed twice or used
\* after free, whatever calls follow each other.
HeapOwned == \A p \in Block : mem[p] # Freed <=> p = outbuf

\* When stop hands the messages to the kernel, the bytes it sends are alive
\* and no fewer than the message says, and the memory it fills is no more than
\* the buffer of the i2c_read in progress, not that of an earlier call whose
\* pointer the driver still keeps.  The lengths are the transfer's own unless
\* it is too long for a __u16, and then shorter, never beyond the memory.
KernelMemory ==
  Entered("stop") /\ AddressesOk =>
    /\ outMsg.buf \in Block /\ mem[outMsg.buf] # Freed
    /\ outMsg.len <= Len(mem[outMsg.buf])
    /\ Len(mem[outMsg.buf]) < U16 => outMsg.len = Len(mem[outMsg.buf])
    /\ op.kind = "write" => PacketCount = 1 /\ mem[outMsg.buf] = op.data
    /\ op.kind = "read" =>
         /\ PacketCount = 2 /\ inMsg.buf = op.buf /\ inMsg.len <= op.len
         /\ op.len < U16 => inMsg.len = op.len

\* The message kept for the next call: a write that was not ended by STOP.
\* Between sendData and stop the current call's own message is in its place.
Session ==
  IF outMsg.addr = NO_ADDR \/ (call = "stop" /\ op.kind = "write")
    THEN <<>>
    ELSE <<Outgoing>>

\* The sequences of calls this driver carries out: a write, unless a session
\* is open, there is no byte to send before STOP, or bytes but no buffer; and
\* a read of the device the open session has written to.
Supported ==
  \/ /\ op.kind = "write" /\ Session = <<>>
     /\ IF op.data = <<>> THEN ~op.stop ELSE op.given
  \/ op.kind = "read" /\ Session # <<>> /\ Session[1].addr = op.addr

\* The driver's own checks (read address odd, addresses equal, sendByte
\* before receiveData, both messages addressed) stop no call it could have
\* carried out.
RejectsOnlyUnsupported ==
  [][op # NoOp /\ status = "running" /\ status' = "rejected" => ~Supported]_vars

\* ... and they stop every other one: none is carried out without its address
\* or its session, or on those left over from an earlier one.
CompletesOnlySupported ==
  [][op # NoOp /\ op' = NoOp => Supported]_vars

\* i2c_write and i2c_read return or the process ends.
CallEnds == op # NoOp ~> (op = NoOp \/ ~Running)

\* A write that is held for the next call carries at least one byte.
NonEmptyHolds == \A o \in Requests : o.kind = "write" /\ ~o.stop => o.data # <<>>

\* Every transfer is short enough for a __u16.
Fits == \A o \in Requests : IF o.kind = "write" THEN Len(o.data) < U16 ELSE o.len < U16

\* The driver implements the bus when every held write carries a byte and every
\* transfer fits: what ioctl is given is the messages of the calls since the
\* last STOP, complete and in order, and a read's bytes reach the buffer of its
\* caller only.  (A held write with no byte is dropped.)  A transaction that
\* fails has been on the bus in part, and ends the process.
Bus == INSTANCE I2CBus WITH session <- Session, MayCut <- FALSE
ImplementsBus == Bus!Spec

-----------------------------------------------------------------------------
(* The inductive invariant behind TypeOK, HeapOwned and KernelMemory: what   *)
(* the driver has collected at each point of a call.                         *)

AddressAsserted == op # NoOp => op.addr < AddressLimit

\* An address in msg[OUT_MSG] means a live outbuf, which the message describes.
OutMsgOfOutbuf ==
  /\ outMsg.addr \in 0..127 \cup {NO_ADDR}
  /\ IF outbuf = NULL
       THEN outMsg.addr = NO_ADDR
       ELSE outMsg.buf = outbuf /\ outMsg.flags = 0 /\ outMsg.len = Len(mem[outbuf]) % U16

\* Between calls: no session, an address byte only, or a held write.
BetweenCalls ==
  call \in {"none", "start"} =>
    \/ func = "free" /\ outbuf = NULL
    \/ func = "sendByte" /\ outbuf # NULL /\ outMsg.addr = NO_ADDR
    \/ func = "sendData" /\ outMsg.addr # NO_ADDR

AfterStart ==
  call = "sendByte" => func = "start" /\ (outMsg.addr # NO_ADDR => inMsg.addr = outMsg.addr)

AfterAddress ==
  call = "sendData" =>
    /\ op.kind = "write" /\ op.data # <<>>
    /\ func = "sendByte" /\ outMsg.addr = NO_ADDR
    /\ outbuf # NULL /\ mem[outbuf] = <<AddressByte>>

\* A read goes on with the held write of its own device, or with none.
ReadAddressed ==
  outMsg.addr # NO_ADDR => outMsg.addr = op.addr /\ inMsg.addr = op.addr

BeforeReceive ==
  call = "receiveData" => op.kind = "read" /\ func = "sendByte" /\ ReadAddressed

BeforeStop ==
  call = "stop" =>
    \/ /\ op.kind = "write" /\ op.stop
       /\ \/ op.data = <<>> /\ func = "sendByte" /\ outMsg.addr = NO_ADDR
          \/ /\ op.data # <<>> /\ op.given /\ func = "sendData"
             /\ outMsg.addr = op.addr /\ mem[outbuf] = op.data
    \/ /\ op.kind = "read" /\ func = "receiveData" /\ ReadAddressed
       /\ inMsg.flags = I2C_M_RD /\ inMsg.len = op.len % U16 /\ inMsg.buf = op.buf

IInv ==
  /\ TypeOK /\ HeapOwned
  /\ AddressAsserted /\ OutMsgOfOutbuf /\ BetweenCalls /\ AfterStart
  /\ AfterAddress /\ BeforeReceive /\ BeforeStop
-----------------------------------------------------------------------------
(* What the source's comments say, and the runs refute. *)

\* i2c_write's comment "Send the rest - if there is any": a write with no
\* bytes after the address is a legal call and is not rejected.
EmptyWriteAccepted ==
  [][op # NoOp /\ op.kind = "write" /\ op.data = <<>> /\ Session = <<>> => status' # "rejected"]_vars
=============================================================================
