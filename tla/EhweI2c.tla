------------------------------ MODULE EhweI2c -------------------------------
(***************************************************************************)
(* i2c_write and i2c_read of src/apis/ehwe.c: the sequence of driver       *)
(* methods each of them calls.  The program has one thread, so a driver    *)
(* method runs to its end; `call' names the method entered next.  A driver *)
(* module extends this one, gives each method an action guarded by         *)
(* Entered(method), and ends that action with Return or ReturnAck: back to *)
(* ehwe.c, up to the entry of the next method or to the caller.            *)
(***************************************************************************)
EXTENDS Integers, Sequences

CONSTANTS
  Requests,   \* the calls the program above makes, of no negative length
  Data,       \* the byte strings that travel on the bus
  UserBuf,    \* the buffers the callers pass to i2c_read
  NoOp        \* no call in progress

Byte == 0..255

\* given: the caller's buffer is not NULL
WriteOp == [kind : {"write"}, addr : Byte, data : Data, given : BOOLEAN, stop : BOOLEAN]
ReadOp  == [kind : {"read"}, addr : Byte, len : Nat, buf : UserBuf]

ASSUME DataAssumption == Data \subseteq Seq(Byte)
ASSUME RequestsAssumption == Requests \subseteq WriteOp \cup ReadOp
ASSUME NoOpAssumption == NoOp \notin WriteOp \cup ReadOp

VARIABLES
  op,         \* the call in progress, or NoOp
  call,       \* the driver method entered next, "none" between calls
  status      \* "running", or how the process ended

ehweVars == <<op, call, status>>

Running == status = "running"
Entered(method) == Running /\ call = method

WRITE_ADDR(a) == (2 * a) % 256
READ_ADDR(a) == (2 * a + 1) % 256

\* Mutant: i2c_read sends the write address.
AddressByteWrites == WRITE_ADDR(op.addr)

\* The byte passed to sendByte, and the length below which the address
\* assertion of both functions holds.
AddressByte == IF op.kind = "write" THEN WRITE_ADDR(op.addr) ELSE READ_ADDR(op.addr)
AddressLimit == 128

EhweInit == op = NoOp /\ call = "none" /\ status = "running"

\* i2c_write or i2c_read is entered: the address is asserted, then START.
\* The role assertion holds by the way the slots of stm32.c are filled.
Enter(o) ==
  /\ Running /\ op = NoOp
  /\ IF o.addr < AddressLimit
       THEN op' = o /\ call' = "start" /\ UNCHANGED status
       ELSE status' = "rejected" /\ UNCHANGED <<op, call>>

\* The tail of i2c_write: STOP if the caller asked for it.
AfterWrite == IF op.stop THEN "stop" ELSE "none"

\* Mutant: the data of a held write are sent again and again.
NextMethodRepeats ==
  CASE call = "start"       -> "sendByte"
    [] call = "sendByte"    -> IF op.kind = "read" THEN "receiveData"
                               ELSE IF Len(op.data) > 0 THEN "sendData"
                               ELSE AfterWrite
    [] call = "sendData"    -> IF op.stop THEN "stop" ELSE "sendData"
    [] call = "receiveData" -> "stop"
    [] call = "stop"        -> "none"

NextMethod ==
  CASE call = "start"       -> "sendByte"
    [] call = "sendByte"    -> IF op.kind = "read" THEN "receiveData"
                               ELSE IF Len(op.data) > 0 THEN "sendData"
                               ELSE AfterWrite
    [] call = "sendData"    -> AfterWrite
    [] call = "receiveData" -> "stop"
    [] call = "stop"        -> "none"

\* The driver method returns and ehwe.c goes on to the next one.
Return ==
  /\ call' = NextMethod
  /\ op' = IF NextMethod = "none" THEN NoOp ELSE op
  /\ UNCHANGED status

\* Mutant: the result of sendByte is not looked at.
ReturnUnchecked(ack) == Return

\* The same for sendByte, whose result is asserted to be an ACK.
ReturnAck(ack) ==
  IF ack = 1 THEN Return
             ELSE status' = "failed" /\ UNCHANGED <<op, call>>

\* i2c_write asserts that there is a buffer before it calls sendData.
NoBuffer ==
  /\ Entered("sendData") /\ ~op.given
  /\ status' = "rejected" /\ UNCHANGED <<op, call>>
=============================================================================
