------------------------------- MODULE I2CBus -------------------------------
(***************************************************************************)
(* What i2c_write and i2c_read (src/apis/ehwe.c) promise their caller,     *)
(* whatever adapter is behind the bus.  A call made without a final STOP   *)
(* adds a message to the session; the call that ends in STOP puts the      *)
(* whole session, its own message last, on the wire as one transaction.    *)
(* An adapter that sees the device's NACKs cuts a write short at one, and  *)
(* the caller is not told; the others send every byte.                     *)
(* A read hands the bytes of its own transaction to its own caller's       *)
(* buffer and touches no other.  The program may abort at any moment       *)
(* (ehwe.c and the drivers end the process on any error); how much of the  *)
(* transaction of the call that failed was carried out is then not known,  *)
(* and nothing more is put on the wire.                                    *)
(***************************************************************************)
EXTENDS I2CMessages

CONSTANTS
  Requests,   \* the calls the program above makes
  Data,       \* the byte strings a device may send
  UserBuf,    \* the callers' receive buffers
  NoOp,       \* no call in progress
  MayCut      \* whether a write may end early, at a byte the device NACKs

VARIABLES
  op,         \* the call in progress, or NoOp
  session,    \* messages of the calls completed since the last STOP
  wire,       \* the last transaction that was ended by a STOP, or given up
  user,       \* contents of the callers' receive buffers
  status      \* "running", or how the process ended

busVars == <<op, session, wire, user, status>>

\* The bytes of a write that reach the wire.
Sent(data) ==
  IF MayCut THEN {SubSeq(data, 1, n) : n \in 0..Len(data)} ELSE {data}

Init ==
  /\ op = NoOp
  /\ session = <<>>
  /\ wire = <<>>
  /\ user \in [UserBuf -> Data]
  /\ status = "running"

Request ==
  /\ status = "running" /\ op = NoOp
  /\ op' \in Requests
  /\ UNCHANGED <<session, wire, user, status>>

HoldWrite ==
  /\ status = "running" /\ op # NoOp
  /\ op.kind = "write" /\ ~op.stop
  /\ \E data \in Sent(op.data) : session' = Append(session, Message(0, op.addr, data))
  /\ op' = NoOp
  /\ UNCHANGED <<wire, user, status>>

StopWrite ==
  /\ status = "running" /\ op # NoOp
  /\ op.kind = "write" /\ op.stop
  /\ \E data \in Sent(op.data) : wire' = Append(session, Message(0, op.addr, data))
  /\ session' = <<>>
  /\ op' = NoOp
  /\ UNCHANGED <<user, status>>

StopRead ==
  /\ status = "running" /\ op # NoOp
  /\ op.kind = "read"
  /\ \E data \in Data :
       /\ Len(data) = op.len
       /\ wire' = Append(session, Message(I2C_M_RD, op.addr, data))
       /\ user' = [user EXCEPT ![op.buf] = data]
  /\ session' = <<>>
  /\ op' = NoOp
  /\ UNCHANGED status

\* The messages with which the call in progress may end the session.
LastMessages ==
  IF op.kind = "write"
    THEN {Message(0, op.addr, data) : data \in {d \in Sent(op.data) : op.stop}}
    ELSE {Message(I2C_M_RD, op.addr, data) : data \in {d \in Data : Len(d) = op.len}}

Abort ==
  /\ status = "running"
  /\ status' \in {"rejected", "failed"}
  /\ session' \in {session, <<>>}
  /\ \/ UNCHANGED wire
     \/ op # NoOp /\ \E msg \in LastMessages : wire' \in Begun(Append(session, msg))
  /\ UNCHANGED <<op, user>>

Next == Request \/ HoldWrite \/ StopWrite \/ StopRead \/ Abort

Spec == Init /\ [][Next]_busVars
=============================================================================
