---------------------------- MODULE RegisterFile ----------------------------
(***************************************************************************)
(* What the functions of ehwe_i2c_device.c promise their callers: the      *)
(* registers of the devices on the bus, read and written one operation at  *)
(* a time.  An operation is invoked, takes effect in one step, and         *)
(* returns; a read returns what the registers held in that step.  The      *)
(* process may end at any point instead; the write it was in has then      *)
(* stored its first bytes, or none, or all.                                *)
(***************************************************************************)
EXTENDS Integers, Sequences

CONSTANTS
  Operation,    \* what the callers invoke
  Registers,    \* the register numbers of a device, 0..n
  NoOperation

VARIABLES
  regs,         \* regs[a][r]: register r of the device with address a
  pending,      \* the operation in progress, or NoOperation
  served,       \* it has taken effect
  value,        \* ... and a read has found these bytes
  result,       \* what the last operation returned
  alive

vars == <<regs, pending, served, value, result, alive>>

\* Consecutive accesses move on to the next register, and around.
Register(r, i) == (r + i - 1) % (1 + CHOOSE m \in Registers : \A x \in Registers : x <= m)

Read(a, r, n) == [i \in 1..n |-> regs[a][Register(r, i)]]

\* Device a after bytes are written from register r on; the last one written
\* to a register stays.
Written(a, r, bytes) ==
  [x \in Registers |->
     LET hits == {i \in 1..Len(bytes) : Register(r, i) = x}
     IN IF hits = {} THEN regs[a][x]
        ELSE bytes[CHOOSE i \in hits : \A j \in hits : j <= i]]

\* A number of n bytes, four at most, as it lies in memory, least significant
\* byte first.
Bytes(v, n) == [i \in 1..n |-> (v \div 256^(i-1)) % 256]
Number(bytes) ==
  LET digit(i) == IF i <= Len(bytes) THEN bytes[i] ELSE 0
  IN digit(1) + 256 * (digit(2) + 256 * (digit(3) + 256 * digit(4)))

Payload(o) == IF o.kind = "write_bytes" THEN o.data ELSE Bytes(o.val, o.count)
Answer(o) == IF o.kind = "read_uint" THEN <<Number(value)>> ELSE value

Init ==
  /\ pending = NoOperation /\ served = FALSE /\ value = <<>> /\ result = <<>>
  /\ alive = TRUE

Invoke ==
  /\ alive /\ pending = NoOperation
  /\ pending' \in Operation
  /\ UNCHANGED <<regs, served, value, result, alive>>

Effect ==
  /\ alive /\ pending # NoOperation /\ ~served
  /\ served' = TRUE
  /\ IF pending.kind \in {"read_bytes", "read_uint"}
       THEN /\ value' = Read(pending.addr, pending.reg, pending.count)
            /\ UNCHANGED regs
       ELSE /\ regs' = [regs EXCEPT ![pending.addr] =
                          Written(pending.addr, pending.reg, Payload(pending))]
            /\ UNCHANGED value
  /\ UNCHANGED <<pending, result, alive>>

Respond ==
  /\ alive /\ served
  /\ result' = IF pending.kind \in {"read_bytes", "read_uint"} THEN Answer(pending) ELSE <<>>
  /\ pending' = NoOperation /\ served' = FALSE /\ value' = <<>>
  /\ UNCHANGED <<regs, alive>>

Die ==
  /\ alive /\ alive' = FALSE
  /\ \/ UNCHANGED regs
     \/ /\ pending # NoOperation /\ ~served
        /\ pending.kind \in {"write_bytes", "write_uint"}
        /\ \E n \in 0..Len(Payload(pending)) :
             regs' = [regs EXCEPT ![pending.addr] =
                        Written(pending.addr, pending.reg, SubSeq(Payload(pending), 1, n))]
  /\ UNCHANGED <<pending, served, value, result>>

Next == Invoke \/ Effect \/ Respond \/ Die
Spec == Init /\ [][Next]_vars
=============================================================================
