----------------------------- MODULE I2cDevice ------------------------------
(***************************************************************************)
(* The register accesses of src/apis/ehwe_i2c_device.c on top of the       *)
(* i2c-dev driver: device handles, and read_bytes, read_uint8/16/32,       *)
(* write_bytes, write_uint8/16/32, each of them one or two calls of ehwe.c *)
(* with the driver's methods below.  The devices themselves are external:  *)
(* an I2C memory that takes the first byte of a write as the number of a   *)
(* register, as the comments of the source describe it.                    *)
(***************************************************************************)
EXTENDS LxiI2c

CONSTANTS
  Handle,       \* addresses malloc may return for a struct i2c_device_struct
  Addresses,    \* what i2c_device_open is given
  Attached,     \* addresses with a device on the bus
  Registers,    \* the registers of each of them
  Values,       \* numbers written
  Widths,       \* sizes of the numbers read and written: 1, 2, 4
  Counts,       \* numbers of bytes of read_bytes and write_bytes
  Local,        \* the val or buf on the stack of a read function
  NoOperation,
  Closed        \* a handle that is not allocated

ASSUME DeviceAssumption ==
  /\ Addresses \subseteq Byte /\ Attached \subseteq 0..127
  /\ Registers \subseteq Byte /\ Widths \subseteq {1, 2, 4}
  /\ Values \subseteq Nat /\ Counts \subseteq Byte
  /\ Local \in UserBuf /\ Closed \notin Addresses
  /\ U16 > 256      \* a register and a uint8_t of bytes behind it fit

VARIABLES
  device,       \* device[h].addr, or Closed
  operation,    \* the function in progress, or NoOperation
  phase,        \* its next step: "select", "transfer", "return"
  result,       \* what the last one returned
  regs          \* the devices' registers

deviceVars == <<device, operation, phase, result>>
allVars == <<vars, deviceVars, regs>>

Kinds == {"read_bytes", "read_uint", "write_bytes", "write_uint"}
Reading(o) == o.kind \in {"read_bytes", "read_uint"}

\* Mutant: most significant byte first.
StoredBigEndian(v, n) == [k \in 1..n |-> (v \div 256^(n - k)) % 256]

\* Stores and loads through a pointer to an n-byte number on the host, a
\* little-endian one.
Stored(v, n) == [i \in 1..n |-> (v \div 256^(i - 1)) % 256]
Loaded(bytes) ==
  LET from[i \in 1..Len(bytes) + 1] ==
        IF i > Len(bytes) THEN 0 ELSE bytes[i] + 256 * from[i + 1]
  IN from[1]

\* What the functions pass to i2c_write: the register, and what follows it.
\* For write_bytes this is tbuf.
Payload(o) == CASE o.kind = "write_bytes" -> o.data
              [] o.kind = "write_uint"  -> Stored(o.val, o.count)
\* Mutants: STOP after the register was sent; none after a write.
SelectOpStop(o) == [kind |-> "write", addr |-> o.addr, data |-> <<o.reg>>,
                    given |-> TRUE, stop |-> TRUE]
WriteAllOpHeld(o) ==
  [kind |-> "write", addr |-> o.addr, data |-> <<o.reg>> \o Payload(o),
   given |-> TRUE, stop |-> FALSE]

SelectOp(o) == [kind |-> "write", addr |-> o.addr, data |-> <<o.reg>>,
                given |-> TRUE, stop |-> FALSE]
WriteAllOp(o) ==
  [kind |-> "write", addr |-> o.addr, data |-> <<o.reg>> \o Payload(o),
   given |-> TRUE, stop |-> TRUE]
ReadAllOp(o) == [kind |-> "read", addr |-> o.addr, len |-> o.count, buf |-> Local]

\* The accesses there are; the calls of ehwe.c they make are possible ones.
AllOperations ==
       [kind : {"read_bytes"}, addr : Addresses, reg : Registers, count : Counts]
  \cup [kind : {"read_uint"}, addr : Addresses, reg : Registers, count : Widths]
  \cup [kind : {"write_bytes"}, addr : Addresses, reg : Registers,
        data : {d \in Data : Len(d) \in Counts}]
  \cup [kind : {"write_uint"}, addr : Addresses, reg : Registers, count : Widths, val : Values]

ASSUME CallsAssumption ==
  /\ NoOperation \notin AllOperations
  /\ <<>> \in Data
  /\ \A o \in AllOperations :
       IF Reading(o) THEN {SelectOp(o), ReadAllOp(o)} \subseteq Requests
                     ELSE WriteAllOp(o) \in Requests

DeviceInit ==
  /\ Init /\ user[Local] = <<>>
  /\ device = [h \in Handle |-> Closed]
  /\ operation = NoOperation /\ phase = "select" /\ result = <<>>
  /\ regs \in [Attached -> [Registers -> {0}]]

Idle == Running /\ operation = NoOperation

\* i2c_device_open; the address is not looked at.
Open(h, a) ==
  /\ Idle /\ device[h] = Closed
  /\ device' = [device EXCEPT ![h] = a]
  /\ UNCHANGED <<operation, phase, result, regs, vars>>

\* i2c_device_close
Close(h) ==
  /\ Idle /\ device[h] # Closed
  /\ device' = [device EXCEPT ![h] = Closed]
  /\ UNCHANGED <<operation, phase, result, regs, vars>>

Begin(h, o) ==
  /\ Idle /\ device[h] # Closed /\ o.addr = device[h]
  /\ operation' = o
  /\ phase' = IF Reading(o) THEN "select" ELSE "transfer"
  /\ UNCHANGED <<device, result, regs, vars>>

ReadBytes(h) == \E r \in Registers, n \in Counts :
  Begin(h, [kind |-> "read_bytes", addr |-> device[h], reg |-> r, count |-> n])
ReadUint(h) == \E r \in Registers, n \in Widths :
  Begin(h, [kind |-> "read_uint", addr |-> device[h], reg |-> r, count |-> n])
WriteBytes(h) == \E r \in Registers, bytes \in Data :
  /\ Len(bytes) \in Counts
  /\ Begin(h, [kind |-> "write_bytes", addr |-> device[h], reg |-> r, data |-> bytes])
WriteUint(h) == \E r \in Registers, n \in Widths, v \in Values :
  /\ v < 256^n
  /\ Begin(h, [kind |-> "write_uint", addr |-> device[h], reg |-> r, count |-> n, val |-> v])

\* "Send which register to start access, omit STOP".
Select ==
  /\ Running /\ operation # NoOperation /\ op = NoOp /\ phase = "select"
  /\ Enter(SelectOp(operation))
  /\ phase' = "transfer"
  /\ UNCHANGED <<device, operation, result, regs, driverVars, user, wire>>

\* The i2c_read, or the one i2c_write of a writing function.
Transfer ==
  /\ Running /\ operation # NoOperation /\ op = NoOp /\ phase = "transfer"
  /\ Enter(IF Reading(operation) THEN ReadAllOp(operation) ELSE WriteAllOp(operation))
  /\ phase' = "return"
  /\ UNCHANGED <<device, operation, result, regs, driverVars, user, wire>>

\* The function returns, and its stack frame is gone.
Finish ==
  /\ Running /\ op = NoOp /\ phase = "return"
  /\ result' = CASE operation.kind = "read_bytes" -> user[Local]
                 [] operation.kind = "read_uint"  -> <<Loaded(user[Local])>>
                 [] OTHER -> <<>>
  /\ operation' = NoOperation /\ phase' = "select"
  /\ user' = [user EXCEPT ![Local] = <<>>]
  /\ UNCHANGED <<device, regs, ehweVars, driverVars, wire>>
-----------------------------------------------------------------------------
(* The devices on the bus (external). *)

\* The i-th register of an access that starts at r: consecutive, and around.
RegisterAt(r, i) == (r + i - 1) % (1 + CHOOSE m \in Registers : \A x \in Registers : x <= m)

\* Device a after the bytes of one write message, the first being a register.
Stores(contents, r, bytes) ==
  LET after[i \in 0..Len(bytes)] ==
        IF i = 0 THEN contents
                 ELSE [after[i - 1] EXCEPT ![RegisterAt(r, i)] = bytes[i]]
  IN after[Len(bytes)]

\* What of a transaction the kernel has put on the bus is carried out by its
\* device, byte by byte: all of it, or as much as was sent before it failed.
Carried(transaction) ==
  LET a == transaction[1].addr
      sent == transaction[1].data
  IN IF transaction = <<>> \/ sent = <<>>
       THEN UNCHANGED regs
       ELSE /\ a \in Attached
            /\ regs' = [regs EXCEPT ![a] = Stores(@, Head(sent), Tail(sent))]
            /\ Len(transaction) = 2 =>
                 \A i \in 1..transaction[2].len :
                   transaction[2].data[i] = regs'[a][RegisterAt(Head(sent), i)]

Below ==
  \/ /\ Start \/ SendReadAddress \/ SendByte \/ SendData \/ WithoutBuffer \/ ReceiveData
        \/ StopRejected
     /\ UNCHANGED <<regs, deviceVars>>
  \/ (Stop \/ StopFailed) /\ Carried(wire') /\ UNCHANGED deviceVars

Access ==
  \E h \in Handle :
    \/ \E a \in Addresses : Open(h, a)
    \/ Close(h) \/ ReadBytes(h) \/ ReadUint(h) \/ WriteBytes(h) \/ WriteUint(h)

DeviceNext ==
  \/ Access \/ Select \/ Transfer \/ Finish \/ Below
  \/ ~Running /\ UNCHANGED allVars

DeviceSpec == DeviceInit /\ [][DeviceNext]_allVars
-----------------------------------------------------------------------------
(* Properties *)

\* No sequence of register accesses runs into the restrictions of the driver
\* (one held write only, a read of the same device, no empty write): of the
\* driver's checks and ehwe.c's only the one of a 7-bit address ever stops it.
OnlyBadAddressRejected ==
  status = "rejected" => operation # NoOperation /\ operation.addr >= 128

\* Every access leaves the driver without a session: an access through one
\* handle never continues that of another.
NoSessionLeft == Idle => Session = <<>> /\ func = "free" /\ outbuf = NULL

\* The functions are the accesses of a register file: each takes effect in
\* one step on the registers of its own device, and a read returns what they
\* held then - the whole stack of API, ehwe.c, driver and kernel in between.
\* Where the transaction fails, a write has stored its first bytes and nothing
\* else has changed.
Served == phase = "return" /\ op = NoOp /\ Running
File == INSTANCE RegisterFile WITH
          Operation <- AllOperations, pending <- operation, served <- Served,
          value <- IF Served /\ Reading(operation) THEN user[Local] ELSE <<>>,
          alive <- Running
ImplementsFile == File!Spec
=============================================================================
