----------------------------- MODULE MCI2cDevice ----------------------------
(* A small instance of I2cDevice. *)
EXTENDS I2cDevice, FiniteSets

CONSTANT MaxBytes   \* bound: bytes of one access, behind the register

MCByte == {0, 1}
MCData == UNION {[1..n -> MCByte] : n \in 0..1 + MaxBytes}
MCUserBuf == {Local}

\* The calls of ehwe.c these accesses make, and no others.
MCRequests ==
  {SelectOp(o) : o \in {p \in AllOperations : Reading(p)}} \cup
  {ReadAllOp(o) : o \in {p \in AllOperations : Reading(p)}} \cup
  {WriteAllOp(o) : o \in {p \in AllOperations : ~Reading(p)}}
=============================================================================
