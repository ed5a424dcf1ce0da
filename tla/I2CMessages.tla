---------------------------- MODULE I2CMessages -----------------------------
(***************************************************************************)
(* The messages of an I2C transaction, and how much of one a bus has seen  *)
(* when it fails half way (external: the kernel and the hardware below).   *)
(***************************************************************************)
EXTENDS Integers, Sequences

I2C_M_RD == 1

\* One message of a transaction.
Message(flags, addr, data) ==
  [flags |-> flags, addr |-> addr, len |-> Len(data), data |-> data]

\* The transaction t up to the n-th byte of its m-th message.
Cut(t, m, n) ==
  Append(SubSeq(t, 1, m - 1), Message(t[m].flags, t[m].addr, SubSeq(t[m].data, 1, n)))

\* What has been on the bus of a transaction that failed: nothing, all of it,
\* or its first messages and a part, perhaps the address only, of the next.
Begun(t) ==
  {<<>>, t} \cup UNION {{Cut(t, m, n) : n \in 0..t[m].len} : m \in 1..Len(t)}
=============================================================================
