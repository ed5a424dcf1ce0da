------------------------------ MODULE MCLxiI2c ------------------------------
(* Small instances of LxiI2c. *)
EXTENDS LxiI2c, FiniteSets

CONSTANTS Addresses, ReadLengths, u1, u2

MCUserBuf == {u1, u2}
MCData == {<<>>, <<1>>, <<2, 1, 2>>}

Writes ==
  {o \in [kind : {"write"}, addr : Addresses, data : MCData, given : BOOLEAN, stop : BOOLEAN] :
     ~o.given => Len(o.data) <= 1}
Reads == [kind : {"read"}, addr : Addresses, len : ReadLengths, buf : MCUserBuf]

AllRequests == Writes \cup Reads

\* Those in which every held write has a byte beside the address.
HoldsWithData == {o \in AllRequests : o.kind = "write" /\ ~o.stop => o.data # <<>>}
=============================================================================
