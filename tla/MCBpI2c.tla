------------------------------- MODULE MCBpI2c ------------------------------
(* A small instance of BpI2c: device bytes 0 and 1 look like answers. *)
EXTENDS BpI2c

CONSTANTS Addresses, ReadLengths, u1

MCUserBuf == {u1}
MCDeviceByte == {0, 1}
MCData == UNION {[1..n -> MCDeviceByte] : n \in 0..2}
MCStale == {<<>>, <<0>>, <<1>>, <<1, 1>>, <<1, 0>>, <<1, 1, 1, 1>>,
            <<67, 49>>}   \* "C1" of "I2C1"

Writes ==
  {o \in [kind : {"write"}, addr : Addresses, data : {<<>>, <<0>>, <<1, 0>>},
          given : BOOLEAN, stop : BOOLEAN] : ~o.given => o.data = <<0>>}
Reads == [kind : {"read"}, addr : Addresses, len : ReadLengths, buf : MCUserBuf]
AllRequests == Writes \cup Reads
=============================================================================
