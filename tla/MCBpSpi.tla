------------------------------- MODULE MCBpSpi ------------------------------
(* A small instance of BpSpi: device byte 1 looks like an acknowledgement. *)
EXTENDS BpSpi

CONSTANTS ReadLengths, Stale

\* Sizes that are 4 and 1 as a uint16_t of 5 values.
Negative == {-1, -4}

MCStale == {<<>>} \cup {<<b>> : b \in Stale}

Calls ==
  {SPI_I2S_SendData(TRUE, 258), SPI_I2S_ReceiveData(FALSE)}
  \cup {SPI_I2S_SendDataArray(FALSE, <<>>)}
  \cup {SPI_I2S_SendReceiveData(TRUE, <<7>>, n) : n \in ReadLengths}
  \cup {SPI_I2S_ReceiveDataArray(TRUE, n) : n \in ReadLengths}
  \cup {SPI_I2S_ReceiveDataArray(FALSE, n) : n \in Negative}
  \cup {SPI_I2S_SetCS(state) : state \in {1, 2, 256}}
=============================================================================
