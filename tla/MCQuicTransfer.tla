--------------------------- MODULE MCQuicTransfer ---------------------------
(* QuicTransfer for TLC; the configurations give every constant its value.  *)
EXTENDS QuicTransfer
=============================================================================
