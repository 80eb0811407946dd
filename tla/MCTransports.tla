---------------------------- MODULE MCTransports ----------------------------
(* A small instance of Transports.                                         *)
EXTENDS Transports

TokenLives == {4, 5}
=============================================================================
