-------------------------- MODULE MCBridgeManager --------------------------
(* A small instance of BridgeManager: two files with one profile id.       *)
EXTENDS BridgeManager

CONSTANT bot

OneName == [f \in File |-> bot]
=============================================================================
