-------------------------- MODULE MCWecomChannel --------------------------
(* A small instance of WecomChannel: one message of a chat and two of      *)
(* another.                                                                *)
EXTENDS WecomChannel

CONSTANTS chatA, chatB

TwoChats == << chatA, chatB, chatB >>
OneOfTwo == << 1, 2, 1 >>
=============================================================================
