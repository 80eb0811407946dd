---------------------------- MODULE MCReplyTurn ----------------------------
(* Instances of ReplyTurn: its constants are plain numbers, so the .cfg    *)
(* files give them directly.                                               *)
EXTENDS ReplyTurn
=============================================================================
