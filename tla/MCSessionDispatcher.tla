------------------------ MODULE MCSessionDispatcher ------------------------
(* A small instance of SessionDispatcher: which conversation each of the   *)
(* numbered messages belongs to.                                           *)
EXTENDS SessionDispatcher

CONSTANTS none, chatB, tokA

Keyed(chat, token) ==
  [dispatch_key |-> chat, context_token |-> token, session_name |-> none]
Named(token, name) ==
  [dispatch_key |-> none, context_token |-> token, session_name |-> name]

(* Three conversations for two worker slots.  The first two messages are   *)
(* one session ("default" left out and spelled out); the third is keyed by *)
(* its chat and has no token to reply to; the last is another session of   *)
(* the first token.                                                        *)
ThreeChats == << Named(tokA, none), Named(tokA, "default"),
                 Keyed(chatB, none), Named(tokA, "work") >>
=============================================================================
