----------------------------- MODULE MCRunLoop -----------------------------
(* A small instance of RunLoop: three messages, two of them of one chat.   *)
EXTENDS RunLoop

CONSTANTS none, chatA, chatB, tokA, tokB

Keyed(chat, token) ==
  [dispatch_key |-> chat, context_token |-> token, session_name |-> none]

OneChatAndAnother ==
  << Keyed(chatA, tokA), Keyed(chatA, tokB), Keyed(chatB, none) >>
=============================================================================
