------------------------ MODULE ConversationService ------------------------
(***************************************************************************)
(* What SessionDispatcher promises its users, with no channel, worker or   *)
(* map in sight: each conversation is a line of messages in arrival order, *)
(* served one at a time, and each message leaves it at most once.  A       *)
(* message may be refused at the door, and a line may be dissolved.        *)
(***************************************************************************)
EXTENDS Naturals, Sequences, FiniteSets, Functions

CONSTANTS Msg,      \* messages, numbered in arrival order
          KeyOf(_)  \* the conversation of each

Key == { KeyOf(m) : m \in Msg }

VARIABLES line,     \* the messages in each conversation's line
          serving,  \* the message each conversation is serving, or 0
          gone      \* the messages that were served, refused or dissolved

vars == <<line, serving, gone>>

Init ==
  /\ line = [k \in Key |-> <<>>]
  /\ serving = [k \in Key |-> 0]
  /\ gone = {}

(* The messages of conversation k that ever came to its door.              *)
Seen(k) ==
  { m \in Msg : KeyOf(m) = k /\ m \in gone \cup Range(line[k]) \cup {serving[k]} }

(* A message newer than all its conversation has seen joins the line.      *)
Join(m) ==
  /\ \A n \in Seen(KeyOf(m)) : n < m
  /\ line' = [line EXCEPT ![KeyOf(m)] = Append(@, m)]
  /\ UNCHANGED <<serving, gone>>

Refuse(m) ==
  /\ m \notin Seen(KeyOf(m))
  /\ gone' = gone \cup {m}
  /\ UNCHANGED <<line, serving>>

Serve(k) ==
  /\ serving[k] = 0 /\ line[k] # <<>>
  /\ serving' = [serving EXCEPT ![k] = Head(line[k])]
  /\ line' = [line EXCEPT ![k] = Tail(@)]
  /\ UNCHANGED gone

Finish(k) ==
  /\ serving[k] # 0
  /\ serving' = [serving EXCEPT ![k] = 0]
  /\ gone' = gone \cup {serving[k]}
  /\ UNCHANGED line

Dissolve(k) ==
  /\ serving' = [serving EXCEPT ![k] = 0]
  /\ line' = [line EXCEPT ![k] = <<>>]
  /\ gone' = gone \cup Range(line[k]) \cup ({serving[k]} \ {0})

Next ==
  \/ \E m \in Msg : Join(m) \/ Refuse(m)
  \/ \E k \in Key : Serve(k) \/ Finish(k) \/ Dissolve(k)

Spec == Init /\ [][Next]_vars
=============================================================================
