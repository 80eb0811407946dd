---------------------------- MODULE WecomChannel ----------------------------
(***************************************************************************)
(* The WeCom adapter, transport/wecom.rs, between the platform and the     *)
(* dispatcher: a detached task per transport keeps a WebSocket and passes  *)
(* messages in and replies out through two channels; the platform allows a *)
(* bot one connection and kicks the older one, which the adapter reports   *)
(* as TokenRejected, so that the run loop builds the next transport.       *)
(*                                                                         *)
(* Transports are numbered as they are built, and each opens the session   *)
(* store of its number.  Messages are numbered in the order the users send *)
(* them; a number stands for the message, its req_id, its turn and the     *)
(* session id that turn ends with.  A reply is the number of its turn and  *)
(* its place among that turn's replies.  The platform is external.         *)
(***************************************************************************)
EXTENDS Naturals, Sequences, FiniteSets, FiniteSetsExt, Functions

CONSTANTS
  Arrivals,   \* bound: messages the users send
  ChatOf,     \* the chat of each message
  MaxGens,    \* bound: transports ever built
  MaxReplies, \* bound: replies of the turn of each message
  MapMax      \* WECOM_REQ_MAP_MAX, 1024 in the code

Msg == 1 .. Arrivals
Gen == 1 .. MaxGens
Reply == [turn : Msg, part : Nat \ {0}]
Chat == { ChatOf[m] : m \in Msg }
NoGen == 0
Fresh == 0
KickEvent == 0

ASSUME WecomAssumption ==
  /\ Arrivals \in Nat
  /\ DOMAIN ChatOf = Msg
  /\ MaxReplies \in [Msg -> Nat \ {0}]
  /\ {MaxGens, MapMax} \subseteq Nat \ {0}

VARIABLES
  alive,      \* the process runs
  gen,        \* the transport the run loop polls
  conn,       \* the WebSocket of each transport's worker task
  inbound,    \* inbound channel of each transport
  replies,    \* reply channel of each transport
  order,      \* req ids each transport can map to their chat, oldest first
  status,     \* what became of each message
  home,       \* the transport that received it
  given,      \* the session id it was handed to the dispatcher with
  said,       \* replies sent so far by each turn that runs
  named,      \* turns whose session id was stored
  delivered,  \* replies written to a socket, in order
  file, mem, opened, dirty, throttled, writer  \* see SessionStore

Sessions == INSTANCE SessionStore
              WITH Store <- Gen, Conv <- Chat, Session <- Msg,
                   NoSession <- Fresh, NoStore <- NoGen

channelVars == <<inbound, replies, delivered>>
messageVars == <<order, status, home, given, said, named>>
storeVars == <<file, mem, opened, dirty, throttled, writer>>
vars == <<alive, gen, conn, channelVars, messageVars, storeVars>>

ConnStates == {"unborn", "down", "up", "kicked", "stale", "dead"}
Statuses == {"unsent", "inbound", "waiting", "running", "done", "lost"}

Connected(g) == conn[g] \in {"up", "kicked", "stale"}

(* The Arc<dyn Transport> is held by the pump and by the session workers   *)
(* that still have messages of this transport.                             *)
Held(g) ==
  \/ g = gen
  \/ \E m \in Msg : home[m] = g /\ status[m] \in {"waiting", "running"}

Init ==
  /\ alive = FALSE
  /\ gen = NoGen
  /\ conn = [g \in Gen |-> "unborn"]
  /\ inbound = [g \in Gen |-> <<>>]
  /\ replies = [g \in Gen |-> <<>>]
  /\ delivered = <<>>
  /\ order = [g \in Gen |-> <<>>]
  /\ status = [m \in Msg |-> "unsent"]
  /\ home = [m \in Msg |-> NoGen]
  /\ given = [m \in Msg |-> Fresh]
  /\ said = [m \in Msg |-> 0]
  /\ named = {}
  /\ Sessions!StoreInit

-----------------------------------------------------------------------------
(* The process and its transports                                          *)

(* new_with_session_store_path: a store, two channels and a detached task. *)
BuildTransport ==
  /\ gen < MaxGens
  /\ gen' = gen + 1
  /\ conn' = [conn EXCEPT ![gen + 1] = "down"]
  /\ Sessions!OpenStore(gen + 1)

Start ==
  /\ ~ alive /\ opened = {}
  /\ alive' = TRUE
  /\ BuildTransport
  /\ UNCHANGED <<channelVars, messageVars>>

(* The process ends with all its tasks; their stores are dropped after it  *)
(* in any order, or, if it was killed, not at all.                         *)
EndProcess ==
  /\ alive
  /\ alive' = FALSE
  /\ conn' = [g \in Gen |-> IF conn[g] = "unborn" THEN "unborn" ELSE "dead"]
  /\ inbound' = [g \in Gen |-> <<>>]
  /\ replies' = [g \in Gen |-> <<>>]
  /\ status' = [m \in Msg |-> IF status[m] \in {"inbound", "waiting", "running"}
                              THEN "lost" ELSE status[m]]
  /\ said' = [m \in Msg |-> 0]
  /\ UNCHANGED <<gen, delivered, order, home, given, named>>

Exit == EndProcess /\ UNCHANGED storeVars
Kill == EndProcess /\ Sessions!Killed

DropStore(g) ==
  /\ ~ alive
  /\ Sessions!DropStore(g)
  /\ UNCHANGED <<alive, gen, conn, channelVars, messageVars>>

IntervalEnds(g) ==
  /\ Sessions!IntervalEnds(g)
  /\ UNCHANGED <<alive, gen, conn, channelVars, messageVars>>

-----------------------------------------------------------------------------
(* The worker task: run and run_once                                       *)

(* Subscribed; the platform kicks the connection it had.                   *)
Connect(g) ==
  /\ conn[g] = "down"
  /\ conn' = [h \in Gen |-> IF h = g THEN "up"
                            ELSE IF conn[h] = "up" THEN "kicked" ELSE conn[h]]
  /\ UNCHANGED <<alive, gen, channelVars, messageVars, storeVars>>

(* Another process connects with the same bot.                             *)
KickFromOutside(g) ==
  /\ conn[g] = "up"
  /\ conn' = [conn EXCEPT ![g] = "kicked"]
  /\ UNCHANGED <<alive, gen, channelVars, messageVars, storeVars>>

(* The socket closes or fails: sleep, then connect again.                  *)
Disconnect(g) ==
  /\ Connected(g)
  /\ conn' = [conn EXCEPT ![g] = "down"]
  /\ UNCHANGED <<alive, gen, channelVars, messageVars, storeVars>>

(* All reply senders are gone: run_once returns Ok, and run goes round.    *)
SendersGone(g) ==
  /\ ~ Held(g) /\ replies[g] = <<>>
  /\ Disconnect(g)

(* Broken form: the reply is taken off the channel once it is written.     *)
WriteReplyPeeking(g) ==
  /\ Connected(g) /\ replies[g] # <<>>
  /\ delivered' = Append(delivered, Head(replies[g]))
  /\ \/ replies' = [replies EXCEPT ![g] = Tail(@)] /\ UNCHANGED conn
     \/ UNCHANGED replies /\ conn' = [conn EXCEPT ![g] = "down"]
  /\ UNCHANGED <<alive, gen, inbound, messageVars, storeVars>>

(* A reply is taken off the channel first; if the write fails it is gone.  *)
WriteReply(g) ==
  /\ Connected(g) /\ replies[g] # <<>>
  /\ replies' = [replies EXCEPT ![g] = Tail(@)]
  /\ \/ delivered' = Append(delivered, Head(replies[g])) /\ UNCHANGED conn
     \/ delivered' \in {delivered, Append(delivered, Head(replies[g]))}
        /\ conn' = [conn EXCEPT ![g] = "down"]
  /\ UNCHANGED <<alive, gen, inbound, messageVars, storeVars>>

(* Frames are read when no reply waits: the select is biased to replies.   *)
Reads(g) == Held(g) /\ replies[g] = <<>>

(* Nothing behind a kick event is ever polled, nor on the channel of an    *)
(* earlier transport: such entries are not recorded.                       *)
Put(g, x) ==
  IF g # gen \/ KickEvent \in Range(inbound[g])
  THEN UNCHANGED inbound
  ELSE inbound' = [inbound EXCEPT ![g] = Append(@, x)]

(* Broken forms: the table is cut one id early, or one id late.            *)
RegisterShort(q, m) ==
  IF Len(q) + 1 >= MapMax /\ q # <<>> THEN Append(Tail(q), m) ELSE Append(q, m)
RegisterLate(q, m) ==
  IF Len(q) > MapMax THEN Append(Tail(q), m) ELSE Append(q, m)

(* inbound_session: a FIFO of req ids, the oldest forgotten.               *)
Register(q, m) ==
  IF Len(q) >= MapMax THEN Append(Tail(q), m) ELSE Append(q, m)

(* aibot_msg_callback for the next message of the users; on a kicked       *)
(* connection one that was under way before disconnected_event.            *)
ReadMessage(g, m) ==
  /\ conn[g] \in {"up", "kicked"} /\ Reads(g)
  /\ status[m] = "unsent" /\ \A n \in 1 .. m - 1 : status[n] # "unsent"
  /\ order' = [order EXCEPT ![g] = Register(@, m)]
  /\ given' = [given EXCEPT ![m] = Sessions!Lookup(g, ChatOf[m])]
  /\ Put(g, m)
  /\ status' = [status EXCEPT ![m] = "inbound"]
  /\ home' = [home EXCEPT ![m] = g]
  /\ UNCHANGED <<alive, gen, conn, replies, delivered, said, named, storeVars>>

(* disconnected_event on a connection that was kicked.                     *)
ReadKickEvent(g) ==
  /\ conn[g] = "kicked" /\ Reads(g)
  /\ conn' = [conn EXCEPT ![g] = "stale"]
  /\ Put(g, KickEvent)
  /\ UNCHANGED <<alive, gen, replies, delivered, messageVars, storeVars>>

-----------------------------------------------------------------------------
(* The dispatcher's side: next_inbound and send_reply                      *)

NextMessage ==
  /\ alive /\ inbound[gen] # <<>> /\ Head(inbound[gen]) # KickEvent
  /\ inbound' = [inbound EXCEPT ![gen] = Tail(@)]
  /\ status' = [status EXCEPT ![Head(inbound[gen])] = "waiting"]
  /\ UNCHANGED <<alive, gen, conn, replies, delivered, order, home, given, said, named,
                 storeVars>>

(* TokenRejected: on to the next transport; this one is polled no more.    *)
NextTokenRejected ==
  /\ alive /\ inbound[gen] # <<>> /\ Head(inbound[gen]) = KickEvent
  /\ inbound' = [inbound EXCEPT ![gen] = Tail(@)]
  /\ BuildTransport
  /\ UNCHANGED <<alive, replies, delivered, messageVars>>

(* One turn at a time for a chat, by its dispatch_key, in arrival order.   *)
TurnStarts(m) ==
  /\ status[m] = "waiting"
  /\ \A n \in 1 .. m - 1 : home[n] = home[m] /\ ChatOf[n] = ChatOf[m] =>
       status[n] \notin {"waiting", "running"}
  /\ status' = [status EXCEPT ![m] = "running"]
  /\ UNCHANGED <<alive, gen, conn, channelVars, order, home, given, said, named,
                 storeVars>>

(* send_reply puts a text on the channel of the message's transport.       *)
Said(m) ==
  [replies EXCEPT ![home[m]] = Append(@, [turn |-> m, part |-> said[m] + 1])]

(* A part of the answer, or the text of an event, before the last one.     *)
TurnReplies(m) ==
  /\ status[m] = "running" /\ said[m] + 1 < MaxReplies[m]
  /\ replies' = Said(m)
  /\ said' = [said EXCEPT ![m] = @ + 1]
  /\ UNCHANGED <<alive, gen, conn, inbound, delivered, order, status, home, given, named,
                 storeVars>>

(* The last send_reply of a turn: the session id, if there is one, is      *)
(* stored before the text, if there is any, is put on the channel.         *)
TurnEnds(m) ==
  /\ status[m] = "running"
  /\ status' = [status EXCEPT ![m] = "done"]
  /\ \/ /\ m \in Range(order[home[m]])
        /\ Sessions!Remember(home[m], ChatOf[m], m)
        /\ named' = named \cup {m}
     \/ UNCHANGED <<named, storeVars>>
  /\ replies' \in {replies, Said(m)}
  /\ said' = [said EXCEPT ![m] = 0]
  /\ UNCHANGED <<alive, gen, conn, inbound, delivered, order, home, given>>

-----------------------------------------------------------------------------
Next ==
  \/ Start
  \/ Exit
  \/ Kill
  \/ NextMessage
  \/ NextTokenRejected
  \/ \E g \in Gen :
       \/ DropStore(g)
       \/ IntervalEnds(g)
       \/ Connect(g)
       \/ KickFromOutside(g)
       \/ Disconnect(g)
       \/ SendersGone(g)
       \/ WriteReply(g)
       \/ ReadKickEvent(g)
       \/ \E m \in Msg : ReadMessage(g, m)
  \/ \E m \in Msg : TurnStarts(m) \/ TurnReplies(m) \/ TurnEnds(m)

Spec == Init /\ [][Next]_vars

-----------------------------------------------------------------------------
(* Properties                                                              *)

TypeOK ==
  /\ alive \in BOOLEAN
  /\ gen \in Gen \cup {NoGen}
  /\ conn \in [Gen -> ConnStates]
  /\ inbound \in [Gen -> Seq(Msg \cup {KickEvent})]
  /\ replies \in [Gen -> Seq(Reply)]
  /\ order \in [Gen -> Seq(Msg)] /\ \A g \in Gen : Len(order[g]) <= MapMax
  /\ status \in [Msg -> Statuses]
  /\ home \in [Msg -> Gen \cup {NoGen}]
  /\ given \in [Msg -> Msg \cup {Fresh}]
  /\ said \in [Msg -> Nat]
  /\ named \subseteq Msg
  /\ delivered \in Seq(Reply)
  /\ Sessions!StoreTypeOK

SameChat(m, n) == home[m] = home[n] /\ ChatOf[m] = ChatOf[n]

(* The order of the replies of a chat: never is a reply before itself.     *)
Before(a, b) ==
  SameChat(a.turn, b.turn) =>
    a.turn < b.turn \/ (a.turn = b.turn /\ a.part < b.part)

(* Whatever connections come and go, no reply is written twice, and those  *)
(* of a chat that went through the same transport appear in order: turn by *)
(* turn, and within a turn as they were sent.                              *)
RepliesOnceInOrder ==
  \A i, j \in DOMAIN delivered : i < j => Before(delivered[i], delivered[j])

(* A turn's reply still finds its chat unless as many newer messages as    *)
(* the table holds came in meanwhile.                                      *)
ReplyFindsItsChat ==
  \A m \in Msg :
    /\ status[m] \in {"inbound", "waiting", "running"}
    /\ Cardinality({ n \in Msg : n > m /\ home[n] = home[m] }) < MapMax
    => m \in Range(order[home[m]])

(* The turns of a chat on one transport that stored their session.         *)
NamedBefore(m, g) ==
  { n \in named : n < m /\ home[n] = g /\ ChatOf[n] = ChatOf[m] }

(* A message that comes when its chat is quiet is handed to the dispatcher *)
(* with the session the chat's last turn on this transport ended with.     *)
SpacedTurnsResume ==
  [][\A m \in Msg, g \in Gen :
       /\ status[m] = "unsent" /\ status'[m] = "inbound" /\ home'[m] = g
       /\ NamedBefore(m, g) # {}
       /\ \A n \in 1 .. m - 1 : home[n] = g /\ ChatOf[n] = ChatOf[m] =>
            status[n] = "done"
       => given'[m] = Max(NamedBefore(m, g))]_vars

(* The file has what the store that wrote it last believes saved.          *)
CleanMeansSaved == Sessions!CleanMeansSaved

=============================================================================
