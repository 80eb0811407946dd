------------------------ MODULE WecomChannelProofs ------------------------
(***************************************************************************)
(* For every number of messages, chats and transports and any table size:  *)
(* WecomChannel keeps its types; a session store that is not marked dirty  *)
(* and wrote the file last has all its entries in it; the replies of one   *)
(* chat reach the socket once each and in order; a reply that finds no     *)
(* chat was pushed out by MapMax newer messages; and a message that comes  *)
(* when its chat is quiet resumes the session of the last turn.            *)
(*                                                                         *)
(* The first two are not inductive.  dirty \subseteq opened, in the type   *)
(* of the store, needs that only a turn whose store is open can remember   *)
(* (RunningInUse), hence that what waits in a channel belongs to an open   *)
(* transport (InboundInUse), hence that only workers of open transports    *)
(* read messages (WorkersInUse).  CleanMeansSaved needs that a store       *)
(* opened anew cannot be the one that wrote the file last: transports are  *)
(* numbered as they are built (WrittenByBuilt).                            *)
(*                                                                         *)
(* The other three rest on OrderInv, further down: one message's order is  *)
(* followed from the inbound channel through the turns of its chat to the  *)
(* replies channel and the socket, and what the bounded order table and    *)
(* the session store of its transport hold is tied to it.                  *)
(***************************************************************************)
EXTENDS WecomChannel, SequenceTheorems, FiniteSetTheorems, TLAPS

(* A worker task that still runs has its store open, in a live process.    *)
WorkersInUse ==
  \A g \in Gen : conn[g] \notin {"unborn", "dead"} => alive /\ g \in opened

(* So has a message that is not settled yet.                               *)
RunningInUse ==
  \A m \in Msg : status[m] \in {"inbound", "waiting", "running"} =>
    alive /\ home[m] \in opened

(* So has a message that waits in an inbound channel.                      *)
InboundInUse ==
  \A g \in Gen : \A i \in 1 .. Len(inbound[g]) : inbound[g][i] # KickEvent =>
    alive /\ home[inbound[g][i]] \in opened

(* Only a transport that was built has written the file or is in use.      *)
WrittenByBuilt ==
  /\ alive => gen \in Gen
  /\ writer <= gen /\ \A g \in opened : g <= gen

StoreInv == Sessions!StoreTypeOK /\ CleanMeansSaved

IInv ==
  /\ TypeOK
  /\ CleanMeansSaved
  /\ WorkersInUse
  /\ RunningInUse
  /\ InboundInUse
  /\ WrittenByBuilt

-----------------------------------------------------------------------------
(* The session store                                                       *)

LEMMA ChatType == ASSUME NEW m \in Msg PROVE ChatOf[m] \in Chat
BY DEF Chat

LEMMA OpenKeeps ==
  ASSUME StoreInv, NEW s \in Gen, s # writer, Sessions!OpenStore(s)
  PROVE  StoreInv' /\ writer' = writer /\ opened' = opened \cup {s}
<1>1. Sessions!Cold \in Sessions!Entries
  BY DEF Sessions!Cold, Sessions!Entries
<1>2. mem' \in [Gen -> Sessions!Entries] /\ \A t \in Gen : t # s => mem'[t] = mem[t]
  BY <1>1 DEF StoreInv, Sessions!StoreTypeOK, Sessions!OpenStore
<1> QED
  BY <1>2 DEF StoreInv, CleanMeansSaved, Sessions!StoreTypeOK, Sessions!CleanMeansSaved,
    Sessions!OpenStore

LEMMA RememberKeeps ==
  ASSUME StoreInv, NEW s \in opened, NEW c \in Chat, NEW id \in Msg,
         Sessions!Remember(s, c, id)
  PROVE  StoreInv' /\ writer' \in {writer, s} /\ opened' = opened
<1> DEFINE m == [mem[s] EXCEPT ![c] = id]
<1>1. s \in Gen
  BY DEF StoreInv, Sessions!StoreTypeOK
<1>2. m \in Sessions!Entries
  BY <1>1 DEF StoreInv, Sessions!StoreTypeOK, Sessions!Entries
<1>3. /\ mem' \in [Gen -> Sessions!Entries] /\ mem'[s] = m
      /\ \A t \in Gen : t # s => mem'[t] = mem[t]
  BY <1>1, <1>2 DEF StoreInv, Sessions!StoreTypeOK, Sessions!Remember
<1>4. CASE s \in throttled /\ dirty' = dirty \cup {s}
           /\ UNCHANGED <<file, throttled, writer>>
  BY <1>1, <1>3, <1>4 DEF StoreInv, CleanMeansSaved, Sessions!StoreTypeOK,
    Sessions!CleanMeansSaved, Sessions!Remember
<1>5. CASE s \notin throttled /\ Sessions!Flush(s, m)
  BY <1>1, <1>2, <1>3, <1>5 DEF StoreInv, CleanMeansSaved, Sessions!StoreTypeOK,
    Sessions!CleanMeansSaved, Sessions!Remember, Sessions!Flush
<1> QED
  BY <1>4, <1>5 DEF Sessions!Remember

LEMMA IntervalKeeps ==
  ASSUME StoreInv, NEW s \in Gen, Sessions!IntervalEnds(s)
  PROVE  StoreInv' /\ writer' = writer /\ opened' = opened
BY DEF StoreInv, CleanMeansSaved, Sessions!StoreTypeOK, Sessions!CleanMeansSaved,
  Sessions!IntervalEnds

LEMMA DropKeeps ==
  ASSUME StoreInv, NEW s \in Gen, Sessions!DropStore(s)
  PROVE  StoreInv' /\ writer' \in {writer, s} /\ opened' = opened \ {s} /\ s \in opened
BY DEF StoreInv, CleanMeansSaved, Sessions!StoreTypeOK, Sessions!CleanMeansSaved,
  Sessions!DropStore

LEMMA KilledKeeps ==
  ASSUME StoreInv, Sessions!Killed
  PROVE  StoreInv' /\ writer' = writer /\ opened' = {}
BY DEF StoreInv, CleanMeansSaved, Sessions!StoreTypeOK, Sessions!CleanMeansSaved,
  Sessions!Killed

LEMMA StoreStutters ==
  ASSUME StoreInv, UNCHANGED storeVars
  PROVE  StoreInv' /\ writer' = writer /\ opened' = opened
BY DEF StoreInv, CleanMeansSaved, Sessions!StoreTypeOK, Sessions!CleanMeansSaved, storeVars

-----------------------------------------------------------------------------
(* The channel                                                             *)

(* What the actions that leave the store, conn and status alone keep.      *)
Settled == StoreInv /\ WorkersInUse /\ RunningInUse /\ WrittenByBuilt

(* The conjuncts of TypeOK that are not about the store.                   *)
ChannelTypeOK ==
  /\ alive \in BOOLEAN
  /\ gen \in Gen \cup {NoGen}
  /\ conn \in [Gen -> ConnStates]
  /\ inbound \in [Gen -> Seq(Msg \cup {KickEvent})]
  /\ replies \in [Gen -> Seq(Reply)]
  /\ order \in [Gen -> Seq(Msg)] /\ \A g \in Gen : Len(order[g]) <= MapMax
  /\ status \in [Msg -> Statuses]
  /\ home \in [Msg -> Gen \cup {NoGen}]
  /\ given \in [Msg -> Msg \cup {Fresh}]
  /\ said \in [Msg -> Nat]
  /\ named \subseteq Msg
  /\ delivered \in Seq(Reply)

LEMMA IInvParts == IInv <=> ChannelTypeOK /\ Settled /\ InboundInUse
BY DEF IInv, TypeOK, ChannelTypeOK, Settled, StoreInv

LEMMA NextIInvParts == ChannelTypeOK' /\ Settled' /\ InboundInUse' => IInv'
BY DEF IInv, TypeOK, ChannelTypeOK, Settled, StoreInv

LEMMA InitIInv == Init => IInv
<1> SUFFICES ASSUME Init PROVE ChannelTypeOK /\ Settled /\ InboundInUse
  BY IInvParts
<1> USE WecomAssumption DEF Init, Sessions!StoreInit
<1>1. ChannelTypeOK
  <2>1. order \in [Gen -> Seq(Msg)] /\ \A g \in Gen : Len(order[g]) <= MapMax
    <3>1. Len(<<>>) = 0 /\ 0 <= MapMax
      OBVIOUS
    <3> QED
      BY <3>1
  <2>2. conn \in [Gen -> ConnStates] /\ status \in [Msg -> Statuses]
    BY DEF ConnStates, Statuses
  <2>3. /\ alive \in BOOLEAN /\ gen \in Gen \cup {NoGen}
        /\ home \in [Msg -> Gen \cup {NoGen}] /\ given \in [Msg -> Msg \cup {Fresh}]
        /\ said \in [Msg -> Nat] /\ named \subseteq Msg
    OBVIOUS
  <2>4. /\ inbound \in [Gen -> Seq(Msg \cup {KickEvent})]
        /\ replies \in [Gen -> Seq(Reply)] /\ delivered \in Seq(Reply)
    OBVIOUS
  <2> QED
    BY <2>1, <2>2, <2>3, <2>4 DEF ChannelTypeOK
<1>2. StoreInv
  BY DEF StoreInv, CleanMeansSaved, Sessions!StoreTypeOK, Sessions!CleanMeansSaved,
    Sessions!Entries, Sessions!Cold
<1>3. WorkersInUse /\ RunningInUse /\ WrittenByBuilt
  BY DEF WorkersInUse, RunningInUse, WrittenByBuilt, NoGen
<1>4. InboundInUse
  BY DEF InboundInUse
<1> QED
  BY <1>1, <1>2, <1>3, <1>4 DEF Settled

(* A transport is built under a number that neither is in use nor wrote.   *)
LEMMA BuildKeeps ==
  ASSUME IInv, alive', BuildTransport,
         \/ UNCHANGED <<alive, status, home>>
         \/ opened = {} /\ ~ alive /\ UNCHANGED <<status, home>>
  PROVE  /\ Settled' /\ gen' \in Gen /\ conn' \in [Gen -> ConnStates]
         /\ opened \subseteq opened'
<1> USE WecomAssumption DEF Gen, NoGen
<1>1. gen + 1 \in Gen /\ gen \in Nat
  BY IInvParts DEF ChannelTypeOK, BuildTransport
<1>2. StoreInv /\ writer # gen + 1
  BY <1>1, IInvParts DEF Settled, WrittenByBuilt, StoreInv, Sessions!StoreTypeOK
<1>3. StoreInv' /\ writer' = writer /\ opened' = opened \cup {gen + 1}
  BY <1>1, <1>2, OpenKeeps DEF BuildTransport
<1>4. gen' \in Gen /\ conn' \in [Gen -> ConnStates]
  BY <1>1, IInvParts DEF ChannelTypeOK, BuildTransport, ConnStates
<1>5. WorkersInUse' /\ RunningInUse'
  BY <1>1, <1>3, IInvParts
    DEF Settled, ChannelTypeOK, WorkersInUse, RunningInUse, BuildTransport
<1>6. WrittenByBuilt'
  <2>1. writer \in Nat /\ opened \subseteq Gen
    BY <1>2 DEF StoreInv, Sessions!StoreTypeOK
  <2> QED
    BY <1>1, <1>3, <2>1, IInvParts DEF Settled, WrittenByBuilt, BuildTransport
<1> QED
  BY <1>3, <1>4, <1>5, <1>6 DEF Settled

LEMMA InboundStutters ==
  ASSUME IInv, UNCHANGED <<inbound, home>>, alive => alive', opened \subseteq opened'
  PROVE  InboundInUse'
<1>1. \A g \in Gen : inbound[g] \in Seq(Msg \cup {KickEvent})
  BY IInvParts DEF ChannelTypeOK
<1> QED
  BY <1>1, IInvParts DEF InboundInUse

LEMMA PutKeeps ==
  ASSUME IInv, NEW g \in Gen, NEW x \in Msg \cup {KickEvent}, Put(g, x),
         alive' = alive, opened' = opened,
         \A n \in Msg : n # x => home'[n] = home[n],
         x # KickEvent => alive /\ home'[x] \in opened
  PROVE  inbound' \in [Gen -> Seq(Msg \cup {KickEvent})] /\ InboundInUse'
<1>1. inbound \in [Gen -> Seq(Msg \cup {KickEvent})]
  BY IInvParts DEF ChannelTypeOK
<1>2. /\ Append(inbound[g], x) \in Seq(Msg \cup {KickEvent})
      /\ \A i \in 1 .. Len(Append(inbound[g], x)) :
           \/ Append(inbound[g], x)[i] = x
           \/ i \in 1 .. Len(inbound[g]) /\ Append(inbound[g], x)[i] = inbound[g][i]
  BY <1>1
<1>3. inbound' \in [Gen -> Seq(Msg \cup {KickEvent})]
  BY <1>1, <1>2 DEF Put
<1>4. ASSUME NEW h \in Gen, NEW i \in 1 .. Len(inbound'[h]), inbound'[h][i] # KickEvent
      PROVE  alive' /\ home'[inbound'[h][i]] \in opened'
  <2>1. \/ inbound'[h][i] = x
        \/ i \in 1 .. Len(inbound[h]) /\ inbound'[h][i] = inbound[h][i]
    BY <1>1, <1>2, <1>4 DEF Put
  <2>2. CASE inbound'[h][i] = x
    BY <1>4, <2>2
  <2>3. CASE inbound'[h][i] # x /\ i \in 1 .. Len(inbound[h])
             /\ inbound'[h][i] = inbound[h][i]
    <3>1. inbound[h][i] \in Msg
      BY <1>1, <1>4, <2>3
    <3> QED
      BY <1>4, <2>3, <3>1, IInvParts DEF InboundInUse
  <2> QED
    BY <2>1, <2>2, <2>3
<1> QED
  BY <1>3, <1>4 DEF InboundInUse

LEMMA TakeKeeps ==
  ASSUME IInv, alive, inbound[gen] # <<>>, inbound' = [inbound EXCEPT ![gen] = Tail(@)],
         UNCHANGED <<alive, home>>, opened \subseteq opened'
  PROVE  /\ inbound' \in [Gen -> Seq(Msg \cup {KickEvent})] /\ InboundInUse'
         /\ Head(inbound[gen]) # KickEvent => home[Head(inbound[gen])] \in opened
<1>1. inbound \in [Gen -> Seq(Msg \cup {KickEvent})] /\ gen \in Gen
  BY IInvParts DEF ChannelTypeOK, Settled, WrittenByBuilt
<1>2. /\ Tail(inbound[gen]) \in Seq(Msg \cup {KickEvent})
      /\ \A i \in 1 .. Len(Tail(inbound[gen])) :
           /\ i + 1 \in 1 .. Len(inbound[gen])
           /\ Tail(inbound[gen])[i] = inbound[gen][i + 1]
      /\ 1 \in 1 .. Len(inbound[gen]) /\ Head(inbound[gen]) = inbound[gen][1]
  BY <1>1
<1>3. inbound' \in [Gen -> Seq(Msg \cup {KickEvent})]
  BY <1>1, <1>2
<1>4. ASSUME NEW h \in Gen, NEW i \in 1 .. Len(inbound'[h]), inbound'[h][i] # KickEvent
      PROVE  alive' /\ home'[inbound'[h][i]] \in opened'
  <2>1. PICK j \in 1 .. Len(inbound[h]) : inbound'[h][i] = inbound[h][j]
    BY <1>1, <1>2, <1>4
  <2> QED
    BY <1>4, <2>1, IInvParts DEF InboundInUse
<1> QED
  BY <1>1, <1>2, <1>3, <1>4, IInvParts DEF InboundInUse

LEMMA StartKeeps == ASSUME IInv, Start PROVE IInv'
<1>1. /\ Settled' /\ gen' \in Gen /\ conn' \in [Gen -> ConnStates]
      /\ opened \subseteq opened'
  BY BuildKeeps DEF Start, messageVars
<1>2. ChannelTypeOK'
  BY <1>1, IInvParts DEF Start, ChannelTypeOK, channelVars, messageVars
<1>3. InboundInUse'
  BY <1>1, InboundStutters DEF Start, channelVars, messageVars
<1> QED
  BY <1>1, <1>2, <1>3, NextIInvParts

LEMMA NextTokenRejectedKeeps == ASSUME IInv, NextTokenRejected PROVE IInv'
<1>1. /\ Settled' /\ gen' \in Gen /\ conn' \in [Gen -> ConnStates]
      /\ opened \subseteq opened'
  BY BuildKeeps DEF NextTokenRejected, messageVars
<1>2. inbound' \in [Gen -> Seq(Msg \cup {KickEvent})] /\ InboundInUse'
  BY <1>1, TakeKeeps DEF NextTokenRejected, messageVars
<1>3. ChannelTypeOK'
  BY <1>1, <1>2, IInvParts DEF NextTokenRejected, ChannelTypeOK, messageVars
<1> QED
  BY <1>1, <1>2, <1>3, NextIInvParts

(* The process ends: nothing is in use any more.                           *)
LEMMA EndKeeps == ASSUME IInv, Exit \/ Kill PROVE IInv'
<1>1. EndProcess /\ StoreInv
  BY IInvParts DEF Exit, Kill, Settled
<1>2. ChannelTypeOK'
  <2>1. conn' \in [Gen -> ConnStates] /\ status' \in [Msg -> Statuses]
    BY <1>1, IInvParts DEF EndProcess, ChannelTypeOK, ConnStates, Statuses
  <2>2. /\ inbound' \in [Gen -> Seq(Msg \cup {KickEvent})]
        /\ replies' \in [Gen -> Seq(Reply)] /\ said' \in [Msg -> Nat]
    BY <1>1 DEF EndProcess
  <2> QED
    BY <1>1, <2>1, <2>2, IInvParts DEF EndProcess, ChannelTypeOK
<1>3. StoreInv' /\ writer' = writer /\ opened' \subseteq opened
  BY <1>1, KilledKeeps, StoreStutters DEF Exit, Kill
<1>4. WorkersInUse' /\ RunningInUse'
  BY <1>1, IInvParts DEF EndProcess, WorkersInUse, RunningInUse, ChannelTypeOK
<1>5. WrittenByBuilt'
  BY <1>1, <1>3, IInvParts DEF EndProcess, Settled, WrittenByBuilt
<1>6. InboundInUse'
  BY <1>1 DEF EndProcess, InboundInUse
<1> QED
  BY <1>2, <1>3, <1>4, <1>5, <1>6, NextIInvParts DEF Settled

LEMMA DropStoreKeeps == ASSUME IInv, NEW g \in Gen, DropStore(g) PROVE IInv'
<1>1. StoreInv' /\ writer' \in {writer, g} /\ opened' = opened \ {g} /\ g \in opened
  BY IInvParts, DropKeeps DEF Settled, DropStore
<1>2. ChannelTypeOK'
  BY IInvParts DEF DropStore, ChannelTypeOK, channelVars, messageVars
<1>3. WorkersInUse' /\ RunningInUse' /\ WrittenByBuilt'
  BY <1>1, IInvParts
    DEF DropStore, Settled, WorkersInUse, RunningInUse, WrittenByBuilt, messageVars
<1>4. InboundInUse'
  BY IInvParts DEF DropStore, InboundInUse, channelVars
<1> QED
  BY <1>1, <1>2, <1>3, <1>4, NextIInvParts DEF Settled

(* A connection changes; the tasks, messages and stores stay.              *)
LEMMA ConnKeeps ==
  ASSUME IInv, UNCHANGED <<alive, gen, messageVars, storeVars>>,
         conn' \in [Gen -> ConnStates],
         \A g \in Gen : conn'[g] \notin {"unborn", "dead"} =>
                          conn[g] \notin {"unborn", "dead"}
  PROVE  Settled'
<1>1. StoreInv' /\ writer' = writer /\ opened' = opened
  BY IInvParts, StoreStutters DEF Settled
<1> QED
  BY <1>1, IInvParts
    DEF Settled, WorkersInUse, RunningInUse, WrittenByBuilt, messageVars

LEMMA ConnectionKeeps ==
  ASSUME IInv, NEW g \in Gen,
         Connect(g) \/ KickFromOutside(g) \/ Disconnect(g) \/ SendersGone(g)
  PROVE  IInv'
<1>1. /\ UNCHANGED <<alive, gen, channelVars, messageVars, storeVars>>
      /\ conn' \in [Gen -> ConnStates]
      /\ \A h \in Gen : conn'[h] \notin {"unborn", "dead"} =>
                          conn[h] \notin {"unborn", "dead"}
  BY IInvParts DEF ChannelTypeOK, ConnStates, Connect, KickFromOutside, Disconnect,
    SendersGone, Connected
<1>2. ChannelTypeOK'
  BY <1>1, IInvParts DEF ChannelTypeOK, channelVars, messageVars
<1>3. InboundInUse'
  BY <1>1, InboundStutters DEF channelVars, messageVars, storeVars
<1> QED
  BY <1>1, <1>2, <1>3, ConnKeeps, NextIInvParts

LEMMA WriteReplyKeeps == ASSUME IInv, NEW g \in Gen, WriteReply(g) PROVE IInv'
<1>1. replies[g] \in Seq(Reply) /\ replies[g] # <<>>
  BY IInvParts DEF ChannelTypeOK, WriteReply
<1>2. Head(replies[g]) \in Reply /\ Tail(replies[g]) \in Seq(Reply)
  BY <1>1
<1>3. Append(delivered, Head(replies[g])) \in Seq(Reply)
  BY <1>2, IInvParts DEF ChannelTypeOK
<1>4. delivered' \in Seq(Reply) /\ replies' \in [Gen -> Seq(Reply)]
  BY <1>2, <1>3, IInvParts DEF ChannelTypeOK, WriteReply
<1>5. /\ UNCHANGED <<alive, gen, messageVars, storeVars>>
      /\ conn' \in [Gen -> ConnStates]
      /\ \A h \in Gen : conn'[h] \notin {"unborn", "dead"} =>
                          conn[h] \notin {"unborn", "dead"}
  BY IInvParts DEF ChannelTypeOK, ConnStates, WriteReply, Connected
<1>6. ChannelTypeOK'
  BY <1>4, <1>5, IInvParts DEF WriteReply, ChannelTypeOK, messageVars
<1>7. InboundInUse'
  BY InboundStutters DEF WriteReply, messageVars, storeVars
<1> QED
  BY <1>5, <1>6, <1>7, ConnKeeps, NextIInvParts

LEMMA ReadKickEventKeeps == ASSUME IInv, NEW g \in Gen, ReadKickEvent(g) PROVE IInv'
<1>1. inbound' \in [Gen -> Seq(Msg \cup {KickEvent})] /\ InboundInUse'
  BY PutKeeps DEF ReadKickEvent, messageVars, storeVars
<1>2. /\ UNCHANGED <<alive, gen, messageVars, storeVars>>
      /\ conn' \in [Gen -> ConnStates]
      /\ \A h \in Gen : conn'[h] \notin {"unborn", "dead"} =>
                          conn[h] \notin {"unborn", "dead"}
  BY IInvParts DEF ChannelTypeOK, ConnStates, ReadKickEvent
<1>3. ChannelTypeOK'
  BY <1>1, <1>2, IInvParts DEF ReadKickEvent, ChannelTypeOK, messageVars
<1> QED
  BY <1>1, <1>2, <1>3, ConnKeeps, NextIInvParts

(* The table never holds more than MapMax ids.                             *)
LEMMA RegisterBounded ==
  ASSUME NEW q \in Seq(Msg), Len(q) <= MapMax, NEW m \in Msg
  PROVE  Register(q, m) \in Seq(Msg) /\ Len(Register(q, m)) <= MapMax
<1>1. CASE Len(q) >= MapMax
  <2>1. Len(q) = MapMax /\ q # <<>> /\ MapMax > 0
    BY <1>1, WecomAssumption
  <2>2. Tail(q) \in Seq(Msg) /\ Len(Tail(q)) = MapMax - 1
    BY <2>1
  <2>3. Len(Append(Tail(q), m)) = MapMax /\ Append(Tail(q), m) \in Seq(Msg)
    BY <2>1, <2>2, WecomAssumption
  <2> QED
    BY <1>1, <2>3, WecomAssumption DEF Register
<1>2. CASE ~ (Len(q) >= MapMax)
  <2>1. Len(Append(q, m)) = Len(q) + 1 /\ Append(q, m) \in Seq(Msg)
    OBVIOUS
  <2> QED
    BY <1>2, <2>1, WecomAssumption DEF Register
<1> QED
  BY <1>1, <1>2

LEMMA ReadMessageKeeps ==
  ASSUME IInv, NEW g \in Gen, NEW m \in Msg, ReadMessage(g, m) PROVE IInv'
<1> USE IInvParts DEF ReadMessage
<1>1. inbound' \in [Gen -> Seq(Msg \cup {KickEvent})] /\ InboundInUse'
  <2>1. alive /\ g \in opened
    BY DEF Settled, WorkersInUse
  <2>2. home'[m] = g /\ \A n \in Msg : n # m => home'[n] = home[n]
    BY DEF ChannelTypeOK
  <2> QED
    BY <2>1, <2>2, PutKeeps DEF storeVars
<1>2. order' \in [Gen -> Seq(Msg)] /\ \A h \in Gen : Len(order'[h]) <= MapMax
  <2>1. Register(order[g], m) \in Seq(Msg) /\ Len(Register(order[g], m)) <= MapMax
    BY RegisterBounded DEF ChannelTypeOK
  <2> QED
    BY <2>1 DEF ChannelTypeOK
<1>3. Sessions!Lookup(g, ChatOf[m]) \in Msg \cup {Fresh}
  BY ChatType DEF Settled, StoreInv, Sessions!StoreTypeOK, Sessions!Entries, Sessions!Lookup
<1>4. ChannelTypeOK'
  BY <1>1, <1>2, <1>3 DEF ChannelTypeOK, Statuses
<1>5. StoreInv' /\ writer' = writer /\ opened' = opened
  BY StoreStutters DEF Settled
<1>6. WorkersInUse' /\ RunningInUse' /\ WrittenByBuilt'
  BY <1>5 DEF ChannelTypeOK, Settled, WorkersInUse, RunningInUse, WrittenByBuilt
<1> QED
  BY <1>1, <1>4, <1>5, <1>6, NextIInvParts DEF Settled

LEMMA NextMessageKeeps == ASSUME IInv, NextMessage PROVE IInv'
<1> USE IInvParts DEF NextMessage
<1>1. /\ inbound' \in [Gen -> Seq(Msg \cup {KickEvent})] /\ InboundInUse'
      /\ home[Head(inbound[gen])] \in opened
  BY TakeKeeps DEF storeVars
<1>2. ChannelTypeOK'
  BY <1>1 DEF ChannelTypeOK, Statuses
<1>3. StoreInv' /\ writer' = writer /\ opened' = opened
  BY StoreStutters DEF Settled
<1>4. WorkersInUse' /\ WrittenByBuilt'
  BY <1>3 DEF Settled, WorkersInUse, WrittenByBuilt
<1>5. RunningInUse'
  BY <1>1, <1>3 DEF Settled, RunningInUse, ChannelTypeOK
<1> QED
  BY <1>1, <1>2, <1>3, <1>4, <1>5, NextIInvParts DEF Settled

LEMMA TurnStartsKeeps == ASSUME IInv, NEW m \in Msg, TurnStarts(m) PROVE IInv'
<1> USE IInvParts DEF TurnStarts, channelVars
<1>1. ChannelTypeOK'
  BY DEF ChannelTypeOK, Statuses
<1>2. StoreInv' /\ writer' = writer /\ opened' = opened
  BY StoreStutters DEF Settled
<1>3. WorkersInUse' /\ RunningInUse' /\ WrittenByBuilt'
  BY <1>2 DEF ChannelTypeOK, Settled, WorkersInUse, RunningInUse, WrittenByBuilt
<1>4. InboundInUse'
  BY <1>2, InboundStutters
<1> QED
  BY <1>1, <1>2, <1>3, <1>4, NextIInvParts DEF Settled

LEMMA SaidTyped ==
  ASSUME ChannelTypeOK, NEW m \in Msg, home[m] \in Gen
  PROVE  /\ [turn |-> m, part |-> said[m] + 1] \in Reply
         /\ Said(m) \in [Gen -> Seq(Reply)]
<1> DEFINE q == [turn |-> m, part |-> said[m] + 1]
<1>1. q \in Reply
  BY DEF ChannelTypeOK, Reply
<1> HIDE DEF q
<1>2. Append(replies[home[m]], q) \in Seq(Reply)
  BY <1>1 DEF ChannelTypeOK
<1>3. [replies EXCEPT ![home[m]] = Append(@, q)] \in [Gen -> Seq(Reply)]
  BY <1>2 DEF ChannelTypeOK
<1> QED
  BY <1>1, <1>3 DEF Said, q

LEMMA TurnRepliesKeeps == ASSUME IInv, NEW m \in Msg, TurnReplies(m) PROVE IInv'
<1> USE IInvParts
<1>1. home[m] \in Gen
  BY DEF TurnReplies, Settled, RunningInUse, StoreInv, Sessions!StoreTypeOK
<1>2. replies' \in [Gen -> Seq(Reply)] /\ said' \in [Msg -> Nat]
  <2>1. ChannelTypeOK
    BY DEF Settled
  <2>2. replies' \in [Gen -> Seq(Reply)]
    BY <1>1, <2>1, SaidTyped DEF TurnReplies
  <2> QED
    BY <2>1, <2>2 DEF ChannelTypeOK, TurnReplies
<1>3. ChannelTypeOK'
  BY <1>2 DEF ChannelTypeOK, TurnReplies
<1>4. StoreInv' /\ writer' = writer /\ opened' = opened
  BY StoreStutters DEF Settled, TurnReplies
<1>5. WorkersInUse' /\ RunningInUse' /\ WrittenByBuilt'
  BY <1>4 DEF Settled, WorkersInUse, RunningInUse, WrittenByBuilt, TurnReplies
<1>6. InboundInUse'
  BY <1>4, InboundStutters DEF TurnReplies
<1> QED
  BY <1>3, <1>4, <1>5, <1>6, NextIInvParts DEF Settled

(* The store of a running turn is open, so that the turn may write to it.  *)
LEMMA TurnEndsKeeps == ASSUME IInv, NEW m \in Msg, TurnEnds(m) PROVE IInv'
<1> DEFINE g == home[m]
<1> USE IInvParts
<1>1. alive /\ g \in opened /\ g \in Gen
  BY DEF TurnEnds, Settled, RunningInUse, StoreInv, Sessions!StoreTypeOK
<1>2. ChannelTypeOK'
  <2>1. replies' \in [Gen -> Seq(Reply)] /\ said' \in [Msg -> Nat]
    BY <1>1, SaidTyped DEF ChannelTypeOK, TurnEnds
  <2>2. named' \subseteq Msg /\ status' \in [Msg -> Statuses]
    BY DEF ChannelTypeOK, TurnEnds, Statuses
  <2> QED
    BY <2>1, <2>2 DEF ChannelTypeOK, TurnEnds
<1>3. StoreInv' /\ writer' \in {writer, g} /\ opened' = opened
  <2>1. CASE Sessions!Remember(g, ChatOf[m], m)
    BY <1>1, <2>1, ChatType, RememberKeeps DEF Settled
  <2>2. CASE UNCHANGED storeVars
    BY <2>2, StoreStutters DEF Settled
  <2> QED
    BY <2>1, <2>2 DEF TurnEnds
<1>4. WorkersInUse' /\ RunningInUse' /\ WrittenByBuilt'
  BY <1>1, <1>3 DEF ChannelTypeOK, Settled, WorkersInUse, RunningInUse, WrittenByBuilt,
    TurnEnds
<1>5. InboundInUse'
  BY <1>3, InboundStutters DEF TurnEnds
<1> QED
  BY <1>2, <1>3, <1>4, <1>5, NextIInvParts DEF Settled

LEMMA IntervalEndsKeeps == ASSUME IInv, NEW g \in Gen, IntervalEnds(g) PROVE IInv'
<1> USE IInvParts DEF IntervalEnds, channelVars, messageVars
<1>1. StoreInv' /\ writer' = writer /\ opened' = opened
  BY IntervalKeeps DEF Settled
<1>2. ChannelTypeOK'
  BY DEF ChannelTypeOK
<1>3. WorkersInUse' /\ RunningInUse' /\ WrittenByBuilt'
  BY <1>1 DEF Settled, WorkersInUse, RunningInUse, WrittenByBuilt
<1>4. InboundInUse'
  BY <1>1, InboundStutters
<1> QED
  BY <1>1, <1>2, <1>3, <1>4, NextIInvParts DEF Settled

LEMMA IInvStep == IInv /\ [Next]_vars => IInv'
<1> SUFFICES ASSUME IInv, [Next]_vars PROVE IInv'
  OBVIOUS
<1>1. CASE Start
  BY <1>1, StartKeeps
<1>2. CASE Exit \/ Kill
  BY <1>2, EndKeeps
<1>3. CASE NextMessage
  BY <1>3, NextMessageKeeps
<1>4. CASE NextTokenRejected
  BY <1>4, NextTokenRejectedKeeps
<1>5. ASSUME NEW g \in Gen, DropStore(g) \/ IntervalEnds(g) PROVE IInv'
  BY <1>5, DropStoreKeeps, IntervalEndsKeeps
<1>6. ASSUME NEW g \in Gen,
             \/ Connect(g) \/ KickFromOutside(g) \/ Disconnect(g) \/ SendersGone(g)
             \/ WriteReply(g) \/ ReadKickEvent(g)
      PROVE  IInv'
  BY <1>6, ConnectionKeeps, WriteReplyKeeps, ReadKickEventKeeps
<1>7. ASSUME NEW g \in Gen, NEW m \in Msg, ReadMessage(g, m) PROVE IInv'
  BY <1>7, ReadMessageKeeps
<1>8. ASSUME NEW m \in Msg, TurnStarts(m) \/ TurnReplies(m) \/ TurnEnds(m) PROVE IInv'
  BY <1>8, TurnStartsKeeps, TurnRepliesKeeps, TurnEndsKeeps
<1>9. CASE UNCHANGED vars
  <2>1. StoreInv' /\ writer' = writer /\ opened' = opened
    BY <1>9, IInvParts, StoreStutters DEF Settled, vars
  <2>2. ChannelTypeOK'
    BY <1>9, IInvParts DEF ChannelTypeOK, vars, channelVars, messageVars
  <2>3. WorkersInUse' /\ RunningInUse' /\ WrittenByBuilt'
    BY <1>9, <2>1, IInvParts
      DEF Settled, WorkersInUse, RunningInUse, WrittenByBuilt, vars, messageVars
  <2>4. InboundInUse'
    BY <1>9, <2>1, InboundStutters DEF vars, channelVars, messageVars
  <2> QED
    BY <2>1, <2>2, <2>3, <2>4, NextIInvParts DEF Settled
<1> QED
  BY <1>1, <1>2, <1>3, <1>4, <1>5, <1>6, <1>7, <1>8, <1>9 DEF Next

-----------------------------------------------------------------------------
(* The order of things, from the platform through the channels and back    *)

(* The users' messages come in the order of their numbers.                 *)
SentPrefix ==
  \A k, n \in Msg : k < n /\ status[n] # "unsent" => status[k] # "unsent"

(* A message has a home once it came in, in a transport that was built.    *)
HomeKnown ==
  \A m \in Msg : /\ IF status[m] = "unsent" THEN home[m] = NoGen ELSE home[m] \in Gen
                 /\ home[m] <= gen

(* What waits in an inbound channel is in order, and newer than all that   *)
(* was taken from it.                                                      *)
Spoken == {"running", "done", "lost"}
Taken == {"waiting"} \cup Spoken

InboundSound ==
  \A g \in Gen : \A i \in DOMAIN inbound[g] : inbound[g][i] # KickEvent =>
    /\ home[inbound[g][i]] = g /\ status[inbound[g][i]] = "inbound"
    /\ \A n \in Msg : home[n] = g /\ status[n] \in Taken => n < inbound[g][i]
    /\ \A j \in DOMAIN inbound[g] :
         i < j /\ inbound[g][j] # KickEvent => inbound[g][i] < inbound[g][j]

(* The dispatcher runs the turns of a chat in order.                       *)
TurnOrder ==
  \A m, n \in Msg : m < n /\ SameChat(m, n) /\ status[m] \in {"waiting", "running"} =>
    status[n] \notin Spoken

(* A reply is of a turn that began, and its number, while the turn runs, is*)
(* one already given.                                                      *)
Counted(r) ==
  /\ status[r.turn] \in Spoken
  /\ status[r.turn] = "running" => r.part <= said[r.turn]

(* So the replies are on the channel, and on the socket, in order.         *)
RepliesSound ==
  \A g \in Gen : \A i \in DOMAIN replies[g] :
    /\ Counted(replies[g][i]) /\ home[replies[g][i].turn] = g
    /\ \A j \in DOMAIN replies[g] : i < j => Before(replies[g][i], replies[g][j])
    /\ \A j \in DOMAIN delivered : Before(delivered[j], replies[g][i])

DeliveredSound ==
  \A i \in DOMAIN delivered :
    /\ Counted(delivered[i])
    /\ \A j \in DOMAIN delivered : i < j => Before(delivered[i], delivered[j])

(* The req_id table holds the newest messages of its transport.            *)
InTable(g, q) ==
  /\ \A i \in DOMAIN q : home[q[i]] = g
  /\ \A i, j \in DOMAIN q : i < j => q[i] < q[j]
  /\ \A m \in Msg : home[m] = g /\ m \notin Range(q) =>
       Len(q) = MapMax /\ \A i \in DOMAIN q : m < q[i]

TableSound == \A g \in Gen : InTable(g, order[g])

(* The store has the newest turn of a chat that named its session.         *)
Stored(m) == mem[home[m]][ChatOf[m]]

Remembered ==
  \A m \in named : /\ status[m] = "done"
                   /\ Stored(m) \in named /\ SameChat(Stored(m), m) /\ m <= Stored(m)

OrderInv ==
  /\ SentPrefix /\ HomeKnown /\ InboundSound /\ TurnOrder
  /\ RepliesSound /\ DeliveredSound /\ TableSound /\ Remembered

LEMMA OrderInit == Init => OrderInv
<1>. SUFFICES ASSUME Init PROVE OrderInv
  OBVIOUS
<1>. USE DEF Init
<1>1. SentPrefix /\ HomeKnown
  BY DEF SentPrefix, HomeKnown, NoGen
<1>2. InboundSound /\ RepliesSound /\ DeliveredSound /\ TurnOrder /\ Remembered
  BY DEF InboundSound, RepliesSound, DeliveredSound, TurnOrder, Remembered
<1>3. \A m \in Msg, g \in Gen : home[m] # g
  BY DEF NoGen, Gen
<1>4. TableSound
  BY <1>3 DEF TableSound, InTable
<1>. QED  BY <1>1, <1>2, <1>4 DEF OrderInv

-----------------------------------------------------------------------------
(* What each part needs to be kept.                                        *)

LEMMA HomesStay ==
  ASSUME OrderInv, home' = home, gen \in Nat, gen' \in Nat, gen <= gen', IInv,
         \A m \in Msg : status'[m] = "unsent" <=> status[m] = "unsent"
  PROVE  SentPrefix' /\ HomeKnown'
<1>1. SentPrefix'
  BY DEF OrderInv, SentPrefix
<1>2. \A m \in Msg : home[m] \in Nat
  BY DEF IInv, TypeOK, Gen, NoGen
<1>3. HomeKnown'
  BY <1>2 DEF OrderInv, HomeKnown
<1>. QED  BY <1>1, <1>3

LEMMA TurnsStay ==
  ASSUME OrderInv, home' = home,
         \A m \in Msg : status'[m] \in {"waiting", "running"} => status[m] \in {"waiting", "running"},
         \A m \in Msg : status'[m] \in Spoken => status[m] \in Spoken
  PROVE  TurnOrder'
  BY DEF OrderInv, TurnOrder, SameChat

LEMMA InboundStays ==
  ASSUME OrderInv, home' = home, inbound' = inbound, IInv,
         \A m \in Msg : status[m] = "inbound" => status'[m] = "inbound",
         \A m \in Msg : status'[m] \in Taken => status[m] \in Taken
  PROVE  InboundSound'
<1>1. \A g \in Gen : \A i \in DOMAIN inbound[g] : inbound[g][i] \in Msg \cup {KickEvent}
  BY DEF IInv, TypeOK
<1>. QED  BY <1>1 DEF OrderInv, InboundSound

LEMMA RepliesTyped ==
  ASSUME IInv
  PROVE  /\ \A g \in Gen : \A i \in DOMAIN replies[g] : replies[g][i].turn \in Msg
         /\ \A i \in DOMAIN delivered : delivered[i].turn \in Msg
<1>1. replies \in [Gen -> Seq(Reply)] /\ delivered \in Seq(Reply)
  BY IInvParts DEF ChannelTypeOK
<1>2. /\ \A g \in Gen : \A i \in DOMAIN replies[g] : replies[g][i] \in Reply
      /\ \A i \in DOMAIN delivered : delivered[i] \in Reply
  BY <1>1
<1>. QED  BY <1>2 DEF Reply

LEMMA RepliesStay ==
  ASSUME OrderInv, IInv, UNCHANGED <<replies, delivered>>,
         \A m \in Msg : status[m] \in Spoken =>
           /\ status'[m] \in Spoken /\ home'[m] = home[m]
           /\ status'[m] = "running" => status[m] = "running" /\ said'[m] = said[m]
  PROVE  RepliesSound' /\ DeliveredSound'
<1>1. /\ \A g \in Gen : \A i \in DOMAIN replies[g] : replies[g][i].turn \in Msg
      /\ \A i \in DOMAIN delivered : delivered[i].turn \in Msg
  BY RepliesTyped
<1>2. \A a, b : /\ a.turn \in Msg /\ b.turn \in Msg
               /\ Counted(a) /\ Counted(b) /\ Before(a, b)
               => Before(a, b)'
  BY DEF Counted, Before, SameChat
<1>3. \A a : a.turn \in Msg /\ Counted(a) => Counted(a)' /\ home'[a.turn] = home[a.turn]
  BY DEF Counted
<1>4. /\ \A g \in Gen : \A i \in DOMAIN replies[g] :
           Counted(replies[g][i])' /\ home'[replies[g][i].turn] = g
      /\ \A i \in DOMAIN delivered : Counted(delivered[i])'
  BY <1>1, <1>3 DEF OrderInv, RepliesSound, DeliveredSound
<1>5. \A g \in Gen : \A i, j \in DOMAIN replies[g] : i < j => Before(replies[g][i], replies[g][j])'
  BY <1>1, <1>2 DEF OrderInv, RepliesSound
<1>6. \A g \in Gen : \A i \in DOMAIN replies[g], j \in DOMAIN delivered :
        Before(delivered[j], replies[g][i])'
  BY <1>1, <1>2 DEF OrderInv, RepliesSound, DeliveredSound
<1>7. \A i, j \in DOMAIN delivered : i < j => Before(delivered[i], delivered[j])'
  BY <1>1, <1>2 DEF OrderInv, DeliveredSound
<1>. QED  BY <1>4, <1>5, <1>6, <1>7 DEF RepliesSound, DeliveredSound

LEMMA TableStays ==
  ASSUME OrderInv, UNCHANGED <<home, order>>
  PROVE  TableSound'
  BY DEF OrderInv, TableSound, InTable

LEMMA RememberedStays ==
  ASSUME OrderInv, IInv, named' = named,
         \A m \in Msg : status[m] = "done" => status'[m] = "done" /\ home'[m] = home[m],
         \A m \in named : mem'[home[m]] = mem[home[m]]
  PROVE  Remembered'
<1>1. named \subseteq Msg
  BY DEF IInv, TypeOK
<1>. QED  BY <1>1 DEF OrderInv, Remembered, Stored, SameChat

-----------------------------------------------------------------------------
(* The steps that leave all messages where they are.                       *)

LEMMA BuildOrder ==
  ASSUME IInv, OrderInv, BuildTransport, UNCHANGED <<replies, delivered, messageVars>>,
         InboundSound'
  PROVE  OrderInv'
<1>1. gen \in Nat /\ gen' \in Nat /\ gen' = gen + 1
  BY DEF IInv, TypeOK, BuildTransport, Gen, NoGen
<1>2. UNCHANGED <<order, status, home, given, said, named, replies, delivered>>
  BY DEF messageVars
<1>3. SentPrefix' /\ HomeKnown'
  BY <1>1, <1>2, HomesStay
<1>4. TurnOrder' /\ TableSound'
  BY <1>2, TurnsStay, TableStays
<1>5. RepliesSound' /\ DeliveredSound'
  BY <1>2, RepliesStay
<1>6. ASSUME NEW m \in named PROVE mem'[home[m]] = mem[home[m]]
  <2>1. m \in Msg /\ home[m] # gen + 1 /\ home[m] \in Gen
    BY <1>1 DEF IInv, TypeOK, OrderInv, HomeKnown, Remembered
  <2>2. mem \in [Gen -> Sessions!Entries]
    BY DEF IInv, TypeOK, Sessions!StoreTypeOK
  <2>. QED  BY <2>1, <2>2 DEF BuildTransport, Sessions!OpenStore
<1>7. Remembered'
  BY <1>2, <1>6, RememberedStays
<1>. QED  BY <1>3, <1>4, <1>5, <1>7 DEF OrderInv

LEMMA QuietOrder ==
  ASSUME IInv, OrderInv, UNCHANGED <<gen, inbound, replies, delivered, messageVars, mem>>
  PROVE  OrderInv'
<1>1. gen \in Nat
  BY DEF IInv, TypeOK, Gen, NoGen
<1>2. UNCHANGED <<order, status, home, given, said, named, replies, delivered, gen, inbound, mem>>
  BY DEF messageVars
<1>3. SentPrefix' /\ HomeKnown'
  BY <1>1, <1>2, HomesStay
<1>4. TurnOrder' /\ TableSound' /\ InboundSound'
  BY <1>2, TurnsStay, TableStays, InboundStays
<1>5. RepliesSound' /\ DeliveredSound'
  BY <1>2, RepliesStay
<1>6. Remembered'
  BY <1>2, RememberedStays
<1>. QED  BY <1>3, <1>4, <1>5, <1>6 DEF OrderInv

LEMMA EndOrder ==
  ASSUME IInv, OrderInv, EndProcess, mem' = mem
  PROVE  OrderInv'
<1>1. gen \in Nat
  BY DEF IInv, TypeOK, Gen, NoGen
<1>2. /\ \A m \in Msg : /\ status[m] = "unsent" <=> status'[m] = "unsent"
                        /\ status[m] = "done" <=> status'[m] = "done"
                        /\ status[m] \in Spoken => status'[m] \in Spoken \ {"running"}
                        /\ status'[m] \notin {"inbound", "waiting", "running"}
      /\ \A g \in Gen : inbound'[g] = <<>> /\ replies'[g] = <<>>
      /\ UNCHANGED <<gen, delivered, order, home, named>>
  BY DEF EndProcess, Spoken
<1>3. SentPrefix' /\ HomeKnown'
  BY <1>1, <1>2, HomesStay
<1>4. TurnOrder' /\ TableSound'
  BY <1>2, TableStays DEF TurnOrder
<1>5. RepliesSound' /\ InboundSound'
  BY <1>2 DEF RepliesSound, InboundSound
<1>6. DeliveredSound'
  <2>1. \A i \in DOMAIN delivered : delivered[i].turn \in Msg
    BY RepliesTyped
  <2>. QED  BY <1>2, <2>1 DEF OrderInv, DeliveredSound, Counted, Before, SameChat, Spoken
<1>7. Remembered'
  BY <1>2, RememberedStays
<1>. QED  BY <1>3, <1>4, <1>5, <1>6, <1>7 DEF OrderInv

-----------------------------------------------------------------------------
(* The head of a channel is taken.                                         *)
LEMMA TailOf ==
  ASSUME NEW S, NEW s \in Seq(S), s # <<>>
  PROVE  /\ 1 \in DOMAIN s /\ Head(s) = s[1] /\ Head(s) \in S
         /\ Tail(s) \in Seq(S)
         /\ \A i \in DOMAIN Tail(s) : /\ i + 1 \in DOMAIN s /\ Tail(s)[i] = s[i + 1]
                                      /\ i \in Nat /\ 1 < i + 1
<1>1. /\ Len(s) \in Nat \ {0} /\ Head(s) = s[1] /\ Head(s) \in S
      /\ Tail(s) \in Seq(S) /\ Len(Tail(s)) = Len(s) - 1
      /\ \A i \in 1 .. Len(Tail(s)) : Tail(s)[i] = s[i + 1]
  BY HeadTailProperties, EmptySeq
<1>2. DOMAIN s = 1 .. Len(s) /\ DOMAIN Tail(s) = 1 .. Len(Tail(s))
  BY <1>1
<1>. QED  BY <1>1, <1>2

LEMMA AppendOf ==
  ASSUME NEW S, NEW s \in Seq(S), NEW x \in S
  PROVE  /\ Append(s, x) \in Seq(S)
         /\ Len(s) + 1 \in DOMAIN Append(s, x) /\ Append(s, x)[Len(s) + 1] = x
         /\ \A i \in DOMAIN s : i \in DOMAIN Append(s, x) /\ Append(s, x)[i] = s[i]
         /\ \A i \in DOMAIN Append(s, x) :
              \/ i \in DOMAIN s /\ Append(s, x)[i] = s[i]
              \/ /\ i = Len(s) + 1 /\ Append(s, x)[i] = x
                 /\ \A j \in DOMAIN Append(s, x) : ~ (i < j)
<1>1. /\ Append(s, x) \in Seq(S) /\ Len(Append(s, x)) = Len(s) + 1 /\ Len(s) \in Nat
      /\ \A i \in 1 .. Len(s) : Append(s, x)[i] = s[i]
      /\ Append(s, x)[Len(s) + 1] = x
  BY AppendProperties
<1>2. DOMAIN s = 1 .. Len(s) /\ DOMAIN Append(s, x) = 1 .. Len(s) + 1
  BY <1>1
<1>. QED  BY <1>1, <1>2

LEMMA InboundTail ==
  ASSUME IInv, OrderInv, alive, inbound[gen] # <<>>,
         inbound' = [inbound EXCEPT ![gen] = Tail(@)], home' = home,
         \A n \in Msg : n # Head(inbound[gen]) => status'[n] = status[n]
  PROVE  InboundSound'
<1>1. gen \in Gen /\ inbound \in [Gen -> Seq(Msg \cup {KickEvent})]
  BY DEF IInv, TypeOK, WrittenByBuilt
<1>. DEFINE s == inbound[gen]
            t == Tail(s)
            h == Head(s)
<1>2. s \in Seq(Msg \cup {KickEvent}) /\ s # <<>>
  BY <1>1
<1>3. /\ 1 \in DOMAIN s /\ h = s[1] /\ h \in Msg \cup {KickEvent}
      /\ \A i \in DOMAIN t : /\ i + 1 \in DOMAIN s /\ t[i] = s[i + 1]
                             /\ i \in Nat /\ 1 < i + 1
  BY <1>2, TailOf
<1>4. inbound'[gen] = t /\ \A g \in Gen : g # gen => inbound'[g] = inbound[g]
  BY <1>1
<1>5. \A i \in DOMAIN s : s[i] \in Msg \cup {KickEvent}
  BY <1>2
<1>6. \A i \in DOMAIN s : s[i] # KickEvent =>
        /\ home[s[i]] = gen /\ status[s[i]] = "inbound"
        /\ \A n \in Msg : home[n] = gen /\ status[n] \in Taken => n < s[i]
        /\ \A j \in DOMAIN s : i < j /\ s[j] # KickEvent => s[i] < s[j]
  BY <1>1 DEF OrderInv, InboundSound
<1>. HIDE DEF s, t, h
<1>7. ASSUME NEW i \in DOMAIN t, t[i] # KickEvent
      PROVE  /\ home[t[i]] = gen /\ status'[t[i]] = "inbound"
             /\ \A n \in Msg : home[n] = gen /\ status'[n] \in Taken => n < t[i]
             /\ \A j \in DOMAIN t : i < j /\ t[j] # KickEvent => t[i] < t[j]
  <2>1. /\ i + 1 \in DOMAIN s /\ t[i] = s[i + 1] /\ i \in Nat /\ 1 < i + 1
        /\ t[i] \in Msg
    BY <1>3, <1>5, <1>7
  <2>2. h # KickEvent => h < t[i]
    BY <1>3, <1>6, <1>7, <2>1
  <2>3. t[i] # h
    BY <1>7, <2>1, <2>2 DEF Msg
  <2>4. home[t[i]] = gen /\ status'[t[i]] = "inbound"
    BY <1>6, <1>7, <2>1, <2>3 DEF h, s
  <2>5. ASSUME NEW n \in Msg, home[n] = gen, status'[n] \in Taken PROVE n < t[i]
    <3>1. CASE n = h
      BY <2>2, <3>1 DEF Msg, KickEvent
    <3>2. CASE n # h
      BY <1>6, <1>7, <2>1, <2>5, <3>2 DEF h, s
    <3>. QED  BY <3>1, <3>2
  <2>6. ASSUME NEW j \in DOMAIN t, i < j, t[j] # KickEvent PROVE t[i] < t[j]
    <3>1. j + 1 \in DOMAIN s /\ t[j] = s[j + 1] /\ j \in Nat
      BY <1>3
    <3>. QED  BY <1>6, <1>7, <2>1, <2>6, <3>1
  <2>. QED  BY <2>4, <2>5, <2>6
<1>8. ASSUME NEW g \in Gen, g # gen, NEW i \in DOMAIN inbound[g], inbound[g][i] # KickEvent
      PROVE  /\ home[inbound[g][i]] = g /\ status'[inbound[g][i]] = "inbound"
             /\ \A n \in Msg : home[n] = g /\ status'[n] \in Taken => n < inbound[g][i]
             /\ \A j \in DOMAIN inbound[g] :
                  i < j /\ inbound[g][j] # KickEvent => inbound[g][i] < inbound[g][j]
  <2>1. /\ home[inbound[g][i]] = g /\ status[inbound[g][i]] = "inbound"
        /\ \A n \in Msg : home[n] = g /\ status[n] \in Taken => n < inbound[g][i]
        /\ \A j \in DOMAIN inbound[g] :
             i < j /\ inbound[g][j] # KickEvent => inbound[g][i] < inbound[g][j]
    BY <1>8 DEF OrderInv, InboundSound
  <2>2. inbound[g][i] \in Msg
    BY <1>1, <1>8
  <2>3. h # KickEvent => home[h] = gen
    BY <1>3, <1>6
  <2>4. inbound[g][i] # h
    BY <1>8, <2>1, <2>3
  <2>5. \A n \in Msg : home[n] = g => n # h
    BY <1>8, <2>3 DEF Msg, KickEvent
  <2>. QED  BY <2>1, <2>2, <2>4, <2>5 DEF h, s
<1>. QED  BY <1>4, <1>7, <1>8 DEF InboundSound

LEMMA NextTokenOrder ==
  ASSUME IInv, OrderInv, NextTokenRejected
  PROVE  OrderInv'
<1>1. UNCHANGED <<order, status, home, given, said, named, replies, delivered>> /\ BuildTransport
  BY DEF NextTokenRejected, messageVars
<1>2. InboundSound'
  BY <1>1, InboundTail DEF NextTokenRejected
<1>. QED  BY <1>1, <1>2, BuildOrder DEF messageVars

LEMMA NextMessageOrder ==
  ASSUME IInv, OrderInv, NextMessage
  PROVE  OrderInv'
<1>. DEFINE h == Head(inbound[gen])
<1>1. /\ gen \in Gen /\ inbound[gen] \in Seq(Msg \cup {KickEvent}) /\ inbound[gen] # <<>>
      /\ h # KickEvent /\ status \in [Msg -> Statuses] /\ gen \in Nat
  <2>1. gen \in Gen /\ inbound \in [Gen -> Seq(Msg \cup {KickEvent})]
        /\ status \in [Msg -> Statuses]
    BY IInvParts DEF ChannelTypeOK, Settled, WrittenByBuilt, NextMessage
  <2>. QED  BY <2>1 DEF NextMessage, Gen
<1>2. h \in Msg /\ 1 \in DOMAIN inbound[gen] /\ h = inbound[gen][1]
  BY <1>1, TailOf
<1>3. /\ home[h] = gen /\ status[h] = "inbound"
      /\ \A n \in Msg : home[n] = gen /\ status[n] \in Taken => n < h
  BY <1>1, <1>2 DEF OrderInv, InboundSound
<1>4. /\ status'[h] = "waiting" /\ \A n \in Msg : n # h => status'[n] = status[n]
      /\ UNCHANGED <<gen, replies, delivered, order, home, said, named, mem>>
  BY <1>1, <1>2 DEF NextMessage, storeVars
<1>5. InboundSound'
  BY <1>4, InboundTail DEF NextMessage
<1>. HIDE DEF h
<1>6. SentPrefix' /\ HomeKnown'
  BY <1>1, <1>3, <1>4, HomesStay
<1>7. TableSound' /\ RepliesSound' /\ DeliveredSound' /\ Remembered'
  BY <1>3, <1>4, TableStays, RepliesStay, RememberedStays DEF Spoken
<1>8. TurnOrder'
  <2>1. ASSUME NEW m \in Msg, NEW n \in Msg, m < n, SameChat(m, n),
               status'[m] \in {"waiting", "running"}
        PROVE  status'[n] \notin Spoken
    <3>1. CASE m = h
      <4>1. status[n] \notin Taken
        BY <1>2, <1>3, <2>1, <3>1 DEF SameChat, Msg
      <4>. QED  BY <1>4, <2>1, <3>1, <4>1 DEF Taken, Msg
    <3>2. CASE m # h
      BY <1>4, <2>1, <3>2 DEF OrderInv, TurnOrder, Spoken
    <3>. QED  BY <3>1, <3>2
  <2>. QED  BY <1>4, <2>1 DEF TurnOrder, SameChat
<1>. QED  BY <1>5, <1>6, <1>7, <1>8 DEF OrderInv

-----------------------------------------------------------------------------
(* A frame is read: it is the newest of all that came in.                  *)
LEMMA InboundPut ==
  ASSUME IInv, OrderInv, NEW g \in Gen, NEW x \in Msg \cup {KickEvent}, Put(g, x),
         \A n \in Msg : n # x => status'[n] = status[n] /\ home'[n] = home[n],
         x # KickEvent => /\ status'[x] = "inbound" /\ home'[x] = g /\ status[x] = "unsent"
                          /\ \A n \in Msg : status[n] # "unsent" => n < x
  PROVE  InboundSound'
<1>1. inbound \in [Gen -> Seq(Msg \cup {KickEvent})]
  BY DEF IInv, TypeOK
<1>2. ASSUME NEW h \in Gen, NEW i \in DOMAIN inbound'[h]
      PROVE  \/ i \in DOMAIN inbound[h] /\ inbound'[h][i] = inbound[h][i]
             \/ /\ h = g /\ inbound'[h][i] = x
                /\ \A j \in DOMAIN inbound'[h] : ~ (i < j)
  <2>1. CASE inbound' = inbound
    BY <1>2, <2>1
  <2>2. CASE inbound' = [inbound EXCEPT ![g] = Append(@, x)]
    <3>1. CASE h # g
      BY <1>1, <1>2, <2>2, <3>1
    <3>2. CASE h = g
      <4>1. inbound'[h] = Append(inbound[h], x) /\ inbound[h] \in Seq(Msg \cup {KickEvent})
        BY <1>1, <2>2, <3>2
      <4>. QED  BY <1>2, <3>2, <4>1, AppendOf
    <3>. QED  BY <3>1, <3>2
  <2>. QED  BY <2>1, <2>2 DEF Put
<1>3. \A h \in Gen : \A i \in DOMAIN inbound[h] : inbound[h][i] \in Msg \cup {KickEvent}
  BY <1>1
<1>4. ASSUME NEW h \in Gen, NEW i \in DOMAIN inbound'[h], inbound'[h][i] # KickEvent
      PROVE  /\ home'[inbound'[h][i]] = h /\ status'[inbound'[h][i]] = "inbound"
             /\ \A n \in Msg : home'[n] = h /\ status'[n] \in Taken => n < inbound'[h][i]
             /\ \A j \in DOMAIN inbound'[h] :
                  i < j /\ inbound'[h][j] # KickEvent => inbound'[h][i] < inbound'[h][j]
  <2>. DEFINE m == inbound'[h][i]
  <2>1. CASE i \in DOMAIN inbound[h] /\ m = inbound[h][i]
    <3>1. /\ m \in Msg /\ home[m] = h /\ status[m] = "inbound"
          /\ \A n \in Msg : home[n] = h /\ status[n] \in Taken => n < m
          /\ \A j \in DOMAIN inbound[h] : i < j /\ inbound[h][j] # KickEvent => m < inbound[h][j]
      BY <1>3, <1>4, <2>1 DEF OrderInv, InboundSound
    <3>. HIDE DEF m
    <3>2. m # x /\ (x # KickEvent => m < x)
      BY <3>1 DEF Msg, KickEvent
    <3>3. home'[m] = h /\ status'[m] = "inbound"
      BY <3>1, <3>2
    <3>4. ASSUME NEW n \in Msg, home'[n] = h, status'[n] \in Taken PROVE n < m
      <4>1. n # x
        BY <3>4 DEF Taken, Spoken, Msg, KickEvent
      <4>. QED  BY <3>1, <3>4, <4>1
    <3>5. ASSUME NEW j \in DOMAIN inbound'[h], i < j, inbound'[h][j] # KickEvent
          PROVE  m < inbound'[h][j]
      BY <1>2, <3>1, <3>2, <3>5
    <3>. QED  BY <3>3, <3>4, <3>5 DEF m
  <2>2. CASE h = g /\ m = x /\ \A j \in DOMAIN inbound'[h] : ~ (i < j)
    <3>1. x \in Msg /\ x # KickEvent
      BY <1>4, <2>2
    <3>2. ASSUME NEW n \in Msg, home'[n] = h, status'[n] \in Taken PROVE n < x
      <4>1. n # x
        BY <3>1, <3>2 DEF Taken, Spoken
      <4>2. status[n] # "unsent"
        BY <3>2, <4>1 DEF Taken, Spoken
      <4>. QED  BY <3>1, <4>2
    <3>. QED  BY <2>2, <3>1, <3>2
  <2>. QED  BY <1>2, <2>1, <2>2
<1>. QED  BY <1>4 DEF InboundSound

LEMMA ReadKickOrder ==
  ASSUME IInv, OrderInv, NEW g \in Gen, ReadKickEvent(g)
  PROVE  OrderInv'
<1>1. /\ UNCHANGED <<order, status, home, given, said, named, replies, delivered, gen, mem>>
      /\ Put(g, KickEvent) /\ gen \in Nat
  BY DEF ReadKickEvent, messageVars, storeVars, IInv, TypeOK, Gen, NoGen
<1>2. InboundSound'
  BY <1>1, InboundPut
<1>3. SentPrefix' /\ HomeKnown'
  BY <1>1, HomesStay
<1>4. TurnOrder' /\ TableSound'
  BY <1>1, TurnsStay, TableStays
<1>5. RepliesSound' /\ DeliveredSound'
  BY <1>1, RepliesStay
<1>6. Remembered'
  BY <1>1, RememberedStays
<1>. QED  BY <1>2, <1>3, <1>4, <1>5, <1>6 DEF OrderInv

(* The table forgets its oldest id, and keeps all that are newer.          *)
LEMMA RegisterSound ==
  ASSUME IInv, OrderInv, NEW g \in Gen, NEW m \in Msg, status[m] = "unsent",
         \A n \in Msg : status[n] # "unsent" => n < m,
         home'[m] = g, \A n \in Msg : n # m => home'[n] = home[n]
  PROVE  LET r == Register(order[g], m)
         IN  /\ \A i \in DOMAIN r : home'[r[i]] = g
             /\ \A i, j \in DOMAIN r : i < j => r[i] < r[j]
             /\ \A n \in Msg : home'[n] = g /\ n \notin Range(r) =>
                  Len(r) = MapMax /\ \A i \in DOMAIN r : n < r[i]
<1>. DEFINE q == order[g]
            t == Tail(q)
            r == Register(q, m)
<1>1. q \in Seq(Msg) /\ Len(q) <= MapMax /\ MapMax \in Nat \ {0} /\ m \in Nat
  BY WecomAssumption DEF IInv, TypeOK, Msg
<1>2. /\ \A i \in DOMAIN q : q[i] \in Msg /\ home[q[i]] = g
      /\ \A i, j \in DOMAIN q : i < j => q[i] < q[j]
      /\ \A n \in Msg : home[n] = g /\ n \notin Range(q) =>
           Len(q) = MapMax /\ \A i \in DOMAIN q : n < q[i]
  BY <1>1 DEF OrderInv, TableSound, InTable
<1>3. \A i \in DOMAIN q : q[i] # m /\ q[i] < m /\ home'[q[i]] = g
  BY <1>2 DEF OrderInv, HomeKnown, NoGen, Gen
<1>. HIDE DEF q
<1>4. CASE Len(q) >= MapMax
  <2>1. r = Append(t, m) /\ Len(q) = MapMax /\ q # <<>> /\ Len(t) + 1 = MapMax
    BY <1>1, <1>4 DEF Register
  <2>2. /\ 1 \in DOMAIN q
        /\ t \in Seq(Msg)
        /\ \A i \in DOMAIN t : i + 1 \in DOMAIN q /\ t[i] = q[i + 1] /\ i \in Nat /\ 1 < i + 1
    BY <1>1, <2>1, TailOf
  <2>3. \A i \in DOMAIN q : i = 1 \/ (i - 1 \in DOMAIN t /\ t[i - 1] = q[i])
    BY <1>1, <2>1
  <2>. HIDE DEF t
  <2>4. /\ r \in Seq(Msg)
        /\ Len(t) + 1 \in DOMAIN r /\ r[Len(t) + 1] = m
        /\ \A i \in DOMAIN t : i \in DOMAIN r /\ r[i] = t[i]
        /\ \A i \in DOMAIN r :
             \/ i \in DOMAIN t /\ r[i] = t[i]
             \/ /\ i = Len(t) + 1 /\ r[i] = m
                /\ \A j \in DOMAIN r : ~ (i < j)
    BY <2>1, <2>2, AppendOf
  <2>5. Len(r) = MapMax
    BY <2>1, <2>2
  <2>. HIDE DEF r
  <2>6. \A i \in DOMAIN r : home'[r[i]] = g
    BY <1>3, <2>2, <2>4
  <2>7. ASSUME NEW i \in DOMAIN r, NEW j \in DOMAIN r, i < j PROVE r[i] < r[j]
    <3>1. i \in DOMAIN t /\ r[i] = t[i]
      BY <2>4, <2>7
    <3>2. CASE j \in DOMAIN t /\ r[j] = t[j]
      <4>1. i + 1 \in DOMAIN q /\ j + 1 \in DOMAIN q /\ i + 1 < j + 1
        BY <2>2, <2>7, <3>1, <3>2
      <4>. QED  BY <1>2, <2>2, <3>1, <3>2, <4>1
    <3>3. CASE r[j] = m
      BY <1>3, <2>2, <3>1, <3>3
    <3>. QED  BY <2>4, <3>2, <3>3
  <2>8. ASSUME NEW n \in Msg, home'[n] = g, n \notin Range(r), NEW i \in DOMAIN r
        PROVE  n < r[i]
    <3>1. m \in Range(r) /\ \A j \in DOMAIN t : t[j] \in Range(r)
      BY <2>4 DEF Range
    <3>2. n # m /\ home[n] = g
      BY <2>8, <3>1
    <3>3. status[n] # "unsent"
      BY <3>2 DEF OrderInv, HomeKnown, NoGen, Gen
    <3>4. CASE n \notin Range(q)
      BY <1>2, <1>3, <2>2, <2>4, <3>2, <3>3, <3>4
    <3>5. CASE n \in Range(q)
      <4>1. PICK k \in DOMAIN q : n = q[k]
        BY <3>5 DEF Range
      <4>2. k = 1
        BY <2>3, <2>8, <3>1, <4>1
      <4>. QED  BY <1>2, <1>3, <2>2, <2>4, <4>1, <4>2
    <3>. QED  BY <3>4, <3>5
  <2>. QED  BY <2>5, <2>6, <2>7, <2>8 DEF r, q
<1>5. CASE ~ (Len(q) >= MapMax)
  <2>1. r = Append(q, m)
    BY <1>5 DEF Register
  <2>2. /\ r \in Seq(Msg)
        /\ Len(q) + 1 \in DOMAIN r /\ r[Len(q) + 1] = m
        /\ \A i \in DOMAIN q : i \in DOMAIN r /\ r[i] = q[i]
        /\ \A i \in DOMAIN r :
             \/ i \in DOMAIN q /\ r[i] = q[i]
             \/ /\ i = Len(q) + 1 /\ r[i] = m
                /\ \A j \in DOMAIN r : ~ (i < j)
    BY <1>1, <2>1, AppendOf
  <2>. HIDE DEF r
  <2>3. \A i \in DOMAIN r : home'[r[i]] = g
    BY <1>3, <2>2
  <2>4. \A i, j \in DOMAIN r : i < j => r[i] < r[j]
    BY <1>2, <1>3, <2>2
  <2>5. ASSUME NEW n \in Msg, home'[n] = g PROVE n \in Range(r)
    <3>1. CASE n = m
      BY <2>2, <3>1 DEF Range
    <3>2. CASE n # m
      <4>1. n \in Range(q)
        BY <1>1, <1>2, <1>5, <2>5, <3>2
      <4>. QED  BY <2>2, <4>1 DEF Range
    <3>. QED  BY <3>1, <3>2
  <2>. QED  BY <2>3, <2>4, <2>5 DEF r, q
<1>. QED  BY <1>4, <1>5

LEMMA ReadMessageOrder ==
  ASSUME IInv, OrderInv, NEW g \in Gen, NEW m \in Msg, ReadMessage(g, m)
  PROVE  OrderInv'
<1>1. /\ status[m] = "unsent" /\ status \in [Msg -> Statuses]
      /\ \A n \in 1 .. m - 1 : status[n] # "unsent"
      /\ UNCHANGED <<gen, replies, delivered, said, named, mem>>
      /\ Put(g, m) /\ home \in [Msg -> Gen \cup {NoGen}]
  BY DEF ReadMessage, storeVars, IInv, TypeOK
<1>2. /\ status'[m] = "inbound" /\ home'[m] = g
      /\ \A n \in Msg : n # m => status'[n] = status[n] /\ home'[n] = home[n]
  BY <1>1 DEF ReadMessage
<1>3. \A n \in Msg : status[n] # "unsent" => n < m
  BY <1>1 DEF OrderInv, SentPrefix, Msg
<1>4. \A n \in Msg : n < m => status[n] # "unsent"
  BY <1>1 DEF Msg
<1>5. SentPrefix'
  BY <1>2, <1>3, <1>4 DEF OrderInv, SentPrefix, Msg
<1>6. HomeKnown'
  <2>1. g \in opened /\ g <= gen
    BY DEF ReadMessage, IInv, WorkersInUse, WrittenByBuilt
  <2>. QED  BY <1>1, <1>2, <2>1 DEF OrderInv, HomeKnown
<1>7. InboundSound'
  BY <1>1, <1>2, <1>3, InboundPut
<1>8. TurnOrder'
  BY <1>2, <1>3 DEF OrderInv, TurnOrder, SameChat, Spoken, Msg
<1>9. \A n \in Msg : /\ status[n] = "done" => status'[n] = "done" /\ home'[n] = home[n]
                     /\ status[n] \in Spoken => status'[n] = status[n] /\ home'[n] = home[n]
  BY <1>1, <1>2 DEF Spoken
<1>10. RepliesSound' /\ DeliveredSound'
  BY <1>1, <1>9, RepliesStay
<1>11. Remembered'
  BY <1>1, <1>9, RememberedStays
<1>12. TableSound'
  <2>. DEFINE r == Register(order[g], m)
  <2>1. /\ \A i \in DOMAIN r : home'[r[i]] = g
        /\ \A i, j \in DOMAIN r : i < j => r[i] < r[j]
        /\ \A n \in Msg : home'[n] = g /\ n \notin Range(r) =>
             Len(r) = MapMax /\ \A i \in DOMAIN r : n < r[i]
    BY <1>1, <1>2, <1>3, RegisterSound
  <2>2. order'[g] = r /\ \A h \in Gen : h # g => order'[h] = order[h]
    BY DEF ReadMessage, IInv, TypeOK
  <2>. HIDE DEF r
  <2>3. ASSUME NEW h \in Gen, h # g
        PROVE  /\ \A i \in DOMAIN order[h] : home'[order[h][i]] = h
               /\ \A i, j \in DOMAIN order[h] : i < j => order[h][i] < order[h][j]
               /\ \A n \in Msg : home'[n] = h /\ n \notin Range(order[h]) =>
                    Len(order[h]) = MapMax /\ \A i \in DOMAIN order[h] : n < order[h][i]
    <3>1. /\ \A i \in DOMAIN order[h] : order[h][i] \in Msg /\ home[order[h][i]] = h
          /\ \A i, j \in DOMAIN order[h] : i < j => order[h][i] < order[h][j]
          /\ \A n \in Msg : home[n] = h /\ n \notin Range(order[h]) =>
               Len(order[h]) = MapMax /\ \A i \in DOMAIN order[h] : n < order[h][i]
      BY DEF OrderInv, TableSound, InTable, IInv, TypeOK
    <3>2. home[m] # h
      BY <1>1 DEF OrderInv, HomeKnown, NoGen, Gen
    <3>. QED  BY <1>2, <2>3, <3>1, <3>2
  <2>. QED  BY <2>1, <2>2, <2>3 DEF TableSound, InTable
<1>. QED  BY <1>5, <1>6, <1>7, <1>8, <1>10, <1>11, <1>12 DEF OrderInv

-----------------------------------------------------------------------------
(* The turns.                                                              *)
LEMMA TurnStartsOrder ==
  ASSUME IInv, OrderInv, NEW m \in Msg, TurnStarts(m)
  PROVE  OrderInv'
<1>1. /\ status[m] = "waiting" /\ status \in [Msg -> Statuses]
      /\ \A n \in 1 .. m - 1 : home[n] = home[m] /\ ChatOf[n] = ChatOf[m] =>
           status[n] \notin {"waiting", "running"}
      /\ UNCHANGED <<gen, inbound, order, home, replies, delivered, said, named, mem>>
      /\ gen \in Nat
  BY DEF TurnStarts, storeVars, channelVars, IInv, TypeOK, Gen, NoGen
<1>2. status'[m] = "running" /\ \A n \in Msg : n # m => status'[n] = status[n]
  BY <1>1 DEF TurnStarts
<1>3. SentPrefix' /\ HomeKnown'
  BY <1>1, <1>2, HomesStay
<1>4. InboundSound'
  BY <1>1, <1>2, InboundStays DEF Taken, Spoken
<1>5. \A n \in Msg : /\ status[n] = "done" => status'[n] = "done" /\ home'[n] = home[n]
                     /\ status[n] \in Spoken => status'[n] = status[n] /\ home'[n] = home[n]
  BY <1>1, <1>2 DEF Spoken
<1>6. RepliesSound' /\ DeliveredSound' /\ TableSound' /\ Remembered'
  BY <1>1, <1>5, TableStays, RepliesStay, RememberedStays
<1>7. TurnOrder'
  <2>1. ASSUME NEW a \in Msg, NEW b \in Msg, a < b, SameChat(a, b),
               status'[a] \in {"waiting", "running"}
        PROVE  status'[b] \notin Spoken
    <3>1. CASE b = m
      BY <1>1, <1>2, <2>1, <3>1 DEF SameChat, Spoken, Msg
    <3>2. CASE b # m
      BY <1>1, <1>2, <2>1, <3>2 DEF OrderInv, TurnOrder, Spoken
    <3>. QED  BY <3>1, <3>2
  <2>. QED  BY <1>1, <2>1 DEF TurnOrder, SameChat
<1>. QED  BY <1>3, <1>4, <1>6, <1>7 DEF OrderInv

(* A reply of a running turn comes after all that were sent before.        *)
LEMMA SaidOrder ==
  ASSUME IInv, OrderInv, NEW m \in Msg, status[m] = "running",
         UNCHANGED <<home, delivered>>, replies' \in {replies, Said(m)},
         \A n \in Msg : n # m => status'[n] = status[n] /\ said'[n] = said[n],
         \/ status'[m] = "done"
         \/ status'[m] = "running" /\ said'[m] = said[m] + 1
  PROVE  RepliesSound' /\ DeliveredSound'
<1>. DEFINE g == home[m]
            q == [turn |-> m, part |-> said[m] + 1]
            Ok(r) == /\ status'[r.turn] \in Spoken
                     /\ status'[r.turn] = "running" => r.part <= said'[r.turn]
<1>1. g \in Gen /\ said[m] \in Nat /\ q \in Reply /\ q.turn = m /\ q.part = said[m] + 1
      /\ replies \in [Gen -> Seq(Reply)] /\ delivered \in Seq(Reply)
  <2>1. g \in Gen
    BY DEF OrderInv, HomeKnown
  <2>. QED  BY <2>1, SaidTyped, IInvParts DEF ChannelTypeOK
<1>2. replies' = replies \/ replies' = [replies EXCEPT ![g] = Append(@, q)]
  BY DEF Said
<1>. HIDE DEF q
<1>3. Ok(q) /\ home[q.turn] = g
  BY <1>1 DEF Spoken
<1>4. ASSUME NEW r \in Reply, Counted(r) PROVE Ok(r) /\ Before(r, q)
  <2>1. r.turn \in Msg /\ r.part \in Nat /\ status[r.turn] \in Spoken
    BY <1>4 DEF Reply, Counted
  <2>2. CASE r.turn = m
    <3>1. r.part <= said[m]
      BY <1>4, <2>2 DEF Counted
    <3>2. Ok(r)
      BY <1>1, <2>1, <2>2, <3>1 DEF Spoken
    <3>3. r.part < said[m] + 1
      BY <1>1, <2>1, <3>1
    <3>. QED  BY <1>1, <2>2, <3>2, <3>3 DEF Before
  <2>3. CASE r.turn # m
    <3>1. Ok(r)
      BY <1>4, <2>1, <2>3 DEF Counted
    <3>2. SameChat(r.turn, m) => r.turn < m
      BY <2>1, <2>3 DEF OrderInv, TurnOrder, SameChat, Msg
    <3>. QED  BY <1>1, <3>1, <3>2 DEF Before
  <2>. QED  BY <2>2, <2>3
<1>5. /\ \A i \in DOMAIN delivered : delivered[i] \in Reply
      /\ \A h \in Gen : \A i \in DOMAIN replies[h] : replies[h][i] \in Reply
  BY <1>1
<1>6. ASSUME NEW i \in DOMAIN delivered
      PROVE  /\ Ok(delivered[i]) /\ Before(delivered[i], q)
             /\ \A j \in DOMAIN delivered : i < j => Before(delivered[i], delivered[j])
  <2>1. delivered[i] \in Reply /\ Counted(delivered[i])
    BY <1>5 DEF OrderInv, DeliveredSound
  <2>. QED  BY <1>4, <2>1 DEF OrderInv, DeliveredSound
<1>7. DeliveredSound'
  BY <1>6 DEF DeliveredSound, Counted, Before, SameChat
<1>8. ASSUME NEW h \in Gen, NEW i \in DOMAIN replies[h]
      PROVE  /\ Ok(replies[h][i]) /\ home[replies[h][i].turn] = h
             /\ Before(replies[h][i], q)
             /\ \A j \in DOMAIN replies[h] : i < j => Before(replies[h][i], replies[h][j])
             /\ \A j \in DOMAIN delivered : Before(delivered[j], replies[h][i])
  <2>1. /\ replies[h][i] \in Reply /\ Counted(replies[h][i]) /\ home[replies[h][i].turn] = h
        /\ \A j \in DOMAIN replies[h] : i < j => Before(replies[h][i], replies[h][j])
        /\ \A j \in DOMAIN delivered : Before(delivered[j], replies[h][i])
    BY <1>5 DEF OrderInv, RepliesSound
  <2>. QED  BY <1>4, <2>1
<1>9. ASSUME NEW h \in Gen, NEW i \in DOMAIN replies'[h]
       PROVE  \/ i \in DOMAIN replies[h] /\ replies'[h][i] = replies[h][i]
              \/ /\ h = g /\ replies'[h][i] = q
                 /\ \A j \in DOMAIN replies'[h] : ~ (i < j)
  <2>1. CASE replies' = replies
    BY <1>9, <2>1
  <2>2. CASE replies' = [replies EXCEPT ![g] = Append(@, q)]
    <3>1. CASE h # g
      BY <1>1, <1>9, <2>2, <3>1
    <3>2. CASE h = g
      <4>1. replies'[h] = Append(replies[h], q) /\ replies[h] \in Seq(Reply)
        BY <1>1, <2>2, <3>2
      <4>. QED  BY <1>1, <1>9, <3>2, <4>1, AppendOf
    <3>. QED  BY <3>1, <3>2
  <2>. QED  BY <1>2, <2>1, <2>2
<1>10. ASSUME NEW h \in Gen, NEW i \in DOMAIN replies'[h]
       PROVE  /\ Ok(replies'[h][i]) /\ home[replies'[h][i].turn] = h
              /\ \A j \in DOMAIN replies'[h] : i < j => Before(replies'[h][i], replies'[h][j])
              /\ \A j \in DOMAIN delivered : Before(delivered[j], replies'[h][i])
  <2>1. CASE i \in DOMAIN replies[h] /\ replies'[h][i] = replies[h][i]
    <3>1. ASSUME NEW j \in DOMAIN replies'[h], i < j
          PROVE  Before(replies'[h][i], replies'[h][j])
      BY <1>8, <1>9, <2>1, <3>1
    <3>. QED  BY <1>8, <2>1, <3>1
  <2>2. CASE h = g /\ replies'[h][i] = q /\ \A j \in DOMAIN replies'[h] : ~ (i < j)
    BY <1>3, <1>6, <2>2
  <2>. QED  BY <1>9, <2>1, <2>2
<1>11. RepliesSound'
  BY <1>10 DEF RepliesSound, Counted, Before, SameChat
<1>. QED  BY <1>7, <1>11

LEMMA TurnRepliesOrder ==
  ASSUME IInv, OrderInv, NEW m \in Msg, TurnReplies(m)
  PROVE  OrderInv'
<1>1. /\ status[m] = "running" /\ status' = status /\ replies' = Said(m)
      /\ UNCHANGED <<gen, inbound, order, home, delivered, named, mem>> /\ gen \in Nat
      /\ said'[m] = said[m] + 1 /\ \A n \in Msg : n # m => said'[n] = said[n]
  BY DEF TurnReplies, storeVars, IInv, TypeOK, Gen, NoGen
<1>2. SentPrefix' /\ HomeKnown'
  BY <1>1, HomesStay
<1>3. InboundSound' /\ TableSound' /\ TurnOrder'
  BY <1>1, InboundStays, TableStays, TurnsStay
<1>4. RepliesSound' /\ DeliveredSound'
  BY <1>1, SaidOrder
<1>5. Remembered'
  BY <1>1, RememberedStays
<1>. QED  BY <1>2, <1>3, <1>4, <1>5 DEF OrderInv

LEMMA TurnEndsOrder ==
  ASSUME IInv, OrderInv, NEW m \in Msg, TurnEnds(m)
  PROVE  OrderInv'
<1>. DEFINE g == home[m]
<1>1. /\ status[m] = "running" /\ status \in [Msg -> Statuses]
      /\ UNCHANGED <<gen, inbound, order, home, delivered>>
      /\ gen \in Nat
  BY DEF TurnEnds, IInv, TypeOK, Gen, NoGen
<1>2. status'[m] = "done" /\ \A n \in Msg : n # m => status'[n] = status[n]
  BY <1>1 DEF TurnEnds
<1>3. g \in Gen
  BY <1>1 DEF OrderInv, HomeKnown
<1>4. \A n \in Msg : n # m => said'[n] = said[n]
  BY DEF TurnEnds, IInv, TypeOK
<1>5. SentPrefix' /\ HomeKnown'
  BY <1>1, <1>2, HomesStay
<1>6. InboundSound' /\ TableSound'
  BY <1>1, <1>2, InboundStays, TableStays DEF Taken, Spoken
<1>7. TurnOrder'
  <2>1. ASSUME NEW a \in Msg, NEW b \in Msg, a < b, SameChat(a, b),
               status'[a] \in {"waiting", "running"}
        PROVE  status'[b] \notin Spoken
    BY <1>1, <1>2, <2>1 DEF OrderInv, TurnOrder, Spoken
  <2>. QED  BY <1>1, <2>1 DEF TurnOrder, SameChat
<1>8. RepliesSound' /\ DeliveredSound'
  BY <1>1, <1>2, <1>4, SaidOrder DEF TurnEnds
<1>9. Remembered'
  <2>1. named \subseteq Msg /\ mem \in [Gen -> Sessions!Entries] /\ ChatOf[m] \in Chat
    BY ChatType DEF IInv, TypeOK, Sessions!StoreTypeOK
  <2>2. \A n \in Msg : status[n] = "done" => status'[n] = "done" /\ home'[n] = home[n]
    BY <1>1, <1>2
  <2>3. CASE UNCHANGED <<named, storeVars>>
    <3>1. named' = named /\ mem' = mem
      BY <2>3 DEF storeVars
    <3>. QED  BY <2>2, <3>1, RememberedStays
  <2>4. CASE Sessions!Remember(g, ChatOf[m], m) /\ named' = named \cup {m}
    <3>1. mem' = [mem EXCEPT ![g] = [mem[g] EXCEPT ![ChatOf[m]] = m]]
      BY <2>4 DEF Sessions!Remember
    <3>2. mem[g] \in Sessions!Entries
      BY <1>3, <2>1
    <3>3. mem'[g][ChatOf[m]] = m
      BY <1>3, <2>1, <3>1, <3>2 DEF Sessions!Entries
    <3>4. ASSUME NEW n \in named
          PROVE  /\ n \in Msg /\ status[n] = "done"
                 /\ mem[home[n]][ChatOf[n]] \in named
                 /\ SameChat(mem[home[n]][ChatOf[n]], n)
                 /\ n <= mem[home[n]][ChatOf[n]] /\ home[n] \in Gen
      <4>1. n \in Msg
        BY <2>1
      <4>. QED  BY <4>1 DEF OrderInv, Remembered, Stored, HomeKnown
    <3>5. ASSUME NEW n \in named
          PROVE  /\ status'[n] = "done" /\ mem'[home[n]][ChatOf[n]] \in named'
                 /\ SameChat(mem'[home[n]][ChatOf[n]], n)
                 /\ n <= mem'[home[n]][ChatOf[n]]
      <4>1. CASE SameChat(n, m)
        <5>1. mem'[home[n]][ChatOf[n]] = m
          BY <3>3, <4>1 DEF SameChat
        <5>2. n <= m
          BY <1>1, <3>4, <4>1 DEF OrderInv, TurnOrder, SameChat, Spoken, Msg
        <5>. QED  BY <2>2, <2>4, <3>4, <4>1, <5>1, <5>2 DEF SameChat
      <4>2. CASE ~ SameChat(n, m)
        <5>1. mem'[home[n]][ChatOf[n]] = mem[home[n]][ChatOf[n]]
          <6>1. CASE home[n] # g
            BY <1>3, <2>1, <3>1, <3>4, <6>1
          <6>2. CASE home[n] = g
            <7>1. ChatOf[n] # ChatOf[m] /\ ChatOf[n] \in Chat
              BY <3>4, <4>2, <6>2, ChatType DEF SameChat
            <7>2. mem'[g] = [mem[g] EXCEPT ![ChatOf[m]] = m]
              BY <1>3, <2>1, <3>1
            <7>. QED  BY <3>2, <6>2, <7>1, <7>2 DEF Sessions!Entries
          <6>. QED  BY <6>1, <6>2
        <5>. QED  BY <2>2, <2>4, <3>4, <5>1
      <4>. QED  BY <4>1, <4>2
    <3>. QED  BY <1>1, <1>2, <2>4, <3>3, <3>5 DEF Remembered, Stored, SameChat, Msg
  <2>. QED  BY <2>3, <2>4 DEF TurnEnds
<1>. QED  BY <1>5, <1>6, <1>7, <1>8, <1>9 DEF OrderInv

LEMMA WriteReplyOrder ==
  ASSUME IInv, OrderInv, NEW g \in Gen, WriteReply(g)
  PROVE  OrderInv'
<1>. DEFINE s == replies[g]
            t == Tail(s)
            r == Head(s)
<1>1. /\ UNCHANGED <<order, status, home, given, said, named, gen, inbound, mem>> /\ gen \in Nat
      /\ delivered' = delivered \/ delivered' = Append(delivered, r)
      /\ replies \in [Gen -> Seq(Reply)] /\ delivered \in Seq(Reply) /\ s # <<>>
  BY DEF WriteReply, messageVars, storeVars, IInv, TypeOK, Gen, NoGen
<1>2. replies'[g] = t /\ \A h \in Gen : h # g => replies'[h] = replies[h]
  BY <1>1 DEF WriteReply
<1>3. SentPrefix' /\ HomeKnown'
  BY <1>1, HomesStay
<1>4. TurnOrder' /\ TableSound' /\ InboundSound'
  BY <1>1, TurnsStay, TableStays, InboundStays
<1>5. Remembered'
  BY <1>1, RememberedStays
<1>6. /\ 1 \in DOMAIN s /\ r = s[1] /\ r \in Reply
      /\ \A i \in DOMAIN t : i + 1 \in DOMAIN s /\ t[i] = s[i + 1] /\ i \in Nat /\ 1 < i + 1
  BY <1>1, TailOf
<1>7. \A i \in DOMAIN delivered' :
        \/ i \in DOMAIN delivered /\ delivered'[i] = delivered[i]
        \/ delivered'[i] = r /\ \A j \in DOMAIN delivered' : ~ (i < j)
  <2>1. CASE delivered' = delivered
    BY <2>1
  <2>2. CASE delivered' = Append(delivered, r)
    BY <1>1, <1>6, <2>2, AppendOf
  <2>. QED  BY <1>1, <2>1, <2>2
<1>8. /\ \A h \in Gen : \A i \in DOMAIN replies[h] :
           /\ Counted(replies[h][i]) /\ home[replies[h][i].turn] = h
           /\ \A j \in DOMAIN replies[h] : i < j => Before(replies[h][i], replies[h][j])
           /\ \A j \in DOMAIN delivered : Before(delivered[j], replies[h][i])
      /\ \A i \in DOMAIN delivered :
           /\ Counted(delivered[i])
           /\ \A j \in DOMAIN delivered : i < j => Before(delivered[i], delivered[j])
  BY DEF OrderInv, RepliesSound, DeliveredSound
<1>9. /\ Counted(r) /\ home[r.turn] = g
      /\ \A i \in DOMAIN t : Before(r, t[i])
      /\ \A j \in DOMAIN delivered : Before(delivered[j], r)
  BY <1>6, <1>8
<1>10. \A h \in Gen : h # g => \A i \in DOMAIN replies[h] : Before(r, replies[h][i])
  BY <1>8, <1>9 DEF Before, SameChat
<1>11. /\ \A i \in DOMAIN t : /\ Counted(t[i]) /\ home[t[i].turn] = g
                              /\ \A j \in DOMAIN delivered : Before(delivered[j], t[i])
       /\ \A i, j \in DOMAIN t : i < j => Before(t[i], t[j])
  <2>1. ASSUME NEW i \in DOMAIN t, NEW j \in DOMAIN t, i < j PROVE Before(t[i], t[j])
    <3>1. i + 1 \in DOMAIN s /\ j + 1 \in DOMAIN s /\ i + 1 < j + 1
      BY <1>6, <2>1
    <3>. QED  BY <1>6, <1>8, <3>1
  <2>. QED  BY <1>6, <1>8, <2>1
<1>. HIDE DEF r, t, s
<1>12. DeliveredSound'
  <2>1. ASSUME NEW i \in DOMAIN delivered' PROVE Counted(delivered'[i])
    BY <1>7, <1>8, <1>9
  <2>2. ASSUME NEW i \in DOMAIN delivered', NEW j \in DOMAIN delivered', i < j
        PROVE  Before(delivered'[i], delivered'[j])
    BY <1>7, <1>8, <1>9, <2>2
  <2>. QED  BY <1>1, <2>1, <2>2 DEF DeliveredSound, Counted, Before, SameChat
<1>13. RepliesSound'
  <2>1. ASSUME NEW h \in Gen, NEW i \in DOMAIN replies'[h], NEW j \in DOMAIN delivered'
        PROVE  Before(delivered'[j], replies'[h][i])
    BY <1>2, <1>7, <1>8, <1>9, <1>10, <1>11
  <2>2. ASSUME NEW h \in Gen, NEW i \in DOMAIN replies'[h]
        PROVE  /\ Counted(replies'[h][i]) /\ home[replies'[h][i].turn] = h
               /\ \A j \in DOMAIN replies'[h] : i < j => Before(replies'[h][i], replies'[h][j])
    BY <1>2, <1>8, <1>11
  <2>. QED  BY <1>1, <2>1, <2>2 DEF RepliesSound, Counted, Before, SameChat
<1>. QED  BY <1>3, <1>4, <1>5, <1>12, <1>13 DEF OrderInv

LEMMA OrderStep == IInv /\ OrderInv /\ [Next]_vars => OrderInv'
<1>. SUFFICES ASSUME IInv, OrderInv, [Next]_vars PROVE OrderInv'
  OBVIOUS
<1>1. CASE Start
  <2>1. UNCHANGED <<inbound, replies, delivered, messageVars>> /\ BuildTransport
    BY <1>1 DEF Start, channelVars
  <2>2. InboundSound'
    BY <2>1, InboundStays DEF messageVars
  <2>. QED  BY <2>1, <2>2, BuildOrder
<1>2. CASE Exit \/ Kill
  BY <1>2, EndOrder DEF Exit, Kill, storeVars, Sessions!Killed
<1>3. CASE NextMessage
  BY <1>3, NextMessageOrder
<1>4. CASE NextTokenRejected
  BY <1>4, NextTokenOrder
<1>5. ASSUME NEW g \in Gen,
             \/ DropStore(g) \/ IntervalEnds(g)
             \/ Connect(g) \/ KickFromOutside(g) \/ Disconnect(g) \/ SendersGone(g)
      PROVE  OrderInv'
  <2>1. UNCHANGED <<gen, inbound, replies, delivered, messageVars, mem>>
    BY <1>5 DEF DropStore, IntervalEnds, Connect, KickFromOutside, Disconnect, SendersGone,
      channelVars, storeVars, Sessions!DropStore, Sessions!IntervalEnds
  <2>. QED  BY <2>1, QuietOrder
<1>6. ASSUME NEW g \in Gen, WriteReply(g) \/ ReadKickEvent(g) PROVE OrderInv'
  BY <1>6, WriteReplyOrder, ReadKickOrder
<1>7. ASSUME NEW g \in Gen, NEW m \in Msg, ReadMessage(g, m) PROVE OrderInv'
  BY <1>7, ReadMessageOrder
<1>8. ASSUME NEW m \in Msg, TurnStarts(m) \/ TurnReplies(m) \/ TurnEnds(m)
      PROVE  OrderInv'
  BY <1>8, TurnStartsOrder, TurnRepliesOrder, TurnEndsOrder
<1>9. CASE UNCHANGED vars
  BY <1>9, QuietOrder DEF vars, channelVars, storeVars
<1>. QED  BY <1>1, <1>2, <1>3, <1>4, <1>5, <1>6, <1>7, <1>8, <1>9 DEF Next

LEMMA Always == Spec => [](IInv /\ OrderInv)
<1>1. Init => IInv /\ OrderInv
  BY InitIInv, OrderInit
<1>2. (IInv /\ OrderInv) /\ [Next]_vars => (IInv /\ OrderInv)'
  BY IInvStep, OrderStep
<1>. QED  BY <1>1, <1>2, PTL DEF Spec

-----------------------------------------------------------------------------
(* The results                                                             *)

(* The channel and its stores keep their types, and the req_id table its   *)
(* bound, for any number of messages, chats and transports.                *)
THEOREM TypeCorrect == Spec => []TypeOK
<1>1. IInv => TypeOK
  BY DEF IInv
<1> QED
  BY InitIInv, IInvStep, <1>1, PTL DEF Spec

(* SessionStore::remember, flush_locked and Drop: a store that was the last*)
(* to replace the file and has no dirty mark has every entry in the file.  *)
THEOREM CleanStoresAreSaved == Spec => []CleanMeansSaved
<1>1. IInv => CleanMeansSaved
  BY DEF IInv
<1> QED
  BY InitIInv, IInvStep, <1>1, PTL DEF Spec

(* wecom.rs, run_once: a reply leaves the channel before it is written, so *)
(* that none is written twice, and those of a chat that went through one   *)
(* transport appear turn by turn, and in a turn as they were sent.         *)
THEOREM RepliesInOrder == Spec => []RepliesOnceInOrder
<1>1. IInv /\ OrderInv => RepliesOnceInOrder
  BY DEF OrderInv, DeliveredSound, RepliesOnceInOrder
<1>. QED  BY <1>1, Always, PTL

(* inbound_session: a message is forgotten only when as many newer ones as *)
(* the table holds have come in on its transport.                          *)
LEMMA ForgottenIsOld ==
  ASSUME IInv, OrderInv, NEW m \in Msg, status[m] # "unsent", m \notin Range(order[home[m]])
  PROVE  ~ (Cardinality({ n \in Msg : n > m /\ home[n] = home[m] }) < MapMax)
<1>. DEFINE g == home[m]
            q == order[g]
            Newer == { n \in Msg : n > m /\ home[n] = home[m] }
<1>1. g \in Gen /\ q \in Seq(Msg) /\ MapMax \in Nat
  BY WecomAssumption DEF OrderInv, HomeKnown, IInv, TypeOK
<1>2. /\ Len(q) = MapMax
      /\ \A i \in DOMAIN q : m < q[i] /\ home[q[i]] = g
      /\ \A i, j \in DOMAIN q : i < j => q[i] < q[j]
  BY <1>1 DEF OrderInv, TableSound, InTable
<1>3. DOMAIN q = 1 .. MapMax /\ \A i \in 1 .. MapMax : q[i] \in Msg
  BY <1>1, <1>2
<1>4. IsFiniteSet(Newer)
  <2>1. IsFiniteSet(Msg)
    BY FS_Interval, WecomAssumption DEF Msg
  <2>. QED  BY <2>1, FS_Subset
<1>5. q \in Injection(1 .. MapMax, Newer)
  <2>1. q = [i \in 1 .. MapMax |-> q[i]]
    BY <1>1, <1>2
  <2>2. \A i \in 1 .. MapMax : q[i] \in Newer
    BY <1>2, <1>3 DEF Msg
  <2>. HIDE DEF q, Newer
  <2>3. q \in [1 .. MapMax -> Newer]
    BY <2>1, <2>2
  <2>4. ASSUME NEW i \in 1 .. MapMax, NEW j \in 1 .. MapMax, q[i] = q[j], i # j
        PROVE  FALSE
    <3>1. i < j \/ j < i
      BY <2>4
    <3>. QED  BY <1>2, <1>3, <2>4, <3>1 DEF Msg
  <2>. QED  BY <1>3, <2>3, <2>4 DEF Injection, IsInjective
<1>. HIDE DEF q, Newer
<1>6. Cardinality(1 .. MapMax) <= Cardinality(Newer)
  BY <1>4, <1>5, FS_Injection
<1>7. Cardinality(1 .. MapMax) = MapMax /\ Cardinality(Newer) \in Nat
  BY <1>1, <1>4, FS_Interval, FS_CardinalityType
<1>. QED  BY <1>1, <1>6, <1>7 DEF Newer

(* The reply of a turn finds its chat unless that happened.                *)
THEOREM RepliesFindTheirChat == Spec => []ReplyFindsItsChat
<1>1. IInv /\ OrderInv => ReplyFindsItsChat
  BY ForgottenIsOld DEF ReplyFindsItsChat
<1>. QED  BY <1>1, Always, PTL

(* lookup at the callback, remember at the turn's end: a message that comes*)
(* when its chat is quiet resumes the session its last turn ended with.    *)
THEOREM QuietChatsResume == Spec => SpacedTurnsResume
<1>. DEFINE Resumes == \A m \in Msg, g \in Gen :
       /\ status[m] = "unsent" /\ status'[m] = "inbound" /\ home'[m] = g
       /\ NamedBefore(m, g) # {}
       /\ \A n \in 1 .. m - 1 : home[n] = g /\ ChatOf[n] = ChatOf[m] =>
            status[n] = "done"
       => given'[m] = Max(NamedBefore(m, g))
<1>1. ASSUME IInv, OrderInv, [Next]_vars PROVE Resumes
  <2>. SUFFICES ASSUME NEW m \in Msg, NEW g \in Gen,
                       status[m] = "unsent", status'[m] = "inbound", home'[m] = g,
                       NamedBefore(m, g) # {}
                PROVE  given'[m] = Max(NamedBefore(m, g))
    OBVIOUS
  <2>1. PICK h \in Gen, k \in Msg : ReadMessage(h, k)
    <3>1. home[m] = NoGen
      BY <1>1 DEF OrderInv, HomeKnown
    <3>2. home' # home
      BY <3>1 DEF Gen, NoGen
    <3>. QED  BY <1>1, <3>2 DEF Next, vars, messageVars, channelVars, Start, Exit, Kill,
                EndProcess, NextMessage, NextTokenRejected, DropStore, IntervalEnds, Connect,
                KickFromOutside, Disconnect, SendersGone, WriteReply, ReadKickEvent,
                TurnStarts, TurnReplies, TurnEnds
  <2>2. status \in [Msg -> Statuses] /\ home \in [Msg -> Gen \cup {NoGen}]
        /\ given \in [Msg -> Msg \cup {Fresh}] /\ named \subseteq Msg
    BY <1>1 DEF IInv, TypeOK
  <2>3. k = m
    BY <2>1, <2>2 DEF ReadMessage
  <2>4. h = g
    BY <2>1, <2>2, <2>3 DEF ReadMessage
  <2>5. given'[m] = mem[g][ChatOf[m]]
    BY <2>1, <2>2, <2>3, <2>4 DEF ReadMessage, Sessions!Lookup
  <2>. DEFINE S == NamedBefore(m, g)
              x == mem[g][ChatOf[m]]
  <2>6. \A n \in Msg : status[n] = "done" => n < m
    BY <1>1 DEF OrderInv, SentPrefix, Msg
  <2>7. ASSUME NEW n \in S PROVE x \in S /\ n <= x
    <3>1. n \in named /\ home[n] = g /\ ChatOf[n] = ChatOf[m]
      BY DEF NamedBefore
    <3>2. x \in named /\ home[x] = g /\ ChatOf[x] = ChatOf[m] /\ n <= x /\ status[x] = "done"
      BY <1>1, <3>1 DEF OrderInv, Remembered, Stored, SameChat
    <3>. QED  BY <2>2, <2>6, <3>2 DEF NamedBefore
  <2>8. x \in S /\ \A n \in S : n <= x
    BY <2>7
  <2>9. S \subseteq Nat
    <3>1. S \subseteq named
      BY DEF NamedBefore
    <3>2. Msg \subseteq Nat
      BY DEF Msg
    <3>. QED  BY <2>2, <3>1, <3>2
  <2>. HIDE DEF S, x
  <2>10. \A y \in S : (\A n \in S : y >= n) => y = x
    BY <2>8, <2>9
  <2>11. x \in S /\ \A n \in S : x >= n
    BY <2>8, <2>9
  <2>12. Max(S) = x
    BY <2>10, <2>11 DEF Max
  <2>. QED  BY <2>5, <2>12 DEF S, x
<1>2. (IInv /\ OrderInv) /\ [Next]_vars => [Resumes]_vars
  BY <1>1
<1>. HIDE DEF Resumes
<1>3. Spec => [][Resumes]_vars
  BY <1>2, Always, PTL DEF Spec
<1>. QED  BY <1>3 DEF SpacedTurnsResume, Resumes
=============================================================================
