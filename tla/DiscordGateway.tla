--------------------------- MODULE DiscordGateway ---------------------------
(***************************************************************************)
(* The worker task of transport/discord.rs: it keeps a connection to the   *)
(* Discord gateway, heartbeats on it, and passes messages to the pump.     *)
(* When a connection ends the worker may have what it takes to resume the  *)
(* session, and the gateway then replays what it has not sent; otherwise   *)
(* it identifies, which begins a session.  The gateway is external.        *)
(*                                                                         *)
(* A session is its log: READY, then the messages of its time; the         *)
(* sequence number the worker keeps is a position in it.                   *)
(***************************************************************************)
EXTENDS Naturals, Sequences, FiniteSets, Functions

CONSTANTS
  Arrivals,      \* bound: messages that arrive
  MaxSessions,   \* bound: sessions the gateway begins
  MaxTicks,      \* bound: heartbeats waiting in the worker's channel
  MaxBreaks      \* bound: connections and sessions that end or fail

Msg == 1 .. Arrivals
Session == 1 .. MaxSessions
Ready == 0
NoSession == 0
NoResume == [session |-> NoSession, seq |-> 0]

(* "text" has a text; "media" only attachments, which take a download that *)
(* may fail; "other" neither, or it comes from a bot or from this one.     *)
Class == {"text", "media", "other"}

(* What is assumed of the constants; module Transports has it checked.     *)
DiscordAssumption ==
  /\ {Arrivals, MaxTicks, MaxBreaks} \subseteq Nat
  /\ MaxSessions \in Nat \ {0}

VARIABLES
  class,     \* what each message is
  arrived,   \* messages that arrived
  begun,     \* sessions the gateway has begun
  log,       \* the log of each session
  over,      \* sessions that cannot be resumed
  conn,      \* "down" (connecting, or asleep before it), "open" or "hung"
  resume,    \* what run() kept of the last connection to resume with
  current,   \* the gateway's session of this connection
  session,   \* the worker's session_id and resume_url, from READY
  seq,       \* the worker's sequence number
  ticks,     \* heartbeats the interval task has asked for
  ack,       \* heartbeat_ack
  acks,      \* answers to heartbeats on their way
  working,   \* the message whose attachments are being downloaded
  inbox,     \* messages given to the pump
  rejected,  \* TokenRejected was given to the pump
  breaks     \* bound: breaks left

gatewayVars == <<begun, log, over>>
beatVars == <<ticks, ack, acks>>
linkVars == <<conn, resume, current, session, seq>>
discordVars == <<gatewayVars, linkVars, beatVars, working, inbox, rejected, breaks>>
vars == <<class, arrived, discordVars>>

Nothing == 0

DiscordInit ==
  /\ begun = 0
  /\ log = [s \in Session |-> <<>>]
  /\ over = {}
  /\ conn = "down"
  /\ resume = NoResume
  /\ current = NoSession /\ session = NoSession
  /\ seq = 0
  /\ ticks = 0 /\ ack = TRUE /\ acks = 0
  /\ working = Nothing
  /\ inbox = <<>>
  /\ rejected = FALSE
  /\ breaks = MaxBreaks

Init == class \in [Msg -> Class] /\ arrived = 0 /\ DiscordInit

Break == breaks > 0 /\ breaks' = breaks - 1

(* The gateway logs a message for every session that may be resumed.       *)
Arrive ==
  /\ arrived < Arrivals
  /\ arrived' = arrived + 1
  /\ log' = [s \in Session |->
               IF s <= begun /\ s \notin over THEN Append(log[s], arrived + 1) ELSE log[s]]
  /\ UNCHANGED <<class, begun, over, linkVars, beatVars, working, inbox, rejected, breaks>>

-----------------------------------------------------------------------------
(* run: one connection after the other                                     *)

NewConnection ==
  /\ conn = "down"
  /\ resume' = NoResume
  /\ conn' = "open"
  /\ session' = NoSession
  /\ ticks' = 0 /\ ack' = TRUE /\ acks' = 0

(* HELLO, then IDENTIFY: the gateway begins a session.                     *)
Identify ==
  /\ resume = NoResume /\ begun < MaxSessions
  /\ NewConnection
  /\ begun' = begun + 1
  /\ log' = [log EXCEPT ![begun + 1] = <<Ready>>]
  /\ over' = 1 .. begun
  /\ current' = begun + 1
  /\ seq' = 0
  /\ UNCHANGED <<class, arrived, working, inbox, rejected, breaks>>

(* HELLO, then RESUME; a session that is over gets INVALID_SESSION.        *)
Resume ==
  /\ resume # NoResume
  /\ NewConnection
  /\ current' = IF resume.session \in over THEN NoSession ELSE resume.session
  /\ seq' = resume.seq
  /\ UNCHANGED <<class, arrived, gatewayVars, working, inbox, rejected, breaks>>

(* Mutant: the worker returns on an error, as it does on no other end.     *)
ConnectFailsForGood ==
  /\ conn = "down" /\ Break
  /\ conn' = "dead"
  /\ resume' = NoResume
  /\ UNCHANGED <<class, arrived, gatewayVars, current, session, seq, beatVars,
                 working, inbox, rejected>>

(* resume.take(): an attempt that fails has used the resume info up.       *)
ConnectFails ==
  /\ conn = "down" /\ Break
  /\ resume' = NoResume
  /\ UNCHANGED <<class, arrived, gatewayVars, conn, current, session, seq, beatVars,
                 working, inbox, rejected>>

(* connect_async has no timeout: a gateway that takes the connection and   *)
(* never answers the handshake holds the worker for ever.                  *)
HandshakeHangs ==
  /\ conn = "down"
  /\ conn' = "hung"
  /\ resume' = NoResume
  /\ UNCHANGED <<class, arrived, gatewayVars, current, session, seq, beatVars,
                 working, inbox, rejected, breaks>>

(* run_session returns; its attachments still downloading are dropped.     *)
End(info) ==
  /\ conn = "open" /\ Break
  /\ conn' = "down"
  /\ resume' = info
  /\ current' = NoSession
  /\ session' = NoSession /\ seq' = 0
  /\ working' = Nothing
  /\ ticks' = 0 /\ ack' = TRUE /\ acks' = 0
  /\ UNCHANGED <<class, arrived, gatewayVars, inbox>>

(* Mutant: the number of the event expected next is kept.                  *)
ResumeInfoNext ==
  IF session = NoSession THEN NoResume ELSE [session |-> session, seq |-> seq + 1]

ResumeInfo ==
  IF session = NoSession THEN NoResume ELSE [session |-> session, seq |-> seq]

-----------------------------------------------------------------------------
(* run_session: the biased select of heartbeats and frames                 *)

(* The select is polled again; heartbeats come before frames.              *)
Selecting == conn = "open" /\ working = Nothing
Reading == Selecting /\ ticks = 0

(* The interval task does not wait for the worker.                         *)
Tick ==
  /\ conn = "open" /\ ticks < MaxTicks
  /\ ticks' = ticks + 1
  /\ UNCHANGED <<class, arrived, gatewayVars, linkVars, ack, acks, working, inbox,
                 rejected, breaks>>

Heartbeat ==
  /\ Selecting /\ ticks > 0 /\ ack
  /\ ticks' = ticks - 1
  /\ ack' = FALSE
  /\ acks' = acks + 1
  /\ UNCHANGED <<class, arrived, gatewayVars, linkVars, working, inbox, rejected, breaks>>

MissedAck ==
  /\ Selecting /\ ticks > 0 /\ ~ ack
  /\ End(NoResume)
  /\ UNCHANGED rejected

ReadAck ==
  /\ Reading /\ acks > 0
  /\ acks' = acks - 1
  /\ ack' = TRUE
  /\ UNCHANGED <<class, arrived, gatewayVars, linkVars, ticks, working, inbox, rejected,
                 breaks>>

NextEvent == log[current][seq + 1]
HasEvent == Reading /\ current # NoSession /\ seq < Len(log[current])

ReadReady ==
  /\ HasEvent /\ NextEvent = Ready
  /\ seq' = seq + 1
  /\ session' = current
  /\ UNCHANGED <<class, arrived, gatewayVars, conn, resume, current, beatVars, working,
                 inbox, rejected, breaks>>

(* MESSAGE_CREATE: the number is kept first, then the message converted,   *)
(* with downloads that hold up the whole select.                           *)
ReadMessage ==
  /\ HasEvent /\ NextEvent # Ready
  /\ seq' = seq + 1
  /\ \/ class[NextEvent] = "other" /\ UNCHANGED <<working, inbox>>
     \/ class[NextEvent] = "text" /\ inbox' = Append(inbox, NextEvent) /\ UNCHANGED working
     \/ class[NextEvent] # "other" /\ working' = NextEvent /\ UNCHANGED inbox
  /\ UNCHANGED <<class, arrived, gatewayVars, conn, resume, current, session, beatVars,
                 rejected, breaks>>

Downloaded ==
  /\ working # Nothing
  /\ working' = Nothing
  /\ \/ inbox' = Append(inbox, working)
     \/ class[working] = "media" /\ UNCHANGED inbox
  /\ UNCHANGED <<class, arrived, gatewayVars, linkVars, beatVars, rejected, breaks>>

(* OP_RECONNECT, or OP_INVALID_SESSION that allows to resume.              *)
AskedToResume ==
  /\ Reading /\ current # NoSession
  /\ End(ResumeInfo)
  /\ UNCHANGED rejected

InvalidSession ==
  /\ Reading
  /\ End(NoResume)
  /\ UNCHANGED rejected

(* The stream fails or ends, a frame does not parse, a write fails.        *)
ConnectionLost == conn = "open" /\ End(NoResume) /\ UNCHANGED rejected

(* NO_RECONNECT_CODES: the pump is told, and run goes round.               *)
FatalClose == Reading /\ End(NoResume) /\ rejected' = TRUE

SessionExpires(s) ==
  /\ s \in (1 .. begun) \ over /\ conn = "down" /\ Break
  /\ over' = over \cup {s}
  /\ UNCHANGED <<class, arrived, begun, log, linkVars, beatVars, working, inbox, rejected>>

Run ==
  \/ Identify \/ Resume \/ Heartbeat \/ MissedAck \/ ReadAck
  \/ ReadReady \/ ReadMessage \/ Downloaded

DiscordNext ==
  \/ Run \/ Tick \/ ConnectFails \/ HandshakeHangs \/ AskedToResume
  \/ InvalidSession \/ ConnectionLost \/ FatalClose \/ \E s \in Session : SessionExpires(s)

Next == Arrive \/ DiscordNext

Spec == Init /\ [][Next]_vars /\ WF_vars(Run)

-----------------------------------------------------------------------------
(* Properties                                                              *)

TypeOK ==
  /\ class \in [Msg -> Class]
  /\ arrived \in 0 .. Arrivals
  /\ begun \in 0 .. MaxSessions
  /\ log \in [Session -> Seq(Msg \cup {Ready})]
  /\ over \subseteq 1 .. begun
  /\ conn \in {"down", "open", "hung"}
  /\ resume \in [session : 0 .. begun, seq : Nat]
  /\ current \in 0 .. begun /\ session \in {NoSession, current}
  /\ seq \in Nat
  /\ ticks \in 0 .. MaxTicks /\ ack \in BOOLEAN /\ acks \in Nat
  /\ working \in Msg \cup {Nothing}
  /\ inbox \in Seq(Msg)
  /\ rejected \in BOOLEAN
  /\ breaks \in 0 .. MaxBreaks

(* The pump gets messages in their order and none twice, although a resume *)
(* makes the gateway send again what the worker may have had.              *)
InOrderOnce == \A i, j \in DOMAIN inbox : i < j => inbox[i] < inbox[j]

(* As long as a session lives, over any number of connections, nothing it  *)
(* logged with a text is missing of what was read; only a new session has  *)
(* a gap before it.  A download cut off by the end of a connection is the  *)
(* one exception.                                                          *)
ReadUpTo(s, n) ==
  \A i \in DOMAIN log[s] :
    LET m == log[s][i]
    IN i <= n /\ m # Ready /\ class[m] = "text" => m \in Range(inbox) \cup {working}

NoGapInSession ==
  /\ current # NoSession => ReadUpTo(current, seq)
  /\ resume # NoResume => ReadUpTo(resume.session, resume.seq)

(* Whatever ends its connections, the worker is connected again, unless a  *)
(* handshake hangs.                                                        *)
Reconnects == []<>(conn \in {"open", "hung"})
=============================================================================
