----------------------------- MODULE Transports -----------------------------
(***************************************************************************)
(* transport/registry.rs and the inbound side of the transports it builds: *)
(* the run loop asks for the kind that the profile names, and the pump     *)
(* then receives from that adapter alone.  PollingAdapter models iLink and *)
(* Telegram, DiscordGateway and FeishuEvents the workers behind the other  *)
(* channels; WeCom has a run of its own (WecomChannel).                    *)
(***************************************************************************)
EXTENDS Naturals, Sequences

CONSTANTS
  Arrivals,                             \* bound: messages that arrive
  MaxRuns,                              \* bound: see PollingAdapter
  MaxSessions, MaxTicks, MaxBreaks,     \* bounds: see DiscordGateway
  MaxTasks, MaxNow,                     \* bounds: see FeishuEvents
  Buffer, MaxRefresh, MaxUse, Lives     \* see FeishuEvents

VARIABLES
  profile,    \* transport:, im_credentials: and --allow-null-transport
  kind,       \* what runs: "none", a registered kind, "null" or "failed"
  class,      \* what each message is
  arrived,    \* messages that arrived
  inbox,      \* messages given to the pump
  confirmed, buf, seen, handed, runs,
  begun, log, over, conn, resume, current, session, seq, ticks, ack, acks,
  working, rejected, breaks,
  now, listens, tasks, mutex, cache

Poll == INSTANCE PollingAdapter
Discord == INSTANCE DiscordGateway
Feishu == INSTANCE FeishuEvents

ASSUME TransportsAssumption ==
  Poll!PollingAssumption /\ Discord!DiscordAssumption /\ Feishu!FeishuAssumption

pollOnly == <<confirmed, buf, seen, handed, runs>>
discordOnly == <<begun, log, over, conn, resume, current, session, seq, ticks, ack,
                 acks, working, rejected, breaks>>
feishuOnly == <<now, listens, tasks, mutex, cache>>
vars == <<profile, kind, class, arrived, inbox, pollOnly, discordOnly, feishuOnly>>

Registered == {"ilink", "telegram", "discord", "feishu", "null"}
Profile ==
  { p \in [kind : Registered \cup {"unknown"}, creds : BOOLEAN, allowNull : BOOLEAN] :
      p.allowNull => p.kind = "unknown" }

Init ==
  /\ profile \in Profile
  /\ kind = "none"
  /\ class \in [1 .. Arrivals -> Poll!Class]
  /\ arrived = 0
  /\ Poll!PollInit /\ Discord!DiscordInit /\ Feishu!FeishuInit

(* A registered factory, else the placeholder if it was asked for, else no *)
(* transport; a factory fails without credentials.  A run that fails has   *)
(* no successor here: the run loop returns the error.                      *)
Built ==
  IF profile.kind \in Registered
  THEN IF profile.creds \/ profile.kind = "null" THEN profile.kind ELSE "failed"
  ELSE IF profile.allowNull THEN "null" ELSE "failed"

Build ==
  /\ kind = "none"
  /\ kind' = Built
  /\ UNCHANGED <<profile, class, arrived, inbox, pollOnly, discordOnly, feishuOnly>>

(* A message arrives at the platform, where Discord alone logs it for      *)
(* connections yet to come.                                                *)
Arrive ==
  /\ kind \in Registered \ {"null"}
  /\ IF kind = "discord" THEN Discord!Arrive
     ELSE Poll!Arrive /\ UNCHANGED discordOnly
  /\ UNCHANGED <<profile, kind, pollOnly, feishuOnly>>

Receive ==
  \/ /\ kind \in {"ilink", "telegram"} /\ Poll!PollNext
     /\ UNCHANGED <<discordOnly, feishuOnly>>
  \/ /\ kind = "discord" /\ Discord!DiscordNext
     /\ UNCHANGED <<pollOnly, feishuOnly>>
  \/ /\ kind = "feishu" /\ Feishu!FeishuNext
     /\ UNCHANGED <<pollOnly, discordOnly>>

Next == Build \/ Arrive \/ (Receive /\ UNCHANGED <<profile, kind>>)

(* The transport is built, and the Discord worker is scheduled.            *)
Fairness ==
  /\ WF_vars(Build)
  /\ WF_vars(/\ kind = "discord" /\ Discord!Run
             /\ UNCHANGED <<profile, kind, pollOnly, feishuOnly>>)

Spec == Init /\ [][Next]_vars /\ Fairness

-----------------------------------------------------------------------------
(* Properties                                                              *)

(* Every variable has its type, whichever adapter runs; among others a     *)
(* Discord worker never holds a session other than its connection's.       *)
TypeOK ==
  /\ profile \in Profile
  /\ kind \in Registered \cup {"none", "failed"}
  /\ kind \in {"ilink", "telegram"} => Poll!TypeOK
  /\ kind = "discord" => Discord!TypeOK
  /\ kind = "feishu" => Feishu!TypeOK

(* In one run the pump gets the messages in the order of their arrival and *)
(* none twice, over lost answers, repeated requests, resumed connections   *)
(* and new sessions.  Feishu is left out: see the README.                  *)
InOrderOnce == kind # "feishu" => Poll!InOrderOnce

(* The cursor of a polling adapter never passes a message with a text that *)
(* no run was given, whatever answers are lost and runs begin.             *)
TextNeverSkipped == Poll!TextNeverSkipped

(* A Discord session has no gap: see DiscordGateway.                       *)
NoGapInSession == Discord!NoGapInSession

(* Whatever ends its connections, the Discord worker connects again; only  *)
(* a handshake that the gateway never answers holds it up for good.        *)
Reconnects == []<>(kind = "discord" => conn \in {"open", "hung"})

(* No Feishu request carries an expired token: see FeishuEvents.           *)
UsedTokenAlive == Feishu!UsedTokenAlive
=============================================================================
