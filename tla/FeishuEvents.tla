---------------------------- MODULE FeishuEvents ----------------------------
(***************************************************************************)
(* transport/feishu.rs: the tasks that use the tenant_access_token, which  *)
(* are the handlers of inbound events and the sends of replies and media,  *)
(* and the token cache they share.  A tokio mutex guards the cache and is  *)
(* held across the request for a new token.  The SDK, which keeps the      *)
(* WebSocket connection and calls the handler, is external: it may handle  *)
(* several events at a time, and an event it did not acknowledge comes     *)
(* again.  Time is a clock of ticks, and requests have the limits that the *)
(* HTTP client sets.                                                       *)
(***************************************************************************)
EXTENDS Naturals, Sequences, FiniteSets, FiniteSetsExt

CONSTANTS
  Arrivals,   \* bound: messages that arrive
  MaxTasks,   \* bound: handlers and sends
  MaxNow,     \* bound: ticks
  Buffer,     \* TOKEN_REFRESH_BUFFER_SECS, 300 s
  MaxRefresh, \* the limit of the token request, 30 s
  MaxUse,     \* the limits of a download, or of fetch, upload and send, 90 s
  Lives       \* lifetimes the platform gives to tokens, expire

Msg == 1 .. Arrivals
Reply == 0
Class == {"text", "media", "other"}
NoToken == [dies |-> 0, created |-> 0, expire |-> 0]

(* What is assumed of the constants; module Transports has it checked.     *)
(* The platform documents tokens of two hours, and of half an hour at the  *)
(* least when it returns one again.                                        *)
FeishuAssumption ==
  /\ {Arrivals, MaxTasks, MaxNow, Buffer, MaxRefresh, MaxUse} \subseteq Nat
  /\ Lives \subseteq Nat
  /\ \A life \in Lives : life > MaxRefresh + MaxUse
  /\ Buffer >= MaxRefresh + MaxUse

VARIABLES
  class,    \* what each message is
  arrived,  \* messages that arrived
  now,      \* the clock
  listens,  \* the SDK's start() has not returned
  tasks,    \* handlers and sends, with their job, place and token
  mutex,    \* the task that holds token_cache, or 0
  cache,    \* token_cache
  inbox     \* messages given to the pump

feishuVars == <<now, listens, tasks, mutex, cache, inbox>>
vars == <<class, arrived, feishuVars>>

FeishuInit ==
  /\ now = 0
  /\ listens = TRUE
  /\ tasks = <<>>
  /\ mutex = 0
  /\ cache = NoToken
  /\ inbox = <<>>

Init == class \in [Msg -> Class] /\ arrived = 0 /\ FeishuInit

Arrive ==
  /\ arrived < Arrivals
  /\ arrived' = arrived + 1
  /\ UNCHANGED <<class, feishuVars>>

Begin(job) ==
  /\ Len(tasks) < MaxTasks
  /\ tasks' = Append(tasks, [job |-> job, pc |-> "lock", since |-> now, dies |-> 0])

Moves(t, pc, dies) ==
  tasks' = [tasks EXCEPT ![t] = [job |-> tasks[t].job, pc |-> pc, since |-> now, dies |-> dies]]

Ends(t) == tasks' = [tasks EXCEPT ![t] = [job |-> Reply, pc |-> "done", since |-> 0, dies |-> 0]]

-----------------------------------------------------------------------------
(* feishu_event_to_inbound: a text needs no request, and an event of a bot *)
(* or of an unsupported type is dropped.                                   *)
Event(m) ==
  /\ listens /\ m \in 1 .. arrived
  /\ CASE class[m] = "text" -> inbox' = Append(inbox, m) /\ UNCHANGED tasks
       [] class[m] = "media" -> Begin(m) /\ UNCHANGED inbox
       [] OTHER -> UNCHANGED <<tasks, inbox>>
  /\ Len(inbox') <= MaxTasks
  /\ UNCHANGED <<class, arrived, now, listens, mutex, cache>>

(* send_reply with a text, send_media.                                     *)
Send ==
  /\ Begin(Reply)
  /\ UNCHANGED <<class, arrived, now, listens, mutex, cache, inbox>>

(* Mutant: the token is used as long as it lives.                          *)
IsValidToTheEnd(c) == (now - c.created) < c.expire

IsValid(c) == (now - c.created) + Buffer < c.expire

(* feishu_get_token.                                                       *)
Lock(t) ==
  /\ tasks[t].pc = "lock" /\ mutex = 0
  /\ IF IsValid(cache) THEN Moves(t, "use", cache.dies) /\ UNCHANGED mutex
     ELSE Moves(t, "refresh", 0) /\ mutex' = t
  /\ UNCHANGED <<class, arrived, now, listens, cache, inbox>>

(* created_at is the time of the answer, later than that of the issue.     *)
Refreshed(t) ==
  /\ tasks[t].pc = "refresh"
  /\ \E issued \in tasks[t].since .. now, life \in Lives :
       /\ cache' = [dies |-> issued + life, created |-> now, expire |-> life]
       /\ Moves(t, "use", issued + life)
  /\ mutex' = 0
  /\ UNCHANGED <<class, arrived, now, listens, inbox>>

(* The request fails, or the task is dropped at it; a message whose file   *)
(* cannot be had is dropped.                                               *)
RefreshFails(t) ==
  /\ tasks[t].pc = "refresh"
  /\ Ends(t)
  /\ mutex' = 0
  /\ UNCHANGED <<class, arrived, now, listens, cache, inbox>>

(* The download, or the last request of a send, ends one way or the other. *)
Used(t) ==
  /\ tasks[t].pc = "use"
  /\ Ends(t)
  /\ inbox' \in IF tasks[t].job = Reply THEN {inbox}
                ELSE {inbox, Append(inbox, tasks[t].job)}
  /\ UNCHANGED <<class, arrived, now, listens, mutex, cache>>

(* start() returns: the bridge runs on and receives no more.               *)
SdkEnds ==
  /\ listens
  /\ listens' = FALSE
  /\ UNCHANGED <<class, arrived, now, tasks, mutex, cache, inbox>>

Limit(pc) == CASE pc = "refresh" -> MaxRefresh [] pc = "use" -> MaxUse [] OTHER -> MaxNow

Tick ==
  /\ now < MaxNow
  /\ \A t \in DOMAIN tasks :
       tasks[t].pc = "done" \/ now - tasks[t].since < Limit(tasks[t].pc)
  /\ now' = now + 1
  /\ UNCHANGED <<class, arrived, listens, tasks, mutex, cache, inbox>>

FeishuNext ==
  \/ \E m \in Msg : Event(m)
  \/ \E t \in DOMAIN tasks : Lock(t) \/ Refreshed(t) \/ RefreshFails(t) \/ Used(t)
  \/ Send \/ SdkEnds \/ Tick

Next == Arrive \/ FeishuNext

Spec == Init /\ [][Next]_vars

-----------------------------------------------------------------------------
(* Properties                                                              *)

TypeOK ==
  /\ class \in [Msg -> Class]
  /\ arrived \in 0 .. Arrivals
  /\ now \in 0 .. MaxNow /\ listens \in BOOLEAN
  /\ tasks \in Seq([job : Msg \cup {Reply}, pc : {"lock", "refresh", "use", "done"},
                    since : 0 .. MaxNow, dies : Nat])
  /\ mutex \in 0 .. Len(tasks)
  /\ cache \in [dies : Nat, created : 0 .. MaxNow, expire : Nat]
  /\ inbox \in Seq(Msg)

(* No request carries an expired token: it was taken from a cache filled   *)
(* late, by a task that then waited for a file, and is still accepted.     *)
UsedTokenAlive ==
  \A t \in DOMAIN tasks : tasks[t].pc = "use" => now < tasks[t].dies
=============================================================================
