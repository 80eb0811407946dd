------------------------- MODULE SessionDispatcher -------------------------
(***************************************************************************)
(* The bridge's message pump, src/src/bridge/dispatcher/{mod,session}.rs:  *)
(* run_bridge_with_shutdown polls the transport and hands every inbound    *)
(* message to SessionDispatcher::dispatch, which keeps one mpsc channel    *)
(* and one spawned run_session_worker task per dispatch key.  Workers run  *)
(* handle_one_message one message at a time and report a fatal CLI error   *)
(* back through a watch channel.                                           *)
(*                                                                         *)
(* Messages are numbered in the order the transport delivers them, so the  *)
(* batch being dispatched is always the interval dispatched+1 .. received. *)
(* A worker is named by the message whose dispatch spawned it.             *)
(* handle_one_message is a step here; module ReplyTurn opens it.           *)
(***************************************************************************)
EXTENDS Naturals, Sequences, FiniteSets, Functions

CONSTANTS
  Arrivals,        \* how many messages the transport ever delivers
  Inbound,         \* the routing fields of each message
  Absent,          \* an Option::None or blank field
  MaxSessions,     \* MAX_SESSION_WORKERS, 512 in the code
  QueueSize,       \* DEFAULT_SESSION_QUEUE_SIZE, 200 in the code
  MaxBatch,        \* the most messages one poll returns
  SendErrorReply,  \* app.send_error_reply()
  LongPoll         \* next_inbound returns by itself when nothing arrives

Msg == 1 .. Arrivals

ASSUME ConstantsAssumption ==
  /\ Arrivals \in Nat
  /\ DOMAIN Inbound = Msg
  /\ MaxSessions \in Nat \ {0}
  /\ QueueSize \in Nat \ {0}
  /\ MaxBatch \in Nat \ {0}
  /\ SendErrorReply \in BOOLEAN
  /\ LongPoll \in BOOLEAN

NoMsg == 0
NoWorker == 0

(* session_dispatch_key: the adapter's stable key, or else the pair that   *)
(* format!("{ctx}:{session_name}") joins.                                  *)
SessionDispatchKey(msg) ==
  IF msg.dispatch_key # Absent
  THEN <<msg.dispatch_key>>
  ELSE <<msg.context_token,
         IF msg.session_name = Absent THEN "default" ELSE msg.session_name>>

KeyOf(m) == SessionDispatchKey(Inbound[m])
Key == { KeyOf(m) : m \in Msg }
SameKey(m, n) == KeyOf(m) = KeyOf(n)

LoopStates == {"top", "polling", "dispatching", "sending", "backoff",
               "draining", "returned"}
BridgeStop == {"None", "TokenRejected", "FatalCliError", "Shutdown"}
WorkerStates == {"unborn", "idle", "handling", "notifying", "sleeping", "exited"}

(* What has become of a message.                                           *)
Pending   == {"unseen", "waiting", "handling"}
Answered  == {"done", "failed", "fatal"}
Cut       == {"panicked", "noticed", "interrupted"}
Dropped   == {"full", "closed", "cap", "discarded"}
Fates     == Pending \cup Answered \cup Cut \cup Dropped

VARIABLES
  loop,        \* where run_bridge_with_shutdown stands
  result,      \* the BridgeStop it returned
  shutdown,    \* the CancellationToken has been cancelled
  stop,        \* a FatalCliError sits in the stop watch channel
  received,    \* messages delivered by the transport so far
  dispatched,  \* messages dispatch() is through with
  senders,     \* the dispatcher's map from key to channel
  crew,        \* workers whose stop_tx reaches the running loop
  worker,      \* state of each run_session_worker task
  queue,       \* contents of each worker's mpsc channel
  current,     \* the message each worker handles
  fate         \* what became of each message

pumpVars == <<loop, result, shutdown, stop, received>>
vars == <<loop, result, shutdown, stop, received, dispatched, senders, crew,
          worker, queue, current, fate>>

Alive(w) == worker[w] \notin {"unborn", "exited"}
AliveWorkers == { w \in Msg : Alive(w) }

(* The keys the map holds, and those whose Sender::is_closed().            *)
Held == { k \in Key : senders[k] # NoWorker }
(* Broken form: an idle worker is taken for a closed one.                  *)
ClosedOrIdle == { k \in Held : ~ Alive(senders[k]) \/ worker[senders[k]] = "idle" }
Closed == { k \in Held : ~ Alive(senders[k]) }
EmptyMap == [k \in Key |-> NoWorker]
RetainOpen == [k \in Key |-> IF k \in Closed THEN NoWorker ELSE senders[k]]

(* A dispatcher and a stop channel that nothing has gone through yet.      *)
Pristine ==
  /\ result = "None"
  /\ shutdown = FALSE
  /\ stop = FALSE
  /\ received = 0
  /\ dispatched = 0
  /\ senders = EmptyMap
  /\ crew = {}
  /\ worker = [w \in Msg |-> "unborn"]
  /\ queue = [w \in Msg |-> <<>>]
  /\ current = [w \in Msg |-> NoMsg]
  /\ fate = [m \in Msg |-> "unseen"]

Init == loop = "top" /\ Pristine

-----------------------------------------------------------------------------
(* run_bridge_with_shutdown                                                *)

(* Returning drops the dispatcher, hence every Sender and the stop channel's *)
(* receiver; the workers themselves are detached tasks and go on.          *)
Return(reason) ==
  /\ loop' = "returned"
  /\ result' = reason
  /\ senders' = EmptyMap
  /\ crew' = {}
  /\ UNCHANGED <<shutdown, stop, received, dispatched, worker, queue, current, fate>>

LoopTo(l) ==
  /\ loop' = l
  /\ UNCHANGED <<result, shutdown, stop, received, dispatched, senders, crew,
                 worker, queue, current, fate>>

(* Broken form: the stop channel is never read.                            *)
CheckNothing == loop = "top" /\ LoopTo("polling")

(* The head of the loop: the only place a worker's fatal stop is noticed.  *)
CheckStop ==
  /\ loop = "top"
  /\ IF stop THEN Return("FatalCliError") ELSE LoopTo("polling")

(* next_inbound yields n messages.  The select is biased to shutdown.      *)
PollMessages(n) ==
  /\ loop = "polling" /\ ~ shutdown
  /\ received + n <= Arrivals
  /\ received' = received + n
  /\ fate' = [m \in Msg |-> IF m \in received + 1 .. received + n
                            THEN "waiting" ELSE fate[m]]
  /\ loop' = "dispatching"
  /\ UNCHANGED <<result, shutdown, stop, dispatched, senders, crew,
                 worker, queue, current>>

(* A hub-style long poll times out server-side with an empty batch.        *)
PollEmpty ==
  /\ LongPoll
  /\ loop = "polling" /\ ~ shutdown
  /\ LoopTo("top")

PollRejected ==
  /\ loop = "polling" /\ ~ shutdown
  /\ Return("TokenRejected")

PollFails ==
  /\ loop = "polling" /\ ~ shutdown
  /\ LoopTo("backoff")

BackoffElapses ==
  /\ loop = "backoff" /\ ~ shutdown
  /\ LoopTo("top")

(* Broken form: the select around the backoff lacks the shutdown arm.      *)
BeginDrainFromPoll ==
  /\ loop = "polling" /\ shutdown
  /\ LoopTo("draining")

(* Both selects answer a shutdown with a two-second grace sleep.           *)
BeginDrain ==
  /\ loop \in {"polling", "backoff"} /\ shutdown
  /\ LoopTo("draining")

DrainElapses ==
  /\ loop = "draining"
  /\ Return("Shutdown")

RequestShutdown ==
  /\ ~ shutdown
  /\ shutdown' = TRUE
  /\ UNCHANGED <<loop, result, stop, received, dispatched, senders, crew,
                 worker, queue, current, fate>>

-----------------------------------------------------------------------------
(* SessionDispatcher::dispatch, under the senders mutex from Acquire to    *)
(* Deliver; a worker takes no part in the mutex and may exit in between.   *)

Next1 == dispatched + 1

(* Broken forms: the batch is overrun by one, or left after one message.   *)
AdvancePastBatch ==
  /\ dispatched' = Next1
  /\ loop' = IF Next1 > received THEN "top" ELSE "dispatching"
AdvanceToEnd ==
  /\ dispatched' = received
  /\ loop' = "top"

(* The message Next1 is done with; the batch may be exhausted.             *)
Advance ==
  /\ dispatched' = Next1
  /\ loop' = IF Next1 = received THEN "top" ELSE "dispatching"

NeedsNew(k) == k \notin Held \/ k \in Closed
(* Broken form: the cap is met one session too late.                       *)
AtCapLate(S) == Cardinality(S) > MaxSessions
AtCap(S) == Cardinality(S) >= MaxSessions

(* A live worker already serves the key.                                   *)
Reuse ==
  /\ loop = "dispatching"
  /\ ~ NeedsNew(KeyOf(Next1))
  /\ LoopTo("sending")

(* A new channel and worker; at the cap, closed entries make room first.   *)
Spawn ==
  /\ loop = "dispatching"
  /\ NeedsNew(KeyOf(Next1))
  /\ ~ AtCap(Held) \/ ~ AtCap(Held \ Closed)
  /\ LET kept == IF AtCap(Held) THEN RetainOpen ELSE senders
     IN  senders' = [kept EXCEPT ![KeyOf(Next1)] = Next1]
  /\ crew' = crew \cup {Next1}
  /\ worker' = [worker EXCEPT ![Next1] = "idle"]
  /\ loop' = "sending"
  /\ UNCHANGED <<result, shutdown, stop, received, dispatched, queue, current, fate>>

(* Every entry is open and the map is full: the message is dropped.        *)
CapDrop ==
  /\ loop = "dispatching"
  /\ NeedsNew(KeyOf(Next1))
  /\ AtCap(Held) /\ AtCap(Held \ Closed)
  /\ senders' = RetainOpen
  /\ fate' = [fate EXCEPT ![Next1] = "cap"]
  /\ Advance
  /\ UNCHANGED <<result, shutdown, stop, received, crew, worker, queue, current>>

(* try_send: accepted, or dropped on a full or closed channel.             *)
TrySend ==
  LET w == senders[KeyOf(Next1)] IN
  /\ loop = "sending"
  /\ \/ /\ Alive(w) /\ Len(queue[w]) < QueueSize
        /\ queue' = [queue EXCEPT ![w] = Append(@, Next1)]
        /\ UNCHANGED fate
     \/ /\ Alive(w) /\ Len(queue[w]) >= QueueSize
        /\ fate' = [fate EXCEPT ![Next1] = "full"]
        /\ UNCHANGED queue
     \/ /\ ~ Alive(w)
        /\ fate' = [fate EXCEPT ![Next1] = "closed"]
        /\ UNCHANGED queue
  /\ Advance
  /\ UNCHANGED <<result, shutdown, stop, received, senders, crew, worker, current>>

(* The minute task; it upgrades a weak reference, so it dies with the loop. *)
EvictClosedSenders ==
  /\ loop \notin {"sending", "returned"} /\ ~ shutdown
  /\ Closed # {}
  /\ senders' = RetainOpen
  /\ UNCHANGED <<loop, result, shutdown, stop, received, dispatched, crew,
                 worker, queue, current, fate>>

-----------------------------------------------------------------------------
(* run_session_worker                                                      *)

(* Broken form: the message is looked at but stays in the channel.         *)
WorkerPeeks(w) ==
  /\ worker[w] = "idle" /\ ~ shutdown
  /\ queue[w] # <<>>
  /\ worker' = [worker EXCEPT ![w] = "handling"]
  /\ current' = [current EXCEPT ![w] = Head(queue[w])]
  /\ fate' = [fate EXCEPT ![Head(queue[w])] = "handling"]
  /\ UNCHANGED <<pumpVars, dispatched, senders, crew, queue>>

WorkerTakes(w) ==
  /\ worker[w] = "idle" /\ ~ shutdown
  /\ queue[w] # <<>>
  /\ worker' = [worker EXCEPT ![w] = "handling"]
  /\ current' = [current EXCEPT ![w] = Head(queue[w])]
  /\ queue' = [queue EXCEPT ![w] = Tail(@)]
  /\ fate' = [fate EXCEPT ![Head(queue[w])] = "handling"]
  /\ UNCHANGED <<pumpVars, dispatched, senders, crew>>

(* The task ends: its receiver drops and with it whatever was queued.      *)
Exit(w, verdict) ==
  /\ worker' = [worker EXCEPT ![w] = "exited"]
  /\ queue' = [queue EXCEPT ![w] = <<>>]
  /\ current' = [current EXCEPT ![w] = NoMsg]
  /\ fate' = [m \in Msg |-> IF m = current[w] THEN verdict
                            ELSE IF m \in Range(queue[w]) THEN "discarded"
                            ELSE fate[m]]
  /\ UNCHANGED <<loop, result, shutdown, received, dispatched, senders, crew>>

(* Broken forms: the worker leaves as soon as its senders are gone, is held *)
(* by a strong reference of the minute task to the map of a run that is    *)
(* over, or answers a shutdown only when it has nothing left to do.        *)
WorkerDrainsEarly(w) ==
  /\ worker[w] = "idle" /\ ~ shutdown
  /\ senders[KeyOf(w)] # w
  /\ Exit(w, "done")
  /\ UNCHANGED stop
WorkerHeldByMinuteTask(w) ==
  /\ worker[w] = "idle" /\ ~ shutdown
  /\ queue[w] = <<>> /\ senders[KeyOf(w)] # w
  /\ w \in crew
  /\ Exit(w, "done")
  /\ UNCHANGED stop
WorkerYieldsLate(w) ==
  /\ worker[w] = "idle" /\ shutdown /\ queue[w] = <<>>
  /\ Exit(w, "done")
  /\ UNCHANGED stop

(* recv() returned None: all senders are gone and the queue is empty.      *)
WorkerDrained(w) ==
  /\ worker[w] = "idle" /\ ~ shutdown
  /\ queue[w] = <<>> /\ senders[KeyOf(w)] # w
  /\ Exit(w, "done")
  /\ UNCHANGED stop

WorkerYields(w) ==
  /\ worker[w] = "idle" /\ shutdown
  /\ Exit(w, "done")
  /\ UNCHANGED stop

(* handle_one_message returned Ok, or Transient: back off before the next. *)
HandleReturns(w, verdict, next) ==
  /\ worker[w] = "handling" /\ ~ shutdown
  /\ worker' = [worker EXCEPT ![w] = next]
  /\ current' = [current EXCEPT ![w] = NoMsg]
  /\ fate' = [fate EXCEPT ![current[w]] = verdict]
  /\ UNCHANGED <<pumpVars, dispatched, senders, crew, queue>>

HandleOk(w) == HandleReturns(w, "done", "idle")
HandleTransient(w) == HandleReturns(w, "failed", "sleeping")

(* The reason is published on the stop channel, unless its receiver went   *)
(* away with the loop, and the worker leaves its queue behind.             *)
HandleFatal(w) ==
  /\ worker[w] = "handling" /\ ~ shutdown
  /\ stop' = (stop \/ w \in crew)
  /\ Exit(w, "fatal")

(* A panic inside handle_one_message unwinds the spawned task: neither the *)
(* stop channel nor the user hears of it, and the receiver goes.           *)
HandlePanics(w) ==
  /\ worker[w] = "handling"
  /\ Exit(w, "panicked")
  /\ UNCHANGED stop

SleepElapses(w) ==
  /\ worker[w] = "sleeping"
  /\ worker' = [worker EXCEPT ![w] = "idle"]
  /\ UNCHANGED <<pumpVars, dispatched, senders, crew, queue, current, fate>>

(* Shutdown wins the select: the handler future is dropped half way.       *)
Interrupt(w) ==
  /\ worker[w] = "handling" /\ shutdown
  /\ IF SendErrorReply /\ Inbound[current[w]].context_token # Absent
     THEN /\ worker' = [worker EXCEPT ![w] = "notifying"]
          /\ UNCHANGED <<pumpVars, dispatched, senders, crew, queue, current, fate>>
     ELSE Exit(w, "interrupted") /\ UNCHANGED stop

(* The one, never retried, restart notice lands or not.                    *)
NoticeEnds(w) ==
  /\ worker[w] = "notifying"
  /\ \E verdict \in {"noticed", "interrupted"} : Exit(w, verdict)
  /\ UNCHANGED stop

WorkerStep(w) ==
  \/ WorkerTakes(w)
  \/ WorkerDrained(w)
  \/ WorkerYields(w)
  \/ HandleOk(w)
  \/ HandleTransient(w)
  \/ HandleFatal(w)
  \/ HandlePanics(w)
  \/ SleepElapses(w)
  \/ Interrupt(w)
  \/ NoticeEnds(w)

-----------------------------------------------------------------------------
(* Steps the runtime takes by itself once they are enabled: timers and     *)
(* synchronous code.  What the network or the user does is not among them. *)
PumpStep ==
  \/ CheckStop
  \/ PollEmpty
  \/ BackoffElapses
  \/ BeginDrain
  \/ DrainElapses
  \/ Reuse
  \/ Spawn
  \/ CapDrop
  \/ TrySend

Next ==
  \/ PumpStep
  \/ \E n \in 1 .. MaxBatch : PollMessages(n)
  \/ PollRejected
  \/ PollFails
  \/ RequestShutdown
  \/ EvictClosedSenders
  \/ \E w \in Msg : WorkerStep(w)

Fairness ==
  /\ WF_vars(PumpStep)
  /\ \A w \in Msg : WF_vars(WorkerStep(w))

Spec == Init /\ [][Next]_vars

FairSpec == Spec /\ Fairness
-----------------------------------------------------------------------------
(* Properties                                                              *)

TypeOK ==
  /\ loop \in LoopStates
  /\ result \in BridgeStop
  /\ shutdown \in BOOLEAN
  /\ stop \in BOOLEAN
  /\ received \in 0 .. Arrivals
  /\ dispatched \in 0 .. received
  /\ senders \in [Key -> Msg \cup {NoWorker}]
  /\ crew \subseteq Msg
  /\ worker \in [Msg -> WorkerStates]
  /\ queue \in [Msg -> Seq(Msg)]
  /\ current \in [Msg -> Msg \cup {NoMsg}]
  /\ fate \in [Msg -> Fates]

(* A conversation never has two live workers, whatever mixture of fatal    *)
(* errors, panics, evictions and returns of the loop came before: the      *)
(* promise of transport.rs InboundMessage.dispatch_key, "serializes        *)
(* messages that share it (one worker, arrival order)".                    *)
OneWorkerPerKey ==
  \A v, w \in AliveWorkers : SameKey(v, w) => v = w

(* MAX_SESSION_WORKERS bounds the workers of a run, not only the entries   *)
(* of the map, although entries are replaced, retained and evicted by two  *)
(* tasks and a worker is freed by its own end.                             *)
LiveWorkersWithinCap ==
  Cardinality({ w \in crew : Alive(w) }) <= MaxSessions

(* Nothing falls between the batch and the channels: a message that is     *)
(* still waiting is still to be dispatched or queued, exactly once, with a *)
(* live worker of its own conversation.                                    *)
WaitingIsReachable ==
  \A m \in Msg : fate[m] = "waiting" =>
    \/ m \in dispatched + 1 .. received
    \/ \E w \in AliveWorkers :
         /\ SameKey(m, w)
         /\ Cardinality({ i \in DOMAIN queue[w] : queue[w][i] = m }) = 1

(* A queued message is thrown away only by a shutdown or by the fatal end  *)
(* of its own worker; in particular a worker that lost its senders because *)
(* the loop returned (TokenRejected) still works through its queue.        *)
DiscardHasACause ==
  [][\A m \in Msg : fate[m] = "waiting" /\ fate'[m] = "discarded"
       => \/ shutdown
          \/ \E n \in Msg : /\ SameKey(m, n) /\ n < m
                            /\ fate[n] = "handling"
                            /\ fate'[n] \in {"fatal", "panicked"}]_vars

(* Every message the transport delivered is answered, cut short or dropped. *)
EveryMessageSettles ==
  \A m \in Msg : fate[m] = "waiting" ~> fate[m] \notin Pending

(* Shutdown ends the loop and every worker, from any state.                *)
ShutdownEndsEverything ==
  shutdown ~> (loop = "returned" /\ AliveWorkers = {})

(* mod.rs:40, "Returns when Hub signals a stop condition (token rejected   *)
(* or fatal CLI auth error)": a fatal error of a worker ends the loop.     *)
FatalErrorEndsTheLoop ==
  stop ~> loop = "returned"

(* The refinement mapping: the live worker of a key holds its line.        *)
WorkersOf(k) == { w \in AliveWorkers : KeyOf(w) = k }
Line == [k \in Key |->
          IF WorkersOf(k) = {} THEN <<>> ELSE queue[CHOOSE w \in WorkersOf(k) : TRUE]]
Serving == [k \in Key |->
          IF WorkersOf(k) = {} THEN NoMsg ELSE current[CHOOSE w \in WorkersOf(k) : TRUE]]

Service == INSTANCE ConversationService
             WITH line <- Line, serving <- Serving,
                  gone <- { m \in Msg : fate[m] \notin Pending }

(* Channels, the shared map, respawned workers and evictions together are  *)
(* no more than one line and one server per conversation.                  *)
ImplementsConversationService == Service!Spec
=============================================================================
