---------------------- MODULE SessionDispatcherProofs ----------------------
(***************************************************************************)
(* For every number of messages, assignment of messages to conversations,  *)
(* queue size and session cap: SessionDispatcher keeps its types, no       *)
(* conversation ever has two live workers, no waiting message is out of    *)
(* reach, none is thrown away without a cause, the whole implements        *)
(* ConversationService; and no run of the bridge has more live workers     *)
(* than the cap, over any number of reconnects (RunLoop).                  *)
(*                                                                         *)
(* OneWorkerPerKey is not inductive: it holds because the map names every  *)
(* live worker (OwnsItsKey), which holds because a worker is only spawned  *)
(* under a key whose entry is missing or closed, under a name no worker    *)
(* had before (FreshNames).  The other results rest on Lines: where each   *)
(* dispatched message is (Queued), what a worker has in hand (InHand) and  *)
(* what stands in its channel, in which order (InLine).                    *)
(***************************************************************************)
EXTENDS RunLoop, SequenceTheorems, FiniteSetTheorems, TLAPS

(* The batch is not exhausted while the loop dispatches.                   *)
BatchPending == loop \in {"dispatching", "sending"} => dispatched < received

(* Only dispatched messages have given their name to a worker, and the one *)
(* just being sent.                                                        *)
FreshNames ==
  \A w \in Msg : worker[w] # "unborn" =>
    w <= dispatched \/ (loop = "sending" /\ w = Next1)

(* While the loop runs, the map leads to every live worker.                *)
OwnsItsKey ==
  loop # "returned" => \A w \in Msg : Alive(w) => senders[KeyOf(w)] = w

IInv ==
  /\ TypeOK
  /\ BatchPending
  /\ FreshNames
  /\ OwnsItsKey
  /\ OneWorkerPerKey

LEMMA KeyType == ASSUME NEW m \in Msg PROVE KeyOf(m) \in Key
BY DEF Key

LEMMA InitIInv == Init => IInv
<1> SUFFICES ASSUME Init PROVE IInv
  OBVIOUS
<1> USE ConstantsAssumption DEF Init, Pristine
<1>1. TypeOK
  <2>1. /\ loop \in LoopStates /\ result \in BridgeStop
        /\ shutdown \in BOOLEAN /\ stop \in BOOLEAN /\ crew \subseteq Msg
    BY DEF LoopStates, BridgeStop
  <2>2. received \in 0 .. Arrivals /\ dispatched \in 0 .. received
    OBVIOUS
  <2>3. senders \in [Key -> Msg \cup {NoWorker}]
    BY DEF EmptyMap
  <2>4. queue \in [Msg -> Seq(Msg)]
    OBVIOUS
  <2>5. /\ worker \in [Msg -> WorkerStates]
        /\ current \in [Msg -> Msg \cup {NoMsg}]
        /\ fate \in [Msg -> Fates]
    BY DEF WorkerStates, Fates, Pending
  <2> QED
    BY <2>1, <2>2, <2>3, <2>4, <2>5 DEF TypeOK
<1>2. BatchPending /\ FreshNames
  BY DEF BatchPending, FreshNames
<1>3. OwnsItsKey /\ OneWorkerPerKey
  BY DEF OwnsItsKey, OneWorkerPerKey, Alive, AliveWorkers
<1> QED
  BY <1>1, <1>2, <1>3 DEF IInv

-----------------------------------------------------------------------------
(* Types                                                                   *)

LEMMA NextMessage ==
  ASSUME TypeOK, BatchPending, loop \in {"dispatching", "sending"}
  PROVE  Next1 \in Msg /\ Next1 \in 0 .. received
BY ConstantsAssumption DEF TypeOK, BatchPending, Next1, Msg

LEMMA PumpType == ASSUME TypeOK, BatchPending, PumpStep PROVE TypeOK'
<1> USE DEF TypeOK
<1>1. ASSUME NEW l \in LoopStates, LoopTo(l) PROVE TypeOK'
  BY <1>1 DEF LoopTo
<1>2. ASSUME NEW r \in BridgeStop, Return(r) PROVE TypeOK'
  BY <1>2 DEF Return, LoopStates, EmptyMap, NoWorker
<1>3. CASE Spawn
  <2>1. Next1 \in Msg
    BY <1>3, NextMessage DEF Spawn
  <2>2. senders' \in [Key -> Msg \cup {NoWorker}]
    BY <1>3, <2>1 DEF Spawn, RetainOpen, NoWorker
  <2> QED
    BY <1>3, <2>1, <2>2 DEF Spawn, LoopStates, WorkerStates
<1>4. CASE CapDrop
  <2>1. Next1 \in Msg /\ Next1 \in 0 .. received
    BY <1>4, NextMessage DEF CapDrop
  <2>2. senders' \in [Key -> Msg \cup {NoWorker}]
    BY <1>4 DEF CapDrop, RetainOpen, NoWorker
  <2> QED
    BY <1>4, <2>1, <2>2 DEF CapDrop, Advance, LoopStates, Fates, Dropped
<1>5. CASE TrySend
  <2>1. Next1 \in Msg /\ Next1 \in 0 .. received
    BY <1>5, NextMessage DEF TrySend
  <2>2. queue' \in [Msg -> Seq(Msg)]
    <3> DEFINE w == senders[KeyOf(Next1)]
    <3>1. CASE queue' = queue
      BY <3>1
    <3>2. CASE queue' = [queue EXCEPT ![w] = Append(queue[w], Next1)]
      <4>1. \A u \in Msg : Append(queue[u], Next1) \in Seq(Msg)
        BY <2>1
      <4> QED
        BY <3>2, <4>1
    <3> QED
      BY <1>5, <3>1, <3>2 DEF TrySend
  <2>3. fate' \in [Msg -> Fates]
    BY <1>5 DEF TrySend, Fates, Dropped
  <2> QED
    BY <1>5, <2>1, <2>2, <2>3 DEF TrySend, Advance, LoopStates
<1>6. CASE CheckStop
  BY <1>6, <1>1, <1>2 DEF CheckStop, LoopStates, BridgeStop
<1>7. CASE PollEmpty \/ BackoffElapses \/ BeginDrain \/ Reuse
  BY <1>7, <1>1 DEF PollEmpty, BackoffElapses, BeginDrain, Reuse, LoopStates
<1>8. CASE DrainElapses
  BY <1>8, <1>2 DEF DrainElapses, BridgeStop
<1> QED
  BY <1>3, <1>4, <1>5, <1>6, <1>7, <1>8 DEF PumpStep

LEMMA ExitType ==
  ASSUME TypeOK, NEW w \in Msg, NEW v \in Fates, Exit(w, v), stop' \in BOOLEAN
  PROVE  TypeOK'
BY DEF TypeOK, Exit, WorkerStates, NoMsg, Fates, Dropped

LEMMA WorkerType == ASSUME TypeOK, NEW w \in Msg, WorkerStep(w) PROVE TypeOK'
<1> USE DEF TypeOK, pumpVars
<1>1. CASE WorkerTakes(w)
  <2>1. Head(queue[w]) \in Msg /\ Tail(queue[w]) \in Seq(Msg)
    BY <1>1 DEF WorkerTakes
  <2> QED
    BY <1>1, <2>1 DEF WorkerTakes, WorkerStates, Fates, Pending
<1>2. CASE WorkerDrained(w) \/ WorkerYields(w)
  BY <1>2, ExitType DEF WorkerDrained, WorkerYields, Fates, Answered
<1>3. CASE HandleOk(w) \/ HandleTransient(w)
  BY <1>3 DEF HandleOk, HandleTransient, HandleReturns, WorkerStates, Fates, Answered,
              NoMsg
<1>4. CASE HandleFatal(w)
  BY <1>4, ExitType DEF HandleFatal, Fates, Answered
<1>5. CASE HandlePanics(w)
  BY <1>5, ExitType DEF HandlePanics, Fates, Cut
<1>6. CASE SleepElapses(w)
  BY <1>6 DEF SleepElapses, WorkerStates
<1>7. CASE Interrupt(w)
  <2>1. "interrupted" \in Fates
    BY DEF Fates, Cut
  <2> QED
    BY <1>7, <2>1, ExitType DEF Interrupt, WorkerStates
<1>8. CASE NoticeEnds(w)
  BY <1>8, ExitType DEF NoticeEnds, Fates, Cut
<1> QED
  BY <1>1, <1>2, <1>3, <1>4, <1>5, <1>6, <1>7, <1>8 DEF WorkerStep

LEMMA TypeStep == ASSUME TypeOK, BatchPending, [Next]_vars PROVE TypeOK'
<1>1. CASE PumpStep
  BY <1>1, PumpType
<1>2. ASSUME NEW n \in 1 .. MaxBatch, PollMessages(n) PROVE TypeOK'
  BY <1>2, ConstantsAssumption
     DEF TypeOK, PollMessages, LoopStates, Fates, Pending, Msg
<1>3. CASE PollRejected
  BY <1>3 DEF TypeOK, PollRejected, Return, LoopStates, BridgeStop, EmptyMap, NoWorker
<1>4. CASE PollFails
  BY <1>4 DEF TypeOK, PollFails, LoopTo, LoopStates
<1>5. CASE RequestShutdown
  BY <1>5 DEF TypeOK, RequestShutdown
<1>6. CASE EvictClosedSenders
  BY <1>6 DEF TypeOK, EvictClosedSenders, RetainOpen, NoWorker
<1>7. ASSUME NEW w \in Msg, WorkerStep(w) PROVE TypeOK'
  BY <1>7, WorkerType
<1>8. CASE UNCHANGED vars
  BY <1>8 DEF TypeOK, vars
<1> QED
  BY <1>1, <1>2, <1>3, <1>4, <1>5, <1>6, <1>7, <1>8 DEF Next

-----------------------------------------------------------------------------
(* The dispatcher's bookkeeping                                            *)

(* A step that keeps the loop, the counters and the map, and spawns no     *)
(* worker, keeps the bookkeeping: workers only ever end.                   *)
LEMMA OnlyEndings ==
  ASSUME TypeOK, IInv,
         UNCHANGED <<loop, received, dispatched, senders>>,
         \A w \in Msg : (worker'[w] # "unborn" => worker[w] # "unborn")
                      /\ (Alive(w)' => Alive(w))
  PROVE  BatchPending' /\ FreshNames' /\ OwnsItsKey' /\ OneWorkerPerKey'
<1>1. BatchPending' /\ FreshNames'
  BY DEF IInv, BatchPending, FreshNames, Next1
<1>2. OwnsItsKey'
  BY DEF IInv, OwnsItsKey
<1>3. OneWorkerPerKey'
  BY DEF IInv, OneWorkerPerKey, AliveWorkers
<1> QED
  BY <1>1, <1>2, <1>3

LEMMA WorkerKeeps ==
  ASSUME IInv, NEW w \in Msg, WorkerStep(w)
  PROVE  BatchPending' /\ FreshNames' /\ OwnsItsKey' /\ OneWorkerPerKey'
<1>1. TypeOK
  BY DEF IInv
<1>2. UNCHANGED <<loop, received, dispatched, senders>>
  BY DEF WorkerStep, WorkerTakes, WorkerDrained, WorkerYields, HandleOk,
         HandleTransient, HandleReturns, HandleFatal, HandlePanics, SleepElapses,
         Interrupt, NoticeEnds, Exit, pumpVars
<1>3. \E s \in {"idle", "handling", "notifying", "sleeping", "exited"} :
        worker' = [worker EXCEPT ![w] = s]
  BY DEF WorkerStep, WorkerTakes, WorkerDrained, WorkerYields, HandleOk,
         HandleTransient, HandleReturns, HandleFatal, HandlePanics, SleepElapses,
         Interrupt, NoticeEnds, Exit
<1>4. Alive(w)
  BY DEF WorkerStep, WorkerTakes, WorkerDrained, WorkerYields, HandleOk,
         HandleTransient, HandleReturns, HandleFatal, HandlePanics, SleepElapses,
         Interrupt, NoticeEnds, Alive
<1>5. \A u \in Msg : (worker'[u] # "unborn" => worker[u] # "unborn")
                    /\ (Alive(u)' => Alive(u))
  BY <1>1, <1>3, <1>4 DEF TypeOK, Alive
<1> QED
  BY <1>1, <1>2, <1>5, OnlyEndings

(* Spawning is the one step that adds a live worker.                       *)
LEMMA SpawnKeeps ==
  ASSUME IInv, Spawn
  PROVE  BatchPending' /\ FreshNames' /\ OwnsItsKey' /\ OneWorkerPerKey'
<1> DEFINE k == KeyOf(Next1)
<1>1. TypeOK /\ Next1 \in Msg /\ k \in Key
  BY NextMessage, KeyType DEF IInv, Spawn
<1>2. /\ loop = "dispatching" /\ loop' = "sending"
      /\ UNCHANGED <<received, dispatched>>
      /\ worker' = [worker EXCEPT ![Next1] = "idle"]
  BY DEF Spawn
<1>3. \A w \in Msg : Alive(w) => KeyOf(w) # k
  <2> SUFFICES ASSUME NEW w \in Msg, Alive(w), KeyOf(w) = k PROVE FALSE
    OBVIOUS
  <2>1. senders[k] = w
    BY <1>2 DEF IInv, OwnsItsKey
  <2>2. k \in Held /\ k \notin Closed
    BY <1>1, <2>1, ConstantsAssumption DEF Held, Closed, NoWorker, Msg
  <2> QED
    BY <2>2 DEF Spawn, NeedsNew
<1>4. \A w \in Msg : Alive(w)' => w = Next1 \/ Alive(w)
  BY <1>1, <1>2 DEF TypeOK, Alive
<1>5. \A w \in Msg : Alive(w) => senders'[KeyOf(w)] = w
  <2> SUFFICES ASSUME NEW w \in Msg, Alive(w) PROVE senders'[KeyOf(w)] = w
    OBVIOUS
  <2>1. KeyOf(w) \in Key /\ KeyOf(w) # k /\ senders[KeyOf(w)] = w
    BY <1>2, <1>3, KeyType DEF IInv, OwnsItsKey
  <2>2. KeyOf(w) \notin Closed
    BY <2>1 DEF Closed
  <2>3. RetainOpen[KeyOf(w)] = w
    BY <2>1, <2>2 DEF RetainOpen
  <2>4. senders' = [RetainOpen EXCEPT ![k] = Next1] \/ senders' = [senders EXCEPT ![k] = Next1]
    BY DEF Spawn
  <2>5. RetainOpen \in [Key -> Msg \cup {NoWorker}] /\ senders \in [Key -> Msg \cup {NoWorker}]
    BY <1>1 DEF TypeOK, RetainOpen
  <2> QED
    BY <2>1, <2>3, <2>4, <2>5
<1>6. senders'[k] = Next1
  BY <1>1 DEF Spawn, RetainOpen, TypeOK
<1>7. BatchPending' /\ FreshNames'
  <2>1. dispatched < received
    BY <1>2 DEF IInv, BatchPending
  <2>2. \A w \in Msg : worker'[w] # "unborn" => w = Next1 \/ w <= dispatched
    BY <1>1, <1>2 DEF IInv, FreshNames, TypeOK
  <2> QED
    BY <1>2, <2>1, <2>2 DEF BatchPending, FreshNames, Next1
<1>8. OwnsItsKey'
  BY <1>4, <1>5, <1>6 DEF OwnsItsKey
<1>9. OneWorkerPerKey'
  BY <1>3, <1>4 DEF IInv, OneWorkerPerKey, AliveWorkers, SameKey
<1> QED
  BY <1>7, <1>8, <1>9

(* Every other step of the pump leaves the workers alone and drops from    *)
(* the map only closed entries, or all of them when the loop returns.      *)
LEMMA RestKeeps ==
  ASSUME IInv,
         UNCHANGED worker,
         BatchPending',
         loop' # "returned" => loop # "returned",
         \/ UNCHANGED <<dispatched>> /\ (loop = "sending" => loop' = "sending")
         \/ dispatched' = Next1,
         loop' # "returned" => senders' = senders \/ senders' = RetainOpen
  PROVE  BatchPending' /\ FreshNames' /\ OwnsItsKey' /\ OneWorkerPerKey'
<1>1. TypeOK
  BY DEF IInv
<1>2. FreshNames'
  <2> SUFFICES ASSUME NEW w \in Msg, worker'[w] # "unborn"
               PROVE  w <= dispatched' \/ (loop' = "sending" /\ w = Next1')
    BY DEF FreshNames
  <2>1. w <= dispatched \/ (loop = "sending" /\ w = Next1)
    BY DEF IInv, FreshNames
  <2>2. w \in Nat /\ dispatched \in Nat
    BY <1>1, ConstantsAssumption DEF TypeOK, Msg
  <2> QED
    BY <2>1, <2>2 DEF Next1
<1>3. OwnsItsKey'
  <2> SUFFICES ASSUME loop' # "returned", NEW w \in Msg, Alive(w)'
               PROVE  senders'[KeyOf(w)] = w
    BY DEF OwnsItsKey
  <2>1. Alive(w) /\ senders[KeyOf(w)] = w /\ KeyOf(w) \in Key
    BY KeyType DEF IInv, OwnsItsKey, Alive
  <2>2. KeyOf(w) \notin Closed
    BY <2>1 DEF Closed
  <2> QED
    BY <2>1, <2>2 DEF RetainOpen
<1>4. OneWorkerPerKey'
  BY DEF IInv, OneWorkerPerKey, AliveWorkers, Alive
<1> QED
  BY <1>2, <1>3, <1>4

LEMMA PumpKeeps ==
  ASSUME IInv, PumpStep
  PROVE  BatchPending' /\ FreshNames' /\ OwnsItsKey' /\ OneWorkerPerKey'
<1>1. TypeOK /\ BatchPending
  BY DEF IInv
<1>2. CASE Spawn
  BY <1>2, SpawnKeeps
<1>3. ASSUME NEW l \in {"top", "polling", "backoff", "draining"}, LoopTo(l),
             loop \notin {"sending", "returned"}
      PROVE  BatchPending' /\ FreshNames' /\ OwnsItsKey' /\ OneWorkerPerKey'
  <2>1. BatchPending'
    BY <1>3 DEF LoopTo, BatchPending
  <2> QED
    BY <1>3, <2>1, RestKeeps DEF LoopTo
<1>4. ASSUME NEW r, Return(r), loop # "sending"
      PROVE  BatchPending' /\ FreshNames' /\ OwnsItsKey' /\ OneWorkerPerKey'
  <2>1. BatchPending'
    BY <1>4 DEF Return, BatchPending
  <2> QED
    BY <1>4, <2>1, RestKeeps DEF Return
<1>5. CASE Reuse
  <2>1. BatchPending'
    BY <1>1, <1>5 DEF Reuse, LoopTo, BatchPending
  <2> QED
    BY <1>5, <2>1, RestKeeps DEF Reuse, LoopTo
<1>6. ASSUME Advance, received' = received, UNCHANGED worker,
             senders' = senders \/ senders' = RetainOpen,
             loop \in {"dispatching", "sending"}
      PROVE  BatchPending' /\ FreshNames' /\ OwnsItsKey' /\ OneWorkerPerKey'
  <2>1. Next1 \in 0 .. received
    BY <1>1, <1>6, NextMessage
  <2>2. BatchPending'
    BY <1>1, <1>6, <2>1 DEF Advance, BatchPending, Next1, TypeOK
  <2> QED
    BY <1>6, <2>2, RestKeeps DEF Advance
<1>7. CASE CapDrop
  BY <1>6, <1>7 DEF CapDrop
<1>8. CASE TrySend
  BY <1>6, <1>8 DEF TrySend
<1>9. CASE CheckStop
  BY <1>3, <1>4, <1>9 DEF CheckStop
<1>10. CASE PollEmpty \/ BackoffElapses \/ BeginDrain
  BY <1>3, <1>10 DEF PollEmpty, BackoffElapses, BeginDrain
<1>11. CASE DrainElapses
  BY <1>4, <1>11 DEF DrainElapses
<1> QED
  BY <1>2, <1>5, <1>7, <1>8, <1>9, <1>10, <1>11 DEF PumpStep

LEMMA IInvStep == IInv /\ [Next]_vars => IInv'
<1> SUFFICES ASSUME IInv, [Next]_vars PROVE IInv'
  OBVIOUS
<1> DEFINE Rest == BatchPending /\ FreshNames /\ OwnsItsKey /\ OneWorkerPerKey
<1>1. TypeOK'
  BY TypeStep DEF IInv
<1>2. ASSUME PumpStep PROVE Rest'
  BY <1>2, PumpKeeps
<1>3. ASSUME NEW n \in 1 .. MaxBatch, PollMessages(n) PROVE Rest'
  <2>1. BatchPending'
    BY <1>3, ConstantsAssumption DEF IInv, TypeOK, PollMessages, BatchPending
  <2> QED
    BY <1>3, <2>1, RestKeeps DEF PollMessages
<1>4. ASSUME PollRejected \/ PollFails PROVE Rest'
  <2>1. BatchPending'
    BY <1>4 DEF PollRejected, PollFails, LoopTo, Return, BatchPending
  <2> QED
    BY <1>4, <2>1, RestKeeps DEF PollRejected, PollFails, LoopTo, Return
<1>5. ASSUME RequestShutdown \/ EvictClosedSenders \/ UNCHANGED vars
      PROVE  Rest'
  <2>1. BatchPending'
    BY <1>5 DEF IInv, RequestShutdown, EvictClosedSenders, vars, BatchPending
  <2> QED
    BY <1>5, <2>1, RestKeeps DEF RequestShutdown, EvictClosedSenders, vars
<1>6. ASSUME NEW w \in Msg, WorkerStep(w) PROVE Rest'
  BY <1>6, WorkerKeeps
<1>7. Rest'
  BY <1>2, <1>3, <1>4, <1>5, <1>6 DEF Next
<1> QED
  BY <1>1, <1>7 DEF IInv

-----------------------------------------------------------------------------
(* The lines of messages                                                   *)

(* A message is unseen until it is received, and waits until dispatch() is *)
(* through with it.                                                        *)
Counted ==
  \A m \in Msg :
    /\ fate[m] = "unseen" <=> m > received
    /\ m > dispatched /\ m <= received => fate[m] = "waiting"

(* A worker has a message in hand exactly while it handles it or gives     *)
(* notice of the restart.                                                  *)
HandOf(w) ==
  /\ worker[w] \in {"handling", "notifying"} <=> current[w] # NoMsg
  /\ current[w] # NoMsg => /\ fate[current[w]] = "handling"
                           /\ current[w] <= dispatched
                           /\ SameKey(current[w], w)
  /\ worker[w] = "notifying" => shutdown
InHand == \A w \in Msg : HandOf(w)

(* A channel that is not empty has a receiver; its messages are of one     *)
(* conversation, have been dispatched, wait, and are in arrival order.     *)
LineOf(w) ==
  /\ queue[w] # <<>> => Alive(w)
  /\ \A i \in DOMAIN queue[w] :
       /\ queue[w][i] <= dispatched
       /\ SameKey(queue[w][i], w)
       /\ fate[queue[w][i]] = "waiting"
       /\ current[w] < queue[w][i]
       /\ \A j \in DOMAIN queue[w] : i < j => queue[w][i] < queue[w][j]
InLine == \A w \in Msg : LineOf(w)

(* A message that was dispatched and still waits is in a channel.          *)
IsIn(m, w) == \E i \in DOMAIN queue[w] : queue[w][i] = m
Queued ==
  \A m \in Msg : fate[m] = "waiting" /\ m <= dispatched => \E w \in Msg : IsIn(m, w)

Lines == Counted /\ InHand /\ InLine /\ Queued

LEMMA InitLines == Init => Lines
BY ConstantsAssumption
   DEF Init, Pristine, Lines, Counted, InHand, HandOf, InLine, LineOf, Queued, Alive,
       NoMsg, Msg

LEMMA LinesTyped ==
  ASSUME IInv
  PROVE  /\ received \in Nat /\ dispatched \in Nat /\ dispatched <= received
         /\ Msg \subseteq Nat /\ NoMsg \notin Msg
         /\ worker \in [Msg -> WorkerStates]
         /\ fate \in [Msg -> Fates] /\ queue \in [Msg -> Seq(Msg)]
         /\ current \in [Msg -> Msg \cup {NoMsg}]
         /\ \A w \in Msg : /\ queue[w] \in Seq(Msg) /\ current[w] \in Nat
                           /\ DOMAIN queue[w] = 1 .. Len(queue[w]) /\ Len(queue[w]) \in Nat
                           /\ \A i \in DOMAIN queue[w] : queue[w][i] \in Msg
<1>1. /\ received \in Nat /\ dispatched \in Nat /\ dispatched <= received
      /\ Msg \subseteq Nat /\ NoMsg \notin Msg /\ NoMsg \in Nat
      /\ worker \in [Msg -> WorkerStates]
      /\ fate \in [Msg -> Fates] /\ queue \in [Msg -> Seq(Msg)]
      /\ current \in [Msg -> Msg \cup {NoMsg}]
  BY ConstantsAssumption DEF IInv, TypeOK, Msg, NoMsg
<1>2. ASSUME NEW w \in Msg
      PROVE  /\ queue[w] \in Seq(Msg) /\ current[w] \in Nat
             /\ DOMAIN queue[w] = 1 .. Len(queue[w]) /\ Len(queue[w]) \in Nat
             /\ \A i \in DOMAIN queue[w] : queue[w][i] \in Msg
  <2>1. queue[w] \in Seq(Msg) /\ current[w] \in Nat
    BY <1>1
  <2> QED
    BY <2>1, LenProperties, ElementOfSeq
<1> QED
  BY <1>1, <1>2

(* A non-empty sequence without its head.                                  *)
LEMMA TailOf ==
  ASSUME NEW S, NEW q \in Seq(S), q # <<>>
  PROVE  /\ 1 \in DOMAIN q /\ Head(q) = q[1]
         /\ Tail(q) \in Seq(S) /\ Len(q) \in Nat
         /\ DOMAIN q = 1 .. Len(q) /\ DOMAIN Tail(q) = 1 .. Len(q) - 1
         /\ \A i \in DOMAIN Tail(q) : i \in Nat /\ i + 1 \in DOMAIN q /\ Tail(q)[i] = q[i + 1]
<1> DEFINE t == Tail(q)
           n == Len(q)
<1>1. /\ t \in Seq(S) /\ Len(t) = n - 1 /\ Head(q) = q[1]
      /\ \A i \in 1 .. Len(t) : t[i] = q[i + 1]
  BY HeadTailProperties
<1>2. n \in Nat /\ n # 0
  BY LenProperties, EmptySeq
<1>3. DOMAIN q = 1 .. n /\ DOMAIN t = 1 .. n - 1
  BY <1>1, LenProperties
<1> HIDE DEF t, n
<1>4. 1 \in 1 .. n
  BY <1>2
<1>5. \A i \in 1 .. n - 1 : i \in Nat /\ i + 1 \in 1 .. n
  BY <1>2
<1> QED
  BY <1>1, <1>2, <1>3, <1>4, <1>5 DEF t, n

(* Steps that move no message.                                             *)
LEMMA Unmoved ==
  ASSUME IInv, Lines, UNCHANGED <<received, dispatched, queue, current, fate>>,
         shutdown => shutdown',
         \A w \in Msg : \/ worker'[w] = worker[w]
                        \/ worker[w] \in {"unborn", "sleeping"} /\ worker'[w] = "idle"
                        \/ worker[w] = "handling" /\ worker'[w] = "notifying" /\ shutdown'
  PROVE  Lines'
<1>1. Counted'
  BY DEF Lines, Counted
<1>2. InHand'
  BY DEF Lines, InHand, HandOf
<1>3. \A w \in Msg : Alive(w) => Alive(w)'
  BY DEF Alive
<1>4. InLine'
  BY <1>3 DEF Lines, InLine, LineOf
<1>5. Queued'
  BY DEF Lines, Queued, IsIn
<1> QED
  BY <1>1, <1>2, <1>4, <1>5 DEF Lines

(* What a worker holds stays so while others are served and messages       *)
(* arrive.                                                                 *)
LEMMA HandKept ==
  ASSUME IInv, Lines, NEW w \in Msg,
         current'[w] = current[w], worker'[w] = worker[w], shutdown => shutdown',
         dispatched' \in Nat, dispatched <= dispatched',
         current[w] # NoMsg => fate'[current[w]] = fate[current[w]]
  PROVE  HandOf(w)'
<1>1. HandOf(w) /\ current[w] \in Nat /\ dispatched \in Nat
  BY LinesTyped DEF Lines, InHand
<1>2. current[w] # NoMsg => current[w] <= dispatched'
  BY <1>1 DEF HandOf
<1> QED
  BY <1>1, <1>2 DEF HandOf

LEMMA LineFacts ==
  ASSUME IInv, Lines, NEW w \in Msg, NEW i \in DOMAIN queue[w]
  PROVE  /\ queue[w][i] \in Msg /\ queue[w][i] \in Nat /\ queue[w][i] <= dispatched
         /\ fate[queue[w][i]] = "waiting" /\ SameKey(queue[w][i], w)
         /\ current[w] \in Nat /\ current[w] < queue[w][i]
<1>1. queue[w][i] \in Msg /\ Msg \subseteq Nat /\ current[w] \in Nat
  BY LinesTyped
<1>2. LineOf(w)
  BY DEF Lines, InLine
<1> QED
  BY <1>1, <1>2 DEF LineOf

LEMMA LineKept ==
  ASSUME IInv, Lines, NEW w \in Msg,
         queue'[w] = queue[w], current'[w] = current[w], Alive(w) => Alive(w)',
         dispatched' \in Nat, dispatched <= dispatched',
         \A i \in DOMAIN queue[w] : fate'[queue[w][i]] = fate[queue[w][i]]
  PROVE  LineOf(w)'
<1>1. LineOf(w) /\ dispatched \in Nat
  BY LinesTyped DEF Lines, InLine
<1>2. ASSUME NEW i \in DOMAIN queue[w] PROVE queue[w][i] <= dispatched'
  <2>1. queue[w][i] \in Nat /\ queue[w][i] <= dispatched
    BY LineFacts
  <2> QED
    BY <1>1, <2>1
<1> QED
  BY <1>1, <1>2 DEF LineOf

LEMMA PollLines ==
  ASSUME IInv, Lines, NEW n \in 1 .. MaxBatch, PollMessages(n)
  PROVE  Lines'
<1>1. /\ received \in Nat /\ dispatched \in Nat /\ n \in Nat /\ Msg \subseteq Nat
      /\ dispatched <= received /\ received' = received + n
      /\ UNCHANGED <<dispatched, queue, current, worker, shutdown>>
  BY ConstantsAssumption, LinesTyped DEF PollMessages
<1>2. \A m \in Msg : fate'[m] = IF m \in received + 1 .. received + n THEN "waiting"
                                ELSE fate[m]
  BY DEF PollMessages
<1>3. \A m \in Msg : m <= dispatched => fate'[m] = fate[m]
  BY <1>1, <1>2
<1>4. Counted'
  BY <1>1, <1>2 DEF Lines, Counted
<1>5. ASSUME NEW w \in Msg PROVE HandOf(w)'
  <2>1. current[w] # NoMsg => current[w] \in Msg /\ current[w] <= dispatched
    BY LinesTyped DEF Lines, InHand, HandOf
  <2>2. current[w] # NoMsg => fate'[current[w]] = fate[current[w]]
    BY <1>3, <2>1
  <2> QED
    BY <1>1, <2>2, HandKept
<1>6. ASSUME NEW w \in Msg PROVE LineOf(w)'
  <2>1. \A i \in DOMAIN queue[w] : queue[w][i] \in Msg /\ queue[w][i] <= dispatched
    BY LineFacts
  <2>2. \A i \in DOMAIN queue[w] : fate'[queue[w][i]] = fate[queue[w][i]]
    BY <1>3, <2>1
  <2>3. Alive(w) => Alive(w)'
    BY <1>1 DEF Alive
  <2> QED
    BY <1>1, <2>2, <2>3, LineKept
<1>7. Queued'
  BY <1>1, <1>3 DEF Lines, Queued, IsIn
<1> QED
  BY <1>4, <1>5, <1>6, <1>7 DEF Lines, InHand, InLine

(* dispatch() is through with a message that it drops.                     *)
LEMMA DropLines ==
  ASSUME IInv, Lines, loop \in {"dispatching", "sending"}, NEW v \in Dropped,
         fate' = [fate EXCEPT ![Next1] = v], dispatched' = Next1,
         UNCHANGED <<received, queue, current, worker, shutdown>>
  PROVE  Lines'
<1>1. /\ received \in Nat /\ dispatched \in Nat /\ dispatched < received /\ Msg \subseteq Nat
      /\ Next1 = dispatched + 1 /\ Next1 \in Msg
  BY LinesTyped, NextMessage DEF IInv, BatchPending, Next1
<1>2. fate'[Next1] = v /\ \A m \in Msg : m # Next1 => fate'[m] = fate[m]
  BY <1>1, LinesTyped
<1>3. v \notin {"unseen", "waiting", "handling"}
  BY DEF Dropped
<1>4. Counted'
  BY <1>1, <1>2, <1>3 DEF Lines, Counted
<1>5. \A m \in Msg : m <= dispatched => fate'[m] = fate[m]
  BY <1>1, <1>2
<1>6. dispatched' \in Nat /\ dispatched <= dispatched'
  BY <1>1
<1>7. ASSUME NEW w \in Msg PROVE HandOf(w)'
  <2>1. current[w] # NoMsg => current[w] \in Msg /\ current[w] <= dispatched
    BY LinesTyped DEF Lines, InHand, HandOf
  <2>2. current[w] # NoMsg => fate'[current[w]] = fate[current[w]]
    BY <1>5, <2>1
  <2> QED
    BY <1>6, <2>2, HandKept
<1>8. ASSUME NEW w \in Msg PROVE LineOf(w)'
  <2>1. \A i \in DOMAIN queue[w] : queue[w][i] \in Msg /\ queue[w][i] <= dispatched
    BY LineFacts
  <2>2. \A i \in DOMAIN queue[w] : fate'[queue[w][i]] = fate[queue[w][i]]
    BY <1>5, <2>1
  <2>3. Alive(w) => Alive(w)'
    BY DEF Alive
  <2> QED
    BY <1>6, <2>2, <2>3, LineKept
<1>9. Queued'
  BY <1>1, <1>2, <1>3 DEF Lines, Queued, IsIn
<1> QED
  BY <1>4, <1>7, <1>8, <1>9 DEF Lines, InHand, InLine

(* A message joins the line of its conversation's live worker.             *)
LEMMA JoinLines ==
  ASSUME IInv, Lines, loop = "sending", NEW w \in Msg, Alive(w), SameKey(Next1, w),
         queue' = [queue EXCEPT ![w] = Append(queue[w], Next1)], dispatched' = Next1,
         UNCHANGED <<received, fate, current, worker, shutdown>>
  PROVE  Lines'
<1>1. /\ received \in Nat /\ dispatched \in Nat /\ dispatched < received /\ Msg \subseteq Nat
      /\ Next1 = dispatched + 1 /\ Next1 \in Msg /\ Next1 \in Nat
  BY LinesTyped, NextMessage DEF IInv, BatchPending, Next1
<1>2. fate[Next1] = "waiting"
  BY <1>1 DEF Lines, Counted
<1>3. /\ queue[w] \in Seq(Msg) /\ Len(queue[w]) \in Nat
      /\ DOMAIN queue[w] = 1 .. Len(queue[w])
  BY LinesTyped
<1> DEFINE q == Append(queue[w], Next1)
<1>4. /\ DOMAIN q = 1 .. Len(queue[w]) + 1 /\ q # <<>>
      /\ q[Len(queue[w]) + 1] = Next1
      /\ \A i \in 1 .. Len(queue[w]) : q[i] = queue[w][i]
  BY <1>1, <1>3, AppendProperties
<1>5. queue'[w] = q /\ \A u \in Msg : u # w => queue'[u] = queue[u]
  BY LinesTyped
<1> HIDE DEF q
<1>6. Counted'
  BY <1>1 DEF Lines, Counted
<1>7. dispatched' \in Nat /\ dispatched <= dispatched'
  BY <1>1
<1>8. ASSUME NEW u \in Msg PROVE HandOf(u)'
  BY <1>7, HandKept
<1>9. ASSUME NEW u \in Msg, u # w PROVE LineOf(u)'
  <2>1. Alive(u) => Alive(u)'
    BY DEF Alive
  <2>2. queue'[u] = queue[u]
    BY <1>5, <1>9
  <2> QED
    BY <1>7, <2>1, <2>2, LineKept
<1>10. LineOf(w)'
  <2>1. ASSUME NEW i \in 1 .. Len(queue[w])
        PROVE  /\ q[i] \in Nat /\ q[i] < Next1 /\ SameKey(q[i], w) /\ fate[q[i]] = "waiting"
               /\ current[w] < q[i]
    <3>1. /\ queue[w][i] \in Nat /\ queue[w][i] <= dispatched /\ SameKey(queue[w][i], w)
          /\ fate[queue[w][i]] = "waiting" /\ current[w] < queue[w][i]
      BY <1>3, LineFacts
    <3> QED
      BY <1>1, <1>4, <3>1
  <2>2. ASSUME NEW i \in 1 .. Len(queue[w]), NEW j \in 1 .. Len(queue[w]), i < j
        PROVE  q[i] < q[j]
    BY <1>3, <1>4, <2>2 DEF Lines, InLine, LineOf
  <2>3. current[w] \in Nat /\ current[w] < Next1
    BY <1>1, LinesTyped DEF Lines, InHand, HandOf, NoMsg
  <2>4. ASSUME NEW i \in DOMAIN q
        PROVE  /\ q[i] <= Next1 /\ SameKey(q[i], w) /\ fate[q[i]] = "waiting"
               /\ current[w] < q[i]
               /\ \A j \in DOMAIN q : i < j => q[i] < q[j]
    <3>1. CASE i = Len(queue[w]) + 1
      <4>1. \A j \in DOMAIN q : ~ (i < j)
        BY <1>3, <1>4, <3>1
      <4> QED
        BY <1>1, <1>2, <1>4, <2>3, <3>1, <4>1
    <3>2. CASE i \in 1 .. Len(queue[w])
      <4>1. ASSUME NEW j \in DOMAIN q, i < j PROVE q[i] < q[j]
        <5>1. CASE j = Len(queue[w]) + 1
          BY <1>4, <2>1, <3>2, <5>1
        <5>2. CASE j \in 1 .. Len(queue[w])
          BY <2>2, <3>2, <4>1, <5>2
        <5> QED
          BY <1>3, <1>4, <5>1, <5>2
      <4>2. q[i] <= Next1
        BY <1>1, <2>1, <3>2
      <4> QED
        BY <2>1, <3>2, <4>1, <4>2
    <3> QED
      BY <1>3, <1>4, <3>1, <3>2
  <2>5. Alive(w)'
    BY DEF Alive
  <2> QED
    BY <1>5, <2>4, <2>5 DEF LineOf
<1>11. Queued'
  <2> SUFFICES ASSUME NEW m \in Msg, fate[m] = "waiting", m <= Next1
               PROVE  \E u \in Msg : IsIn(m, u)'
    BY DEF Queued
  <2>1. CASE m = Next1
    BY <1>3, <1>4, <1>5, <2>1 DEF IsIn
  <2>2. CASE m # Next1
    <3>1. PICK u \in Msg : IsIn(m, u)
      BY <1>1, <2>2 DEF Lines, Queued
    <3>2. PICK i \in DOMAIN queue[u] : queue[u][i] = m
      BY <3>1 DEF IsIn
    <3>3. i \in DOMAIN queue'[u] /\ queue'[u][i] = m
      BY <1>3, <1>4, <1>5, <3>2
    <3> QED
      BY <3>3 DEF IsIn
  <2> QED
    BY <2>1, <2>2
<1> QED
  BY <1>6, <1>8, <1>9, <1>10, <1>11 DEF Lines, InHand, InLine

LEMMA HandFacts ==
  ASSUME IInv, Lines, NEW w \in Msg, current[w] # NoMsg
  PROVE  /\ current[w] \in Msg /\ current[w] <= dispatched /\ SameKey(current[w], w)
         /\ fate[current[w]] = "handling" /\ Alive(w)
BY LinesTyped DEF Lines, InHand, HandOf, Alive

(* No two workers hold the same message: they would serve one conversation. *)
LEMMA NoSharing ==
  ASSUME IInv, Lines, NEW u \in Msg, NEW w \in Msg, u # w
  PROVE  /\ \A m : ~ (IsIn(m, u) /\ IsIn(m, w))
         /\ current[u] # NoMsg => current[u] # current[w]
<1>1. ASSUME Alive(u), Alive(w) PROVE ~ SameKey(u, w)
  BY <1>1 DEF IInv, OneWorkerPerKey, AliveWorkers
<1>2. ASSUME NEW m, IsIn(m, u), IsIn(m, w) PROVE FALSE
  <2>1. PICK i \in DOMAIN queue[u] : queue[u][i] = m
    BY <1>2 DEF IsIn
  <2>2. PICK j \in DOMAIN queue[w] : queue[w][j] = m
    BY <1>2 DEF IsIn
  <2>3. SameKey(m, u) /\ SameKey(m, w)
    BY <2>1, <2>2, LineFacts
  <2>4. queue[u] # <<>> /\ queue[w] # <<>>
    BY <2>1, <2>2
  <2>5. Alive(u) /\ Alive(w)
    BY <2>4 DEF Lines, InLine, LineOf
  <2> QED
    BY <1>1, <2>3, <2>5 DEF SameKey
<1>3. ASSUME current[u] # NoMsg, current[u] = current[w] PROVE FALSE
  <2>1. /\ Alive(u) /\ SameKey(current[u], u)
        /\ Alive(w) /\ SameKey(current[w], w)
    BY <1>3, HandFacts
  <2> QED
    BY <1>1, <1>3, <2>1 DEF SameKey
<1> QED
  BY <1>2, <1>3

(* recv(): the head of the line becomes the message in hand.               *)
LEMMA TakeLines == ASSUME IInv, Lines, NEW w \in Msg, WorkerTakes(w) PROVE Lines'
<1> DEFINE m == Head(queue[w])
           t == Tail(queue[w])
<1>1. /\ received \in Nat /\ dispatched \in Nat /\ dispatched <= received /\ Msg \subseteq Nat
      /\ queue[w] \in Seq(Msg) /\ Len(queue[w]) \in Nat
      /\ DOMAIN queue[w] = 1 .. Len(queue[w])
  BY LinesTyped
<1>2. /\ UNCHANGED <<received, dispatched, shutdown>> /\ queue[w] # <<>>
      /\ worker' = [worker EXCEPT ![w] = "handling"]
      /\ current' = [current EXCEPT ![w] = m]
      /\ queue' = [queue EXCEPT ![w] = t]
      /\ fate' = [fate EXCEPT ![m] = "handling"]
      /\ worker[w] = "idle"
  BY DEF WorkerTakes, pumpVars
<1>3. /\ 1 \in DOMAIN queue[w] /\ m = queue[w][1]
      /\ t \in Seq(Msg) /\ Len(queue[w]) \in Nat /\ DOMAIN queue[w] = 1 .. Len(queue[w])
      /\ DOMAIN t = 1 .. Len(queue[w]) - 1
  BY <1>1, <1>2, TailOf
<1>4. \A i \in DOMAIN t : i \in Nat /\ i + 1 \in DOMAIN queue[w] /\ t[i] = queue[w][i + 1]
  BY <1>1, <1>2, TailOf
<1> HIDE DEF m, t
<1>5. 1 \in DOMAIN queue[w]
  BY <1>3
<1>6. /\ m \in Msg /\ m \in Nat /\ m <= dispatched /\ fate[m] = "waiting" /\ SameKey(m, w)
      /\ IsIn(m, w)
  BY <1>3, <1>5, LineFacts DEF IsIn
<1>7. /\ fate'[m] = "handling" /\ \A n \in Msg : n # m => fate'[n] = fate[n]
      /\ queue'[w] = t /\ current'[w] = m /\ worker'[w] = "handling"
      /\ \A u \in Msg : u # w => /\ queue'[u] = queue[u] /\ current'[u] = current[u]
                                 /\ worker'[u] = worker[u]
  BY <1>2, <1>6, LinesTyped
<1>8. Counted'
  BY <1>1, <1>2, <1>6, <1>7 DEF Lines, Counted
<1>9. ASSUME NEW u \in Msg, u # w PROVE HandOf(u)'
  <2>1. current[u] # NoMsg => current[u] \in Msg /\ fate[current[u]] = "handling"
    BY HandFacts
  <2>2. current[u] # NoMsg => fate'[current[u]] = fate[current[u]]
    BY <1>6, <1>7, <2>1
  <2>3. dispatched' \in Nat /\ dispatched <= dispatched'
    BY <1>1, <1>2
  <2>4. current'[u] = current[u] /\ worker'[u] = worker[u]
    BY <1>7, <1>9
  <2>5. shutdown => shutdown'
    BY <1>2
  <2> QED
    BY <2>2, <2>3, <2>4, <2>5, HandKept
<1>10. HandOf(w)'
  <2>1. m # NoMsg
    BY <1>6, LinesTyped
  <2> QED
    BY <1>2, <1>6, <1>7, <2>1 DEF HandOf
<1>11. ASSUME NEW u \in Msg, u # w PROVE LineOf(u)'
  <2>1. \A i \in DOMAIN queue[u] : queue[u][i] \in Msg /\ queue[u][i] # m
    BY <1>6, <1>11, LineFacts, NoSharing DEF IsIn
  <2>2. \A i \in DOMAIN queue[u] : fate'[queue[u][i]] = fate[queue[u][i]]
    BY <1>7, <2>1
  <2>3. dispatched' \in Nat /\ dispatched <= dispatched'
    BY <1>1, <1>2
  <2>4. queue'[u] = queue[u] /\ current'[u] = current[u]
    BY <1>7, <1>11
  <2>5. Alive(u) => Alive(u)'
    BY <1>7, <1>11 DEF Alive
  <2> QED
    BY <2>2, <2>3, <2>4, <2>5, LineKept
<1>12. LineOf(w)'
  <2>1. LineOf(w)
    BY DEF Lines, InLine
  <2>2. ASSUME NEW i \in DOMAIN t
        PROVE  i \in Nat /\ i + 1 \in DOMAIN queue[w] /\ t[i] = queue[w][i + 1] /\ 1 < i + 1
    <3>1. i \in Nat /\ i + 1 \in DOMAIN queue[w] /\ t[i] = queue[w][i + 1] /\ i # 0
      BY <1>3, <1>4
    <3> QED
      BY <3>1
  <2>3. ASSUME NEW i \in DOMAIN t
        PROVE  /\ t[i] \in Msg /\ t[i] <= dispatched /\ SameKey(t[i], w)
               /\ fate[t[i]] = "waiting" /\ m < t[i]
    <3>1. i + 1 \in DOMAIN queue[w] /\ t[i] = queue[w][i + 1] /\ 1 < i + 1
      BY <2>2
    <3>2. /\ queue[w][i + 1] \in Msg /\ queue[w][i + 1] <= dispatched
          /\ SameKey(queue[w][i + 1], w) /\ fate[queue[w][i + 1]] = "waiting"
      BY <3>1, LineFacts
    <3>3. queue[w][1] < queue[w][i + 1]
      BY <1>5, <2>1, <3>1 DEF LineOf
    <3> QED
      BY <1>3, <3>1, <3>2, <3>3
  <2>4. ASSUME NEW i \in DOMAIN t, NEW j \in DOMAIN t, i < j PROVE t[i] < t[j]
    <3>1. i + 1 \in DOMAIN queue[w] /\ t[i] = queue[w][i + 1]
      BY <2>2
    <3>2. j + 1 \in DOMAIN queue[w] /\ t[j] = queue[w][j + 1]
      BY <2>2
    <3>3. i + 1 < j + 1
      <4>1. i \in Nat /\ j \in Nat
        BY <2>2
      <4> QED
        BY <2>4, <4>1
    <3> QED
      BY <2>1, <3>1, <3>2, <3>3 DEF LineOf
  <2>5. ASSUME NEW i \in DOMAIN t PROVE fate'[t[i]] = "waiting"
    <3>1. t[i] \in Msg /\ fate[t[i]] = "waiting" /\ m < t[i]
      BY <2>3
    <3>2. t[i] \in Nat /\ m \in Nat
      BY <1>1, <1>6, <3>1
    <3>3. t[i] # m
      BY <3>1, <3>2
    <3> QED
      BY <1>7, <3>1, <3>3
  <2>6. Alive(w)'
    BY <1>7 DEF Alive
  <2> QED
    BY <1>2, <1>7, <2>3, <2>4, <2>5, <2>6 DEF LineOf
<1>13. Queued'
  <2> SUFFICES ASSUME NEW n \in Msg, fate'[n] = "waiting", n <= dispatched
               PROVE  \E u \in Msg : IsIn(n, u)'
    BY <1>2 DEF Queued
  <2>1. n # m /\ fate[n] = "waiting"
    BY <1>6, <1>7
  <2>2. PICK u \in Msg : IsIn(n, u)
    BY <2>1 DEF Lines, Queued
  <2>3. PICK i \in DOMAIN queue[u] : queue[u][i] = n
    BY <2>2 DEF IsIn
  <2>4. CASE u # w
    BY <1>7, <2>3, <2>4 DEF IsIn
  <2>5. CASE u = w
    <3>1. i # 1 /\ i \in 1 .. Len(queue[w])
      BY <1>1, <1>3, <2>1, <2>3, <2>5
    <3>2. i - 1 \in DOMAIN t /\ (i - 1) + 1 = i
      BY <1>3, <3>1
    <3>3. t[i - 1] = n
      BY <1>4, <2>3, <2>5, <3>2
    <3> QED
      BY <1>7, <3>2, <3>3 DEF IsIn
  <2> QED
    BY <2>4, <2>5
<1> QED
  BY <1>8, <1>9, <1>10, <1>11, <1>12, <1>13 DEF Lines, InHand, InLine

LEMMA ReturnLines ==
  ASSUME IInv, Lines, NEW w \in Msg, NEW v \in Answered, NEW next \in {"idle", "sleeping"},
         HandleReturns(w, v, next)
  PROVE  Lines'
<1> DEFINE c == current[w]
<1>1. /\ UNCHANGED <<received, dispatched, shutdown, queue>> /\ worker[w] = "handling"
      /\ worker' = [worker EXCEPT ![w] = next]
      /\ current' = [current EXCEPT ![w] = NoMsg]
      /\ fate' = [fate EXCEPT ![c] = v]
  BY DEF HandleReturns, pumpVars
<1>2. c # NoMsg
  BY <1>1 DEF Lines, InHand, HandOf
<1>3. c \in Msg /\ c <= dispatched /\ fate[c] = "handling" /\ Alive(w)
  BY <1>2, HandFacts
<1>4. v \notin {"unseen", "waiting", "handling"}
  BY DEF Answered
<1>5. /\ fate'[c] = v /\ \A n \in Msg : n # c => fate'[n] = fate[n]
      /\ current'[w] = NoMsg /\ worker'[w] = next
      /\ \A u \in Msg : u # w => current'[u] = current[u] /\ worker'[u] = worker[u]
  BY <1>1, <1>3, LinesTyped
<1>6. dispatched' \in Nat /\ dispatched <= dispatched' /\ (shutdown => shutdown')
  BY <1>1, LinesTyped
<1>7. Counted'
  <2>1. \A n \in Msg : fate'[n] = "waiting" <=> fate[n] = "waiting"
    BY <1>3, <1>4, <1>5
  <2>2. \A n \in Msg : fate'[n] = "unseen" <=> fate[n] = "unseen"
    BY <1>3, <1>4, <1>5
  <2> QED
    BY <1>1, <2>1, <2>2 DEF Lines, Counted
<1>8. ASSUME NEW u \in Msg, u # w PROVE HandOf(u)'
  <2>1. current[u] # NoMsg => current[u] \in Msg /\ current[u] # c
    BY <1>8, HandFacts, NoSharing
  <2>2. current[u] # NoMsg => fate'[current[u]] = fate[current[u]]
    BY <1>5, <2>1
  <2>3. current'[u] = current[u] /\ worker'[u] = worker[u]
    BY <1>5, <1>8
  <2> QED
    BY <1>6, <2>2, <2>3, HandKept
<1>9. HandOf(w)'
  BY <1>5 DEF HandOf
<1>10. \A u \in Msg : \A i \in DOMAIN queue[u] : fate'[queue[u][i]] = fate[queue[u][i]]
  <2>1. \A u \in Msg : \A i \in DOMAIN queue[u] :
          queue[u][i] \in Msg /\ fate[queue[u][i]] = "waiting"
    BY LineFacts
  <2> QED
    BY <1>3, <1>5, <2>1
<1>11. ASSUME NEW u \in Msg, u # w PROVE LineOf(u)'
  <2>1. queue'[u] = queue[u] /\ current'[u] = current[u]
    BY <1>1, <1>5, <1>11
  <2>2. Alive(u) => Alive(u)'
    BY <1>5, <1>11 DEF Alive
  <2> QED
    BY <1>6, <1>10, <2>1, <2>2, LineKept
<1>12. LineOf(w)'
  <2>1. ASSUME NEW i \in DOMAIN queue[w] PROVE NoMsg < queue[w][i]
    <3>1. queue[w][i] \in Nat /\ current[w] \in Nat /\ current[w] < queue[w][i]
      BY LineFacts
    <3> QED
      BY <3>1 DEF NoMsg
  <2>2. Alive(w)'
    BY <1>5 DEF Alive
  <2>3. LineOf(w)
    BY DEF Lines, InLine
  <2> QED
    BY <1>1, <1>5, <1>10, <2>1, <2>2, <2>3 DEF LineOf
<1>13. Queued'
  BY <1>1, <1>3, <1>4, <1>5 DEF Lines, Queued, IsIn
<1> QED
  BY <1>7, <1>8, <1>9, <1>11, <1>12, <1>13 DEF Lines, InHand, InLine

(* A worker ends and takes its line with it.                               *)
LEMMA ExitLines ==
  ASSUME IInv, Lines, NEW w \in Msg, NEW v \in Fates \ Pending, Alive(w), Exit(w, v)
  PROVE  Lines'
<1> DEFINE c == current[w]
<1>1. /\ UNCHANGED <<received, dispatched, shutdown>>
      /\ worker' = [worker EXCEPT ![w] = "exited"]
      /\ queue' = [queue EXCEPT ![w] = <<>>]
      /\ current' = [current EXCEPT ![w] = NoMsg]
      /\ \A m \in Msg : fate'[m] = IF m = c THEN v
                                   ELSE IF IsIn(m, w) THEN "discarded" ELSE fate[m]
  BY DEF Exit, Range, IsIn
<1>2. /\ queue'[w] = <<>> /\ current'[w] = NoMsg /\ worker'[w] = "exited"
      /\ \A u \in Msg : u # w => /\ queue'[u] = queue[u] /\ current'[u] = current[u]
                                 /\ worker'[u] = worker[u]
  BY <1>1, LinesTyped
<1>3. v \notin {"unseen", "waiting", "handling"}
  BY DEF Pending
<1>4. dispatched' \in Nat /\ dispatched <= dispatched' /\ (shutdown => shutdown')
  BY <1>1, LinesTyped
<1>5. \A m \in Msg : m = c => fate[m] = "handling"
  <2>1. c \in Msg => c # NoMsg
    BY LinesTyped
  <2> QED
    BY <2>1, HandFacts
<1>6. \A m : IsIn(m, w) => m \in Msg /\ fate[m] = "waiting" /\ m <= dispatched
  BY LineFacts DEF IsIn
<1>7. Counted'
  <2>1. \A m \in Msg : fate'[m] = "unseen" <=> fate[m] = "unseen"
    BY <1>1, <1>3, <1>5, <1>6
  <2>2. \A m \in Msg : m > dispatched /\ m <= received => fate'[m] = fate[m]
    <3> SUFFICES ASSUME NEW m \in Msg, m > dispatched, m <= received
                 PROVE  fate'[m] = fate[m]
      OBVIOUS
    <3>1. m \in Nat /\ dispatched \in Nat /\ ~ (m <= dispatched)
      BY LinesTyped
    <3>2. ~ IsIn(m, w)
      BY <1>6, <3>1
    <3>3. m # c
      BY <1>5, <3>1, LinesTyped DEF Lines, Counted
    <3> QED
      BY <1>1, <3>2, <3>3
  <2> QED
    BY <1>1, <2>1, <2>2 DEF Lines, Counted
<1>8. ASSUME NEW u \in Msg, u # w PROVE HandOf(u)'
  <2>1. current[u] # NoMsg => /\ current[u] \in Msg /\ current[u] # c
                              /\ fate[current[u]] = "handling"
    BY <1>8, HandFacts, NoSharing
  <2>2. current[u] # NoMsg => fate'[current[u]] = fate[current[u]]
    BY <1>1, <1>6, <2>1
  <2>3. current'[u] = current[u] /\ worker'[u] = worker[u]
    BY <1>2, <1>8
  <2> QED
    BY <1>4, <2>2, <2>3, HandKept
<1>9. HandOf(w)'
  BY <1>2 DEF HandOf
<1>10. ASSUME NEW u \in Msg, u # w PROVE LineOf(u)'
  <2>1. ASSUME NEW i \in DOMAIN queue[u] PROVE fate'[queue[u][i]] = fate[queue[u][i]]
    <3>1. queue[u][i] \in Msg /\ fate[queue[u][i]] = "waiting"
      BY LineFacts
    <3>2. ~ IsIn(queue[u][i], w)
      BY <1>10, NoSharing DEF IsIn
    <3>3. queue[u][i] # c
      BY <1>5, <3>1
    <3> QED
      BY <1>1, <3>1, <3>2, <3>3
  <2>2. queue'[u] = queue[u] /\ current'[u] = current[u]
    BY <1>2, <1>10
  <2>3. Alive(u) => Alive(u)'
    BY <1>2, <1>10 DEF Alive
  <2> QED
    BY <1>4, <2>1, <2>2, <2>3, LineKept
<1>11. LineOf(w)'
  BY <1>2 DEF LineOf
<1>12. Queued'
  <2> SUFFICES ASSUME NEW m \in Msg, fate'[m] = "waiting", m <= dispatched
               PROVE  \E u \in Msg : IsIn(m, u)'
    BY <1>1 DEF Queued
  <2>1. fate[m] = "waiting" /\ ~ IsIn(m, w)
    BY <1>1, <1>3, <1>5
  <2>2. PICK u \in Msg : IsIn(m, u)
    BY <2>1 DEF Lines, Queued
  <2>3. u # w
    BY <2>1, <2>2
  <2> QED
    BY <1>2, <2>2, <2>3 DEF IsIn
<1> QED
  BY <1>7, <1>8, <1>9, <1>10, <1>11, <1>12 DEF Lines, InHand, InLine

LEMMA WorkerLines == ASSUME IInv, Lines, NEW w \in Msg, WorkerStep(w) PROVE Lines'
<1>1. CASE WorkerTakes(w)
  BY <1>1, TakeLines
<1>2. CASE WorkerDrained(w) \/ WorkerYields(w)
  <2>1. Alive(w) /\ Exit(w, "done")
    BY <1>2 DEF WorkerDrained, WorkerYields, Alive
  <2>2. "done" \in Fates \ Pending
    BY DEF Fates, Pending, Answered
  <2> QED
    BY <2>1, <2>2, ExitLines
<1>3. CASE HandleOk(w)
  <2>1. "done" \in Answered /\ HandleReturns(w, "done", "idle")
    BY <1>3 DEF HandleOk, Answered
  <2> QED
    BY <2>1, ReturnLines
<1>4. CASE HandleTransient(w)
  <2>1. "failed" \in Answered /\ HandleReturns(w, "failed", "sleeping")
    BY <1>4 DEF HandleTransient, Answered
  <2> QED
    BY <2>1, ReturnLines
<1>5. CASE HandleFatal(w)
  <2>1. Alive(w) /\ Exit(w, "fatal")
    BY <1>5 DEF HandleFatal, Alive
  <2>2. "fatal" \in Fates \ Pending
    BY DEF Fates, Pending, Answered
  <2> QED
    BY <2>1, <2>2, ExitLines
<1>6. CASE HandlePanics(w)
  <2>1. Alive(w) /\ Exit(w, "panicked")
    BY <1>6 DEF HandlePanics, Alive
  <2>2. "panicked" \in Fates \ Pending
    BY DEF Fates, Pending, Cut
  <2> QED
    BY <2>1, <2>2, ExitLines
<1>7. CASE SleepElapses(w)
  <2>1. worker \in [Msg -> WorkerStates]
    BY LinesTyped
  <2>2. /\ UNCHANGED <<received, dispatched, queue, current, fate>> /\ (shutdown => shutdown')
        /\ worker[w] = "sleeping" /\ worker' = [worker EXCEPT ![w] = "idle"]
    BY <1>7 DEF SleepElapses, pumpVars
  <2>3. \A u \in Msg : \/ worker'[u] = worker[u]
                       \/ worker[u] \in {"unborn", "sleeping"} /\ worker'[u] = "idle"
                       \/ worker[u] = "handling" /\ worker'[u] = "notifying" /\ shutdown'
    BY <2>1, <2>2
  <2> QED
    BY <2>2, <2>3, Unmoved
<1>8. CASE Interrupt(w) /\ worker' = [worker EXCEPT ![w] = "notifying"]
  <2>1. worker \in [Msg -> WorkerStates]
    BY LinesTyped
  <2>2. worker'[w] # "exited"
    BY <1>8, <2>1
  <2>3. ~ Exit(w, "interrupted")
    BY <2>1, <2>2 DEF Exit
  <2>4. /\ UNCHANGED <<received, dispatched, queue, current, fate>>
        /\ shutdown /\ shutdown' /\ worker[w] = "handling"
    BY <1>8, <2>3 DEF Interrupt, pumpVars
  <2>5. \A u \in Msg : \/ worker'[u] = worker[u]
                       \/ worker[u] \in {"unborn", "sleeping"} /\ worker'[u] = "idle"
                       \/ worker[u] = "handling" /\ worker'[u] = "notifying" /\ shutdown'
    BY <1>8, <2>1, <2>4
  <2> QED
    BY <2>4, <2>5, Unmoved
<1>9. CASE Interrupt(w) /\ Exit(w, "interrupted")
  <2>1. Alive(w)
    BY <1>9 DEF Interrupt, Alive
  <2>2. "interrupted" \in Fates \ Pending
    BY DEF Fates, Pending, Cut
  <2> QED
    BY <1>9, <2>1, <2>2, ExitLines
<1>10. CASE NoticeEnds(w)
  <2>1. PICK v \in {"noticed", "interrupted"} : Exit(w, v)
    BY <1>10 DEF NoticeEnds
  <2>2. Alive(w) /\ v \in Fates \ Pending
    BY <1>10 DEF NoticeEnds, Alive, Fates, Pending, Cut
  <2> QED
    BY <2>1, <2>2, ExitLines
<1>11. Interrupt(w) => \/ worker' = [worker EXCEPT ![w] = "notifying"]
                       \/ Exit(w, "interrupted")
  BY DEF Interrupt
<1> QED
  BY <1>1, <1>2, <1>3, <1>4, <1>5, <1>6, <1>7, <1>8, <1>9, <1>10, <1>11 DEF WorkerStep

-----------------------------------------------------------------------------
(* The map of channels                                                     *)

(* An entry of the map leads to a worker of the key, one that can still    *)
(* report to the loop; the message being sent has an entry.                *)
Addressed ==
  /\ \A k \in Key : senders[k] # NoWorker => /\ KeyOf(senders[k]) = k
                                             /\ senders[k] \in crew
  /\ loop = "sending" => senders[KeyOf(Next1)] # NoWorker

LEMMA AddressedStep ==
  ASSUME TypeOK, BatchPending, Addressed, [Next]_vars PROVE Addressed'
<1>1. ASSUME senders' = senders \/ senders' = RetainOpen, UNCHANGED crew, loop' # "sending"
      PROVE  Addressed'
  BY <1>1 DEF Addressed, RetainOpen, NoWorker
<1>2. ASSUME NEW l, LoopTo(l), l # "sending" PROVE Addressed'
  BY <1>1, <1>2 DEF LoopTo
<1>3. ASSUME NEW r, Return(r) PROVE Addressed'
  BY <1>3 DEF Return, Addressed, EmptyMap, NoWorker
<1>4. CASE UNCHANGED <<loop, dispatched, senders, crew>>
  BY <1>4 DEF Addressed, Next1
<1>5. CASE Reuse
  <2>1. KeyOf(Next1) \in Held
    BY <1>5 DEF Reuse, NeedsNew
  <2> QED
    BY <1>5, <2>1 DEF Addressed, Reuse, LoopTo, Next1, Held
<1>6. CASE Spawn
  <2> DEFINE k == KeyOf(Next1)
  <2>1. Next1 \in Msg /\ k \in Key /\ Next1 # NoWorker
    BY <1>6, NextMessage, KeyType, ConstantsAssumption DEF Spawn, Msg, NoWorker
  <2>2. \E kept \in {senders, RetainOpen} : senders' = [kept EXCEPT ![k] = Next1]
    BY <1>6 DEF Spawn
  <2>3. \A kept \in {senders, RetainOpen} :
          /\ kept \in [Key -> Msg \cup {NoWorker}]
          /\ \A j \in Key : kept[j] # NoWorker => kept[j] = senders[j]
    BY DEF TypeOK, RetainOpen
  <2>4. senders'[k] = Next1 /\ \A j \in Key : j # k /\ senders'[j] # NoWorker
                                => senders'[j] = senders[j]
    BY <2>1, <2>2, <2>3
  <2>5. crew' = crew \cup {Next1} /\ Next1' = Next1
    BY <1>6 DEF Spawn, Next1
  <2> QED
    BY <2>1, <2>4, <2>5 DEF Addressed
<1>7. CASE CapDrop \/ TrySend
  BY <1>1, <1>7 DEF CapDrop, TrySend, Advance
<1>8. ASSUME NEW n \in 1 .. MaxBatch, PollMessages(n) PROVE Addressed'
  BY <1>1, <1>8 DEF PollMessages
<1>9. CASE RequestShutdown \/ UNCHANGED vars
  BY <1>4, <1>9 DEF RequestShutdown, vars
<1>10. CASE EvictClosedSenders
  BY <1>1, <1>10 DEF EvictClosedSenders
<1>11. ASSUME NEW w \in Msg, WorkerStep(w) PROVE Addressed'
  BY <1>4, <1>11
     DEF WorkerStep, WorkerTakes, WorkerDrained, WorkerYields, HandleOk,
         HandleTransient, HandleReturns, HandleFatal, HandlePanics, SleepElapses,
         Interrupt, NoticeEnds, Exit, pumpVars
<1>12. CASE CheckStop \/ PollEmpty \/ BackoffElapses \/ BeginDrain \/ DrainElapses
  BY <1>2, <1>3, <1>12 DEF CheckStop, PollEmpty, BackoffElapses, BeginDrain, DrainElapses
<1>13. CASE PollRejected \/ PollFails
  BY <1>2, <1>3, <1>13 DEF PollRejected, PollFails
<1> QED
  BY <1>5, <1>6, <1>7, <1>8, <1>9, <1>10, <1>11, <1>12, <1>13 DEF Next, PumpStep

(* What TrySend finds at its key.                                          *)
LEMMA Addressee ==
  ASSUME TypeOK, BatchPending, Addressed, loop = "sending"
  PROVE  LET w == senders[KeyOf(Next1)] IN w \in Msg /\ SameKey(Next1, w)
<1>1. Next1 \in Msg /\ KeyOf(Next1) \in Key
  BY NextMessage, KeyType
<1> QED
  BY <1>1 DEF TypeOK, Addressed, SameKey

LEMMA LinesStep == ASSUME IInv, Lines, Addressed, [Next]_vars PROVE Lines'
<1> DEFINE Still == /\ UNCHANGED <<received, dispatched, queue, current, fate>>
                    /\ (shutdown => shutdown')
<1>1. ASSUME Still, UNCHANGED worker PROVE Lines'
  <2> HIDE DEF Lines
  <2> QED
    BY <1>1, Unmoved
<1>2. ASSUME NEW l, LoopTo(l) PROVE Lines'
  BY <1>1, <1>2 DEF LoopTo
<1>3. ASSUME NEW r, Return(r) PROVE Lines'
  BY <1>1, <1>3 DEF Return
<1>4. CASE Spawn
  <2>1. Next1 \in Msg /\ worker[Next1] = "unborn" /\ worker \in [Msg -> WorkerStates]
    <3>1. Next1 \in Msg /\ worker \in [Msg -> WorkerStates]
      BY <1>4, NextMessage, LinesTyped DEF IInv, Spawn
    <3>2. ~ (Next1 <= dispatched)
      BY LinesTyped DEF Next1
    <3> QED
      BY <1>4, <3>1, <3>2 DEF IInv, FreshNames, Spawn
  <2>2. Still /\ worker' = [worker EXCEPT ![Next1] = "idle"]
    BY <1>4 DEF Spawn
  <2>3. \A u \in Msg : \/ worker'[u] = worker[u]
                       \/ worker[u] \in {"unborn", "sleeping"} /\ worker'[u] = "idle"
                       \/ worker[u] = "handling" /\ worker'[u] = "notifying" /\ shutdown'
    BY <2>1, <2>2
  <2> QED
    BY <2>2, <2>3, Unmoved
<1>5. CASE CapDrop
  BY <1>5, DropLines DEF CapDrop, Advance, Dropped
<1>6. CASE TrySend
  <2> DEFINE w == senders[KeyOf(Next1)]
  <2>1. CASE fate' = [fate EXCEPT ![Next1] = "full"] /\ UNCHANGED queue
    BY <1>6, <2>1, DropLines DEF TrySend, Advance, Dropped
  <2>2. CASE fate' = [fate EXCEPT ![Next1] = "closed"] /\ UNCHANGED queue
    BY <1>6, <2>2, DropLines DEF TrySend, Advance, Dropped
  <2>3. CASE /\ Alive(w) /\ queue' = [queue EXCEPT ![w] = Append(@, Next1)]
             /\ UNCHANGED fate
    <3>1. w \in Msg /\ SameKey(Next1, w)
      BY <1>6, Addressee DEF IInv, TrySend
    <3> QED
      BY <1>6, <2>3, <3>1, JoinLines DEF TrySend, Advance
  <2> QED
    BY <1>6, <2>1, <2>2, <2>3 DEF TrySend
<1>7. ASSUME NEW n \in 1 .. MaxBatch, PollMessages(n) PROVE Lines'
  BY <1>7, PollLines
<1>8. CASE RequestShutdown \/ EvictClosedSenders \/ UNCHANGED vars
  BY <1>1, <1>8 DEF RequestShutdown, EvictClosedSenders, vars
<1>9. ASSUME NEW w \in Msg, WorkerStep(w) PROVE Lines'
  BY <1>9, WorkerLines
<1>10. CASE CheckStop \/ PollEmpty \/ BackoffElapses \/ BeginDrain \/ DrainElapses \/ Reuse
  BY <1>2, <1>3, <1>10 DEF CheckStop, PollEmpty, BackoffElapses, BeginDrain, DrainElapses, Reuse
<1>11. CASE PollRejected \/ PollFails
  BY <1>2, <1>3, <1>11 DEF PollRejected, PollFails
<1> QED
  BY <1>4, <1>5, <1>6, <1>7, <1>8, <1>9, <1>10, <1>11 DEF Next, PumpStep

-----------------------------------------------------------------------------
(* The service that the dispatcher gives                                   *)

DispatchInv == IInv /\ Lines /\ Addressed

LEMMA InitDispatch == Init => DispatchInv
<1>1. Init => Addressed
  BY DEF Init, Pristine, Addressed, EmptyMap
<1> QED
  BY <1>1, InitIInv, InitLines DEF DispatchInv

LEMMA DispatchStep == DispatchInv /\ [Next]_vars => DispatchInv'
<1>1. IInv => TypeOK /\ BatchPending
  BY DEF IInv
<1> QED
  BY <1>1, IInvStep, LinesStep, AddressedStep DEF DispatchInv

(* Line and Serving show a conversation's live worker, if it has one.      *)
Shown ==
  /\ \A w \in Msg : Alive(w) => Line[KeyOf(w)] = queue[w] /\ Serving[KeyOf(w)] = current[w]
  /\ \A k \in Key : (\A w \in Msg : KeyOf(w) = k => ~ Alive(w))
                      => Line[k] = <<>> /\ Serving[k] = NoMsg
  /\ Line = [k \in Key |-> Line[k]] /\ Serving = [k \in Key |-> Serving[k]]

LEMMA Showing == OneWorkerPerKey => Shown
<1> SUFFICES ASSUME OneWorkerPerKey PROVE Shown
  OBVIOUS
<1>1. ASSUME NEW w \in Msg, Alive(w)
      PROVE  Line[KeyOf(w)] = queue[w] /\ Serving[KeyOf(w)] = current[w]
  <2>1. WorkersOf(KeyOf(w)) = {w}
    BY <1>1 DEF WorkersOf, AliveWorkers, OneWorkerPerKey, SameKey
  <2>2. (CHOOSE u \in {w} : TRUE) = w
    OBVIOUS
  <2> QED
    BY <2>1, <2>2, KeyType DEF Line, Serving
<1>2. ASSUME NEW k \in Key, \A w \in Msg : KeyOf(w) = k => ~ Alive(w)
      PROVE  Line[k] = <<>> /\ Serving[k] = NoMsg
  <2>1. WorkersOf(k) = {}
    BY <1>2 DEF WorkersOf, AliveWorkers
  <2> QED
    BY <2>1 DEF Line, Serving
<1>3. Line = [k \in Key |-> Line[k]] /\ Serving = [k \in Key |-> Serving[k]]
  BY DEF Line, Serving
<1> QED
  BY <1>1, <1>2, <1>3 DEF Shown

LEMMA ShowingNext == OneWorkerPerKey' => Shown'
BY Showing, PTL

(* A conversation whose workers a step leaves alone looks the same.        *)
LEMMA SameLine ==
  ASSUME Lines, Shown, Shown', NEW k \in Key,
         \A u \in Msg : KeyOf(u) = k => /\ queue'[u] = queue[u] /\ current'[u] = current[u]
                                        /\ Alive(u) => Alive(u)'
  PROVE  Line'[k] = Line[k] /\ Serving'[k] = Serving[k]
<1>1. CASE \E u \in Msg : KeyOf(u) = k /\ Alive(u)
  <2>1. PICK u \in Msg : KeyOf(u) = k /\ Alive(u)
    BY <1>1
  <2>2. Alive(u)' /\ queue'[u] = queue[u] /\ current'[u] = current[u]
    BY <2>1
  <2>3. Line[k] = queue[u] /\ Serving[k] = current[u]
    BY <2>1 DEF Shown
  <2>4. Line'[k] = queue'[u] /\ Serving'[k] = current'[u]
    BY <2>1, <2>2 DEF Shown
  <2> QED
    BY <2>2, <2>3, <2>4
<1>2. CASE \A u \in Msg : KeyOf(u) = k => ~ Alive(u)
  <2>1. Line[k] = <<>> /\ Serving[k] = NoMsg
    BY <1>2 DEF Shown
  <2>2. \A u \in Msg : KeyOf(u) = k => queue'[u] = <<>> /\ current'[u] = NoMsg
    BY <1>2 DEF Lines, InLine, LineOf, InHand, HandOf, Alive
  <2>3. CASE \E u \in Msg : KeyOf(u) = k /\ Alive(u)'
    BY <2>1, <2>2, <2>3 DEF Shown
  <2>4. CASE \A u \in Msg : KeyOf(u) = k => ~ Alive(u)'
    BY <2>1, <2>4 DEF Shown
  <2> QED
    BY <2>3, <2>4
<1> QED
  BY <1>1, <1>2

(* When one worker moves, the other conversations look the same.           *)
LEMMA OtherLines ==
  ASSUME Lines, Shown, Shown', NEW w \in Msg,
         \A u \in Msg : u # w => /\ queue'[u] = queue[u] /\ current'[u] = current[u]
                                 /\ worker'[u] = worker[u]
  PROVE  \A j \in Key : j # KeyOf(w) => Line'[j] = Line[j] /\ Serving'[j] = Serving[j]
<1> SUFFICES ASSUME NEW j \in Key, j # KeyOf(w)
             PROVE  Line'[j] = Line[j] /\ Serving'[j] = Serving[j]
  OBVIOUS
<1>1. \A u \in Msg : KeyOf(u) = j => /\ queue'[u] = queue[u] /\ current'[u] = current[u]
                                      /\ Alive(u) => Alive(u)'
  BY DEF Alive
<1> HIDE DEF Shown
<1> QED
  BY <1>1, SameLine

Gone == { m \in Msg : fate[m] \notin Pending }

LEMMA InitService == Init => Service!Init
<1> SUFFICES ASSUME Init PROVE Service!Init
  OBVIOUS
<1>1. \A w \in Msg : ~ Alive(w)
  BY DEF Init, Pristine, Alive
<1>2. Shown
  BY InitIInv, Showing DEF IInv
<1>3. Line = [k \in Key |-> <<>>] /\ Serving = [k \in Key |-> 0]
  BY <1>1, <1>2 DEF Shown, NoMsg
<1>4. Gone = {}
  BY DEF Init, Pristine, Gone, Pending
<1>5. Service!Key = Key
  BY DEF Service!Key, Key
<1> QED
  BY <1>3, <1>4, <1>5 DEF Service!Init, Gone

(* What a conversation has seen was dispatched before.                     *)
LEMMA SeenDispatched ==
  ASSUME IInv, Lines, Shown, NEW k \in Key, NEW n \in Service!Seen(k)
  PROVE  n \in Msg /\ n <= dispatched
<1>1. /\ n \in Msg /\ KeyOf(n) = k
      /\ n \in Gone \/ n \in Range(Line[k]) \/ n = Serving[k]
  BY DEF Service!Seen, Service!Range, Range, Gone
<1>2. n \in Nat /\ n # NoMsg /\ dispatched \in Nat /\ received \in Nat
  BY <1>1, LinesTyped
<1>3. CASE n \in Gone
  <2>1. fate[n] # "unseen" /\ fate[n] # "waiting"
    BY <1>3 DEF Gone, Pending
  <2> QED
    BY <1>1, <1>2, <2>1 DEF Lines, Counted
<1>4. CASE \E u \in Msg : KeyOf(u) = k /\ Alive(u)
  <2>1. PICK u \in Msg : KeyOf(u) = k /\ Alive(u)
    BY <1>4
  <2>2. Line[k] = queue[u] /\ Serving[k] = current[u]
    BY <2>1 DEF Shown
  <2>3. CASE n \in Range(queue[u])
    <3>1. PICK i \in DOMAIN queue[u] : queue[u][i] = n
      BY <2>3 DEF Range
    <3> QED
      BY <1>1, <3>1, LineFacts
  <2>4. CASE n = current[u]
    BY <1>1, <1>2, <2>4, HandFacts
  <2> QED
    BY <1>1, <1>3, <2>2, <2>3, <2>4
<1>5. CASE \A u \in Msg : KeyOf(u) = k => ~ Alive(u)
  <2>1. Line[k] = <<>> /\ Serving[k] = NoMsg
    BY <1>5 DEF Shown
  <2> QED
    BY <1>1, <1>2, <1>3, <2>1 DEF Range
<1> QED
  BY <1>4, <1>5

(* Steps that show nothing of the service.                                 *)
LEMMA Hidden ==
  ASSUME IInv, Lines, Shown, Shown', UNCHANGED <<queue, current>>, Gone' = Gone,
         \A u \in Msg : Alive(u) => Alive(u)'
  PROVE  UNCHANGED <<Line, Serving, Gone>>
<1>1. \A k \in Key : Line'[k] = Line[k] /\ Serving'[k] = Serving[k]
  BY SameLine
<1> QED
  BY <1>1 DEF Shown

LEMMA RefuseStep ==
  ASSUME IInv, Lines, Shown, Shown', loop \in {"dispatching", "sending"}, NEW v \in Dropped,
         fate' = [fate EXCEPT ![Next1] = v],
         UNCHANGED <<queue, current, worker>>
  PROVE  \E m \in Msg : Service!Refuse(m)
<1>1. Next1 \in Msg /\ dispatched \in Nat /\ Next1 = dispatched + 1 /\ KeyOf(Next1) \in Key
  BY NextMessage, LinesTyped, KeyType DEF IInv, Next1
<1>2. Next1 \notin Service!Seen(KeyOf(Next1))
  BY <1>1, SeenDispatched
<1>3. \A k \in Key : Line'[k] = Line[k] /\ Serving'[k] = Serving[k]
  <2>1. \A u \in Msg : Alive(u) => Alive(u)'
    BY DEF Alive
  <2> QED
    BY <2>1, SameLine
<1>4. Line' = Line /\ Serving' = Serving
  BY <1>3 DEF Shown
<1>5. Gone' = Gone \cup {Next1}
  <2>1. v \notin Pending /\ fate \in [Msg -> Fates]
    BY LinesTyped DEF Dropped, Pending
  <2> QED
    BY <1>1, <2>1 DEF Gone
<1> QED
  BY <1>1, <1>2, <1>4, <1>5 DEF Service!Refuse, Gone

LEMMA JoinStep ==
  ASSUME IInv, Lines, Shown, Shown', loop = "sending", NEW w \in Msg, Alive(w),
         SameKey(Next1, w), queue' = [queue EXCEPT ![w] = Append(queue[w], Next1)],
         UNCHANGED <<current, worker, fate>>
  PROVE  Service!Join(Next1) /\ Next1 \in Msg
<1> DEFINE k == KeyOf(Next1)
<1>1. /\ Next1 \in Msg /\ dispatched \in Nat /\ Next1 = dispatched + 1 /\ k \in Key
      /\ k = KeyOf(w) /\ Msg \subseteq Nat
  BY NextMessage, LinesTyped, KeyType DEF IInv, Next1, SameKey
<1>2. \A n \in Service!Seen(k) : n < Next1
  <2> SUFFICES ASSUME NEW n \in Service!Seen(k) PROVE n < Next1
    OBVIOUS
  <2>1. n \in Nat /\ n <= dispatched
    BY <1>1, SeenDispatched
  <2> QED
    BY <1>1, <2>1
<1>3. \A u \in Msg : Alive(u) <=> Alive(u)'
  BY DEF Alive
<1>4. queue'[w] = Append(queue[w], Next1) /\ \A u \in Msg : u # w => queue'[u] = queue[u]
  BY LinesTyped
<1>5. \A j \in Key : j # k => Line'[j] = Line[j] /\ Serving'[j] = Serving[j]
  BY <1>1, <1>4, OtherLines
<1>6. Line[k] = queue[w] /\ Serving[k] = current[w]
  BY <1>1 DEF Shown
<1>7. Line'[k] = queue'[w] /\ Serving'[k] = current[w]
  BY <1>1, <1>3 DEF Shown
<1>8. Line' = [Line EXCEPT ![k] = Append(Line[k], Next1)]
  BY <1>1, <1>4, <1>5, <1>6, <1>7 DEF Shown
<1>9. Serving' = Serving
  BY <1>5, <1>6, <1>7 DEF Shown
<1>10. Gone' = Gone
  BY DEF Gone
<1> QED
  BY <1>1, <1>2, <1>8, <1>9, <1>10 DEF Service!Join, Gone

LEMMA ServeStep ==
  ASSUME IInv, Lines, Shown, Shown', NEW w \in Msg, WorkerTakes(w)
  PROVE  Service!Serve(KeyOf(w))
<1> DEFINE k == KeyOf(w)
<1>1. /\ k \in Key /\ worker[w] = "idle" /\ queue[w] # <<>> /\ Alive(w)
      /\ worker' = [worker EXCEPT ![w] = "handling"]
      /\ current' = [current EXCEPT ![w] = Head(queue[w])]
      /\ queue' = [queue EXCEPT ![w] = Tail(queue[w])]
      /\ fate' = [fate EXCEPT ![Head(queue[w])] = "handling"]
  BY KeyType DEF WorkerTakes, Alive
<1>2. /\ queue'[w] = Tail(queue[w]) /\ current'[w] = Head(queue[w]) /\ Alive(w)'
      /\ \A u \in Msg : u # w => /\ queue'[u] = queue[u] /\ current'[u] = current[u]
                                 /\ worker'[u] = worker[u]
  BY <1>1, LinesTyped DEF Alive
<1>3. current[w] = NoMsg
  BY <1>1 DEF Lines, InHand, HandOf
<1>4. \A j \in Key : j # k => Line'[j] = Line[j] /\ Serving'[j] = Serving[j]
  BY <1>2, OtherLines
<1>5. Line[k] = queue[w] /\ Serving[k] = NoMsg
  BY <1>1, <1>3 DEF Shown
<1>6. Line'[k] = Tail(queue[w]) /\ Serving'[k] = Head(queue[w])
  BY <1>2 DEF Shown
<1>7. /\ Line' = [Line EXCEPT ![k] = Tail(Line[k])]
      /\ Serving' = [Serving EXCEPT ![k] = Head(Line[k])]
  <2> DEFINE t == Tail(queue[w])
             h == Head(queue[w])
  <2> HIDE DEF t, h
  <2>1. Line'[k] = t /\ Serving'[k] = h
    BY <1>6 DEF t, h
  <2>2. Line' = [Line EXCEPT ![k] = t] /\ Serving' = [Serving EXCEPT ![k] = h]
    BY <1>1, <1>4, <2>1 DEF Shown
  <2> QED
    BY <1>5, <2>2 DEF t, h
<1>8. Gone' = Gone
  <2>1. fate[Head(queue[w])] = "waiting"
    <3>1. 1 \in DOMAIN queue[w] /\ Head(queue[w]) = queue[w][1]
      BY <1>1, LinesTyped, HeadTailProperties, EmptySeq
    <3> QED
      BY <3>1, LineFacts
  <2>2. fate \in [Msg -> Fates]
    BY LinesTyped
  <2> QED
    BY <1>1, <2>1, <2>2 DEF Gone, Pending
<1> QED
  BY <1>1, <1>5, <1>7, <1>8 DEF Service!Serve, Gone, NoMsg

LEMMA FinishStep ==
  ASSUME IInv, Lines, Shown, Shown', NEW w \in Msg, NEW v \in Answered,
         NEW next \in {"idle", "sleeping"}, HandleReturns(w, v, next)
  PROVE  Service!Finish(KeyOf(w))
<1> DEFINE k == KeyOf(w)
<1>1. /\ k \in Key /\ worker[w] = "handling" /\ Alive(w) /\ queue' = queue
      /\ worker' = [worker EXCEPT ![w] = next]
      /\ current' = [current EXCEPT ![w] = NoMsg]
      /\ fate' = [fate EXCEPT ![current[w]] = v]
  BY KeyType DEF HandleReturns, Alive
<1>2. /\ current'[w] = NoMsg /\ Alive(w)'
      /\ \A u \in Msg : u # w => /\ queue'[u] = queue[u] /\ current'[u] = current[u]
                                 /\ worker'[u] = worker[u]
  BY <1>1, LinesTyped DEF Alive
<1>3. current[w] # NoMsg /\ current[w] \in Msg
  BY <1>1, LinesTyped DEF Lines, InHand, HandOf
<1>4. \A j \in Key : j # k => Line'[j] = Line[j] /\ Serving'[j] = Serving[j]
  BY <1>2, OtherLines
<1>5. Line[k] = queue[w] /\ Serving[k] = current[w]
  BY <1>1 DEF Shown
<1>6. Line'[k] = queue[w] /\ Serving'[k] = NoMsg
  BY <1>1, <1>2 DEF Shown
<1>7. Line' = Line /\ Serving' = [Serving EXCEPT ![k] = NoMsg]
  BY <1>1, <1>4, <1>5, <1>6 DEF Shown
<1>8. Gone' = Gone \cup {Serving[k]}
  <2>1. v \notin Pending /\ fate \in [Msg -> Fates]
    BY LinesTyped DEF Answered, Pending
  <2> QED
    BY <1>1, <1>3, <1>5, <2>1 DEF Gone
<1> QED
  BY <1>3, <1>5, <1>7, <1>8 DEF Service!Finish, Gone, NoMsg

LEMMA DissolveStep ==
  ASSUME IInv, Lines, Shown, Shown', NEW w \in Msg, NEW v \in Fates \ Pending, Alive(w),
         Exit(w, v)
  PROVE  Service!Dissolve(KeyOf(w))
<1> DEFINE k == KeyOf(w)
<1>1. /\ k \in Key
      /\ worker' = [worker EXCEPT ![w] = "exited"]
      /\ queue' = [queue EXCEPT ![w] = <<>>]
      /\ current' = [current EXCEPT ![w] = NoMsg]
      /\ \A m \in Msg : fate'[m] = IF m = current[w] THEN v
                                   ELSE IF m \in Range(queue[w]) THEN "discarded" ELSE fate[m]
  BY KeyType DEF Exit
<1>2. /\ ~ Alive(w)'
      /\ \A u \in Msg : u # w => /\ queue'[u] = queue[u] /\ current'[u] = current[u]
                                 /\ worker'[u] = worker[u]
  BY <1>1, LinesTyped DEF Alive
<1>3. \A u \in Msg : KeyOf(u) = k => ~ Alive(u)'
  <2>1. \A u \in Msg : KeyOf(u) = k /\ u # w => ~ Alive(u)
    BY DEF IInv, OneWorkerPerKey, AliveWorkers, SameKey
  <2> QED
    BY <1>2, <2>1 DEF Alive
<1>4. \A j \in Key : j # k => Line'[j] = Line[j] /\ Serving'[j] = Serving[j]
  BY <1>2, OtherLines
<1>5. Line[k] = queue[w] /\ Serving[k] = current[w]
  BY <1>1 DEF Shown
<1>6. Line'[k] = <<>> /\ Serving'[k] = NoMsg
  BY <1>1, <1>3 DEF Shown
<1>7. Line' = [Line EXCEPT ![k] = <<>>] /\ Serving' = [Serving EXCEPT ![k] = NoMsg]
  BY <1>1, <1>4, <1>6 DEF Shown
<1>8. Gone' = Gone \cup Range(queue[w]) \cup ({current[w]} \ {NoMsg})
  <2>1. Range(queue[w]) \subseteq Msg
    BY LineFacts DEF Range
  <2>2. "discarded" \notin Pending /\ v \notin Pending
    BY DEF Pending
  <2>3. current[w] \in Msg \cup {NoMsg} /\ NoMsg \notin Msg
    BY LinesTyped
  <2>4. \A m \in Msg : m \in Gone' <=> m \in Gone \/ m \in Range(queue[w]) \/ m = current[w]
    BY <1>1, <2>2 DEF Gone
  <2>5. Gone \subseteq Msg /\ Gone' \subseteq Msg
    BY DEF Gone
  <2> QED
    BY <2>1, <2>3, <2>4, <2>5
<1> QED
  BY <1>5, <1>7, <1>8 DEF Service!Dissolve, Service!Range, Range, Gone, NoMsg

LEMMA WorkerService ==
  ASSUME IInv, Lines, Shown, Shown', NEW w \in Msg, WorkerStep(w)
  PROVE  Service!Next \/ UNCHANGED <<Line, Serving, Gone>>
<1> USE DEF Service!Next
<1>1. KeyOf(w) \in Service!Key
  BY DEF Service!Key
<1>2. CASE WorkerTakes(w)
  BY <1>1, <1>2, ServeStep
<1>3. ASSUME Alive(w), NEW v \in Fates \ Pending, Exit(w, v) PROVE Service!Next
  BY <1>1, <1>3, DissolveStep
<1>4. CASE WorkerDrained(w) \/ WorkerYields(w)
  <2>1. Alive(w) /\ Exit(w, "done") /\ "done" \in Fates \ Pending
    BY <1>4 DEF WorkerDrained, WorkerYields, Alive, Fates, Pending, Answered
  <2> QED
    BY <1>3, <2>1
<1>5. CASE HandleOk(w)
  <2>1. "done" \in Answered /\ HandleReturns(w, "done", "idle")
    BY <1>5 DEF HandleOk, Answered
  <2> QED
    BY <1>1, <2>1, FinishStep
<1>6. CASE HandleTransient(w)
  <2>1. "failed" \in Answered /\ HandleReturns(w, "failed", "sleeping")
    BY <1>6 DEF HandleTransient, Answered
  <2> QED
    BY <1>1, <2>1, FinishStep
<1>7. CASE HandleFatal(w)
  <2>1. Alive(w) /\ Exit(w, "fatal") /\ "fatal" \in Fates \ Pending
    BY <1>7 DEF HandleFatal, Alive, Fates, Pending, Answered
  <2> QED
    BY <1>3, <2>1
<1>8. CASE HandlePanics(w)
  <2>1. Alive(w) /\ Exit(w, "panicked") /\ "panicked" \in Fates \ Pending
    BY <1>8 DEF HandlePanics, Alive, Fates, Pending, Cut
  <2> QED
    BY <1>3, <2>1
<1>9. ASSUME NEW s \in {"idle", "notifying"}, worker' = [worker EXCEPT ![w] = s],
             UNCHANGED <<queue, current, fate>>
      PROVE  UNCHANGED <<Line, Serving, Gone>>
  <2>1. \A u \in Msg : Alive(u) => Alive(u)'
    BY <1>9, LinesTyped DEF Alive
  <2>2. Gone' = Gone
    BY <1>9 DEF Gone
  <2> QED
    BY <1>9, <2>1, <2>2, Hidden
<1>10. CASE SleepElapses(w)
  BY <1>9, <1>10 DEF SleepElapses
<1>11. CASE Interrupt(w)
  <2>1. CASE Exit(w, "interrupted")
    <3>1. Alive(w) /\ "interrupted" \in Fates \ Pending
      BY <1>11 DEF Interrupt, Alive, Fates, Pending, Cut
    <3> QED
      BY <1>3, <2>1, <3>1
  <2>2. CASE worker' = [worker EXCEPT ![w] = "notifying"] /\ UNCHANGED <<queue, current, fate>>
    BY <1>9, <2>2
  <2> QED
    BY <1>11, <2>1, <2>2 DEF Interrupt
<1>12. CASE NoticeEnds(w)
  <2>1. PICK v \in {"noticed", "interrupted"} : Exit(w, v)
    BY <1>12 DEF NoticeEnds
  <2>2. Alive(w) /\ v \in Fates \ Pending
    BY <1>12 DEF NoticeEnds, Alive, Fates, Pending, Cut
  <2> QED
    BY <1>3, <2>1, <2>2
<1> QED
  BY <1>2, <1>4, <1>5, <1>6, <1>7, <1>8, <1>10, <1>11, <1>12 DEF WorkerStep

LEMMA PumpService ==
  ASSUME DispatchInv, Shown, Shown', Next, ~ \E w \in Msg : WorkerStep(w)
  PROVE  Service!Next \/ UNCHANGED <<Line, Serving, Gone>>
<1> USE DEF DispatchInv
<1>1. ASSUME NEW v \in Dropped, loop \in {"dispatching", "sending"},
             fate' = [fate EXCEPT ![Next1] = v], UNCHANGED <<queue, current, worker>>
      PROVE  Service!Next
  BY <1>1, RefuseStep DEF Service!Next
<1>2. CASE CapDrop
  BY <1>1, <1>2 DEF CapDrop, Dropped
<1>3. CASE TrySend
  <2> DEFINE w == senders[KeyOf(Next1)]
  <2>1. CASE /\ fate' = [fate EXCEPT ![Next1] = "full"] \/ fate' = [fate EXCEPT ![Next1] = "closed"]
             /\ UNCHANGED queue
    BY <1>1, <1>3, <2>1 DEF TrySend, Dropped
  <2>2. CASE /\ Alive(w) /\ queue' = [queue EXCEPT ![w] = Append(@, Next1)]
             /\ UNCHANGED fate
    <3>1. w \in Msg /\ SameKey(Next1, w)
      BY <1>3, Addressee DEF IInv, TrySend
    <3> QED
      BY <1>3, <2>2, <3>1, JoinStep DEF TrySend, Service!Next
  <2> QED
    BY <1>3, <2>1, <2>2 DEF TrySend
<1>4. ASSUME UNCHANGED <<queue, current>>, Gone' = Gone, \A u \in Msg : Alive(u) => Alive(u)'
      PROVE  UNCHANGED <<Line, Serving, Gone>>
  BY <1>4, Hidden
<1>5. ASSUME UNCHANGED <<queue, current, fate, worker>> PROVE UNCHANGED <<Line, Serving, Gone>>
  BY <1>4, <1>5 DEF Gone, Alive
<1>6. CASE Spawn
  <2>1. \A u \in Msg : Alive(u) => Alive(u)'
    BY <1>6, LinesTyped DEF Spawn, Alive
  <2> QED
    BY <1>4, <1>6, <2>1 DEF Spawn, Gone
<1>7. ASSUME NEW n \in 1 .. MaxBatch, PollMessages(n) PROVE UNCHANGED <<Line, Serving, Gone>>
  <2>1. \A m \in Msg : fate'[m] = IF m \in received + 1 .. received + n THEN "waiting"
                                  ELSE fate[m]
    BY <1>7 DEF PollMessages
  <2>2. \A m \in Msg : m \in received + 1 .. received + n => fate[m] = "unseen"
    BY LinesTyped DEF Lines, Counted
  <2>3. \A m \in Msg : fate'[m] \in Pending <=> fate[m] \in Pending
    BY <2>1, <2>2 DEF Pending
  <2> QED
    BY <1>4, <1>7, <2>3 DEF PollMessages, Gone, Alive
<1>8. CASE \/ CheckStop \/ PollEmpty \/ BackoffElapses \/ BeginDrain \/ DrainElapses \/ Reuse
           \/ PollRejected \/ PollFails \/ RequestShutdown \/ EvictClosedSenders
  BY <1>5, <1>8 DEF CheckStop, PollEmpty, BackoffElapses, BeginDrain, DrainElapses, Reuse,
                    PollRejected, PollFails, RequestShutdown, EvictClosedSenders, LoopTo, Return
<1> QED
  BY <1>2, <1>3, <1>6, <1>7, <1>8 DEF Next, PumpStep

LEMMA ServiceStep ==
  DispatchInv /\ DispatchInv' /\ [Next]_vars => [Service!Next]_(Service!vars)
<1> SUFFICES ASSUME DispatchInv, DispatchInv', [Next]_vars
             PROVE  [Service!Next]_(Service!vars)
  OBVIOUS
<1>1. Shown /\ Shown'
  BY Showing, ShowingNext DEF DispatchInv, IInv
<1>2. CASE Next
  <2>1. Service!Next \/ UNCHANGED <<Line, Serving, Gone>>
    BY <1>1, <1>2, PumpService, WorkerService DEF DispatchInv
  <2> QED
    BY <2>1 DEF Service!vars, Gone
<1>3. CASE UNCHANGED vars
  <2>1. UNCHANGED <<Line, Serving, Gone>>
    BY <1>3 DEF vars, Line, Serving, Gone, WorkersOf, AliveWorkers, Alive
  <2> QED
    BY <2>1 DEF Service!vars, Gone
<1> QED
  BY <1>2, <1>3

(* A message that waits is still to be dispatched or stands, once, in the  *)
(* line of a live worker.                                                  *)
LEMMA Reached == DispatchInv => WaitingIsReachable
<1> SUFFICES ASSUME DispatchInv, NEW m \in Msg, fate[m] = "waiting",
                    m \notin dispatched + 1 .. received
             PROVE  \E w \in AliveWorkers :
                      /\ SameKey(m, w)
                      /\ Cardinality({ i \in DOMAIN queue[w] : queue[w][i] = m }) = 1
  BY DEF WaitingIsReachable
<1> USE DEF DispatchInv
<1>1. m \in Nat /\ received \in Nat /\ dispatched \in Nat
  BY LinesTyped
<1>2. m <= received
  BY <1>1 DEF Lines, Counted
<1>3. m <= dispatched
  BY <1>1, <1>2
<1>4. PICK w \in Msg : IsIn(m, w)
  BY <1>3 DEF Lines, Queued
<1>5. PICK i \in DOMAIN queue[w] : queue[w][i] = m
  BY <1>4 DEF IsIn
<1>6. /\ SameKey(m, w) /\ Alive(w)
      /\ \A h, j \in DOMAIN queue[w] : h < j => queue[w][h] < queue[w][j]
  <2>1. queue[w] # <<>>
    BY <1>5
  <2> QED
    BY <1>5, <2>1, LineFacts DEF Lines, InLine, LineOf
<1>7. \A j \in DOMAIN queue[w] : queue[w][j] = m => j = i
  <2> SUFFICES ASSUME NEW j \in DOMAIN queue[w], queue[w][j] = m, j # i PROVE FALSE
    OBVIOUS
  <2>1. i \in Nat /\ j \in Nat
    BY LinesTyped
  <2>2. i < j \/ j < i
    BY <2>1
  <2>3. m < m
    BY <1>5, <1>6, <2>2
  <2> QED
    BY <1>1, <2>3
<1>8. { j \in DOMAIN queue[w] : queue[w][j] = m } = {i}
  BY <1>5, <1>7
<1>9. Cardinality({ j \in DOMAIN queue[w] : queue[w][j] = m }) = 1
  BY <1>8, FS_Singleton
<1>10. w \in AliveWorkers /\ SameKey(m, w)
  BY <1>6 DEF AliveWorkers
<1> QED
  BY <1>9, <1>10

(* Who throws a waiting message away.                                      *)
LEMMA ExitDiscards ==
  ASSUME IInv, Lines, NEW w \in Msg, NEW v \in Fates, v # "discarded", Exit(w, v),
         NEW m \in Msg, fate[m] = "waiting", fate'[m] = "discarded"
  PROVE  /\ queue[w] # <<>> /\ SameKey(m, w) /\ current[w] < m
         /\ current[w] # NoMsg => fate'[current[w]] = v
<1>1. IsIn(m, w)
  BY DEF Exit, Range, IsIn
<1>2. PICK i \in DOMAIN queue[w] : queue[w][i] = m
  BY <1>1 DEF IsIn
<1>3. SameKey(m, w) /\ current[w] < m /\ queue[w] # <<>>
  BY <1>2, LineFacts
<1>4. current[w] # NoMsg => fate'[current[w]] = v
  BY LinesTyped DEF Exit
<1> QED
  BY <1>3, <1>4

Cause(m) ==
  \/ shutdown
  \/ \E n \in Msg : /\ SameKey(m, n) /\ n < m
                    /\ fate[n] = "handling"
                    /\ fate'[n] \in {"fatal", "panicked"}

LEMMA DiscardStep ==
  ASSUME DispatchInv, [Next]_vars, NEW m \in Msg, fate[m] = "waiting", fate'[m] = "discarded"
  PROVE  Cause(m)
<1> USE DEF DispatchInv
<1>1. fate \in [Msg -> Fates]
  BY LinesTyped
<1>2. PICK w \in Msg : WorkerStep(w)
  <2>1. ~ UNCHANGED fate
    OBVIOUS
  <2>2. \A n \in 1 .. MaxBatch : ~ PollMessages(n)
    BY DEF PollMessages
  <2>3. \A v \in {"cap", "full", "closed"} : fate' # [fate EXCEPT ![Next1] = v]
    BY <1>1
  <2>4. ~ CapDrop
    BY <2>3 DEF CapDrop
  <2>5. ~ TrySend
    BY <2>1, <2>3 DEF TrySend
  <2>6. ~ UNCHANGED vars /\ ~ PumpStep
    BY <2>1, <2>4, <2>5
       DEF vars, PumpStep, CheckStop, PollEmpty, BackoffElapses, BeginDrain, DrainElapses,
           Reuse, Spawn, LoopTo, Return
  <2> QED
    BY <2>1, <2>2, <2>6
       DEF Next, PollRejected, PollFails, RequestShutdown, EvictClosedSenders, LoopTo, Return
<1>3. CASE WorkerTakes(w)
  BY <1>1, <1>3 DEF WorkerTakes
<1>4. CASE WorkerDrained(w)
  <2>1. Exit(w, "done") /\ "done" \in Fates /\ queue[w] = <<>>
    BY <1>4 DEF WorkerDrained, Fates, Answered
  <2> QED
    BY <2>1, ExitDiscards
<1>5. CASE WorkerYields(w) \/ Interrupt(w)
  BY <1>5 DEF WorkerYields, Interrupt, Cause
<1>6. CASE HandleOk(w) \/ HandleTransient(w)
  BY <1>1, <1>6 DEF HandleOk, HandleTransient, HandleReturns
<1>7. CASE HandleFatal(w) \/ HandlePanics(w)
  <2>1. /\ worker[w] = "handling"
        /\ \E v \in {"fatal", "panicked"} : Exit(w, v)
    BY <1>7 DEF HandleFatal, HandlePanics
  <2>2. PICK v \in {"fatal", "panicked"} : Exit(w, v)
    BY <2>1
  <2>3. v \in Fates /\ v # "discarded"
    BY DEF Fates, Answered, Cut
  <2>4. current[w] # NoMsg
    BY <2>1 DEF Lines, InHand, HandOf
  <2>5. current[w] \in Msg /\ SameKey(current[w], w) /\ fate[current[w]] = "handling"
    BY <2>4, HandFacts
  <2>6. SameKey(m, w) /\ current[w] < m /\ fate'[current[w]] = v
    BY <2>2, <2>3, <2>4, ExitDiscards
  <2> QED
    BY <2>5, <2>6 DEF Cause, SameKey
<1>8. CASE SleepElapses(w)
  BY <1>8 DEF SleepElapses
<1>9. CASE NoticeEnds(w)
  BY <1>9 DEF NoticeEnds, Cause, Lines, InHand, HandOf
<1> QED
  BY <1>2, <1>3, <1>4, <1>5, <1>6, <1>7, <1>8, <1>9 DEF WorkerStep

-----------------------------------------------------------------------------
(* Theorems                                                                *)

(* The pump keeps its types, for any number of messages and conversations, *)
(* any cap and any queue size.                                             *)
THEOREM TypeCorrect == Spec => []TypeOK
<1>1. IInv => TypeOK
  BY DEF IInv
<1> QED
  BY InitIInv, IInvStep, <1>1, PTL DEF Spec

(* No conversation ever has two live workers in one run of the bridge:     *)
(* run_bridge_with_shutdown spawns run_session_worker for a dispatch key   *)
(* only after the key's previous worker has ended.                         *)
THEOREM OneWorker == Spec => []OneWorkerPerKey
<1>1. IInv => OneWorkerPerKey
  BY DEF IInv
<1> QED
  BY InitIInv, IInvStep, <1>1, PTL DEF Spec

(* Nothing falls between the batch and the channels: what dispatch() has   *)
(* accepted and no worker has taken yet stands exactly once in the channel *)
(* of a live worker of its conversation.                                   *)
THEOREM Reachable == Spec => []WaitingIsReachable
BY InitDispatch, DispatchStep, Reached, PTL DEF Spec

(* A worker's end throws queued messages away only under a shutdown or     *)
(* after a fatal or panicking turn of the same, earlier conversation.      *)
THEOREM DiscardCaused == Spec => DiscardHasACause
<1>1. DispatchInv /\ [Next]_vars =>
        [\A m \in Msg : fate[m] = "waiting" /\ fate'[m] = "discarded"
           => \/ shutdown
              \/ \E n \in Msg : /\ SameKey(m, n) /\ n < m
                                /\ fate[n] = "handling"
                                /\ fate'[n] \in {"fatal", "panicked"}]_vars
  BY DiscardStep DEF Cause
<1> QED
  BY InitDispatch, DispatchStep, <1>1, PTL DEF Spec, DiscardHasACause

(* Channels, the shared map, respawned workers and evictions are together  *)
(* one line and one server per conversation: every step of the dispatcher  *)
(* is a step of ConversationService or invisible to it.                    *)
THEOREM Implements == Spec => ImplementsConversationService
<1>1. Spec => []DispatchInv
  BY InitDispatch, DispatchStep, PTL DEF Spec
<1> QED
  BY InitService, ServiceStep, <1>1, PTL DEF Spec, ImplementsConversationService, Service!Spec

-----------------------------------------------------------------------------
(* The process around the pump                                             *)

(* What survives a reconnect: the detached workers of an earlier run may   *)
(* share a conversation with the present one's and are not counted with    *)
(* them; of its own workers the map still names every live one, and it     *)
(* never has more entries than the cap.                                    *)
CrewOwns == \A w \in crew : Alive(w) => senders[KeyOf(w)] = w
HeldBound == Cardinality(Held) <= MaxSessions
RunInv == TypeOK /\ BatchPending /\ CrewOwns /\ HeldBound

LEMMA KeysFinite == IsFiniteSet(Key)
<1> DEFINE f == [m \in Msg |-> KeyOf(m)]
<1>1. IsFiniteSet(Msg)
  BY FS_Interval, ConstantsAssumption DEF Msg
<1>2. f \in Surjection(Msg, Key)
  BY DEF Surjection, Key
<1> QED
  BY <1>1, <1>2, FS_Surjection

LEMMA HeldFinite == IsFiniteSet(Held) /\ Cardinality(Held) \in Nat
<1>1. Held \in SUBSET Key
  BY DEF Held
<1>2. IsFiniteSet(Held)
  BY <1>1, KeysFinite, FS_Subset
<1> QED
  BY <1>2, FS_CardinalityType

(* A map that has lost entries, or none, is still bounded.                 *)
LEMMA FewerHeld ==
  ASSUME HeldBound, Held' \in SUBSET Held PROVE HeldBound'
<1>1. IsFiniteSet(Held) /\ Cardinality(Held) \in Nat
  BY HeldFinite
<1>2. IsFiniteSet(Held') /\ Cardinality(Held') \in Nat /\ Cardinality(Held') <= Cardinality(Held)
  <2>1. IsFiniteSet(Held') /\ Cardinality(Held') <= Cardinality(Held)
    BY <1>1, FS_Subset
  <2> QED
    BY <2>1, FS_CardinalityType
<1> QED
  BY <1>1, <1>2, ConstantsAssumption DEF HeldBound

(* Steps that spawn no worker lose entries of closed channels only, or the *)
(* whole map and crew with the loop.                                       *)
LEMMA NoSpawnKeeps ==
  ASSUME RunInv,
         \A w \in Msg : Alive(w)' => Alive(w),
         \/ senders' \in {senders, RetainOpen} /\ UNCHANGED crew
         \/ senders' = EmptyMap /\ crew' = {}
  PROVE  CrewOwns' /\ HeldBound'
<1>1. CrewOwns'
  <2> SUFFICES ASSUME NEW w \in crew', Alive(w)' PROVE senders'[KeyOf(w)] = w
    BY DEF CrewOwns
  <2>1. /\ w \in crew /\ crew' = crew /\ w \in Msg
        /\ senders' = senders \/ senders' = RetainOpen
    BY DEF RunInv, TypeOK
  <2>2. Alive(w) /\ senders[KeyOf(w)] = w /\ KeyOf(w) \in Key
    BY <2>1, KeyType DEF RunInv, CrewOwns
  <2>3. KeyOf(w) \notin Closed
    BY <2>2 DEF Closed
  <2> QED
    BY <2>1, <2>2, <2>3 DEF RetainOpen
<1>2. Held' \in SUBSET Held
  <2>1. CASE senders' = senders
    BY <2>1 DEF Held
  <2>2. CASE senders' = RetainOpen
    BY <2>2 DEF Held, RetainOpen
  <2>3. CASE senders' = EmptyMap
    BY <2>3 DEF Held, EmptyMap
  <2> QED
    BY <2>1, <2>2, <2>3
<1>3. HeldBound'
  BY <1>2, FewerHeld DEF RunInv
<1> QED
  BY <1>1, <1>3

(* A new entry finds room: either the map was not full, or it is not after *)
(* the closed entries are gone.                                            *)
LEMMA SpawnWithinCap == ASSUME RunInv, Spawn PROVE CrewOwns' /\ HeldBound'
<1> DEFINE k == KeyOf(Next1)
           kept == IF AtCap(Held) THEN RetainOpen ELSE senders
           open == IF AtCap(Held) THEN Held \ Closed ELSE Held
<1>1. Next1 \in Msg /\ k \in Key
  BY NextMessage, KeyType DEF RunInv, Spawn
<1>2. /\ senders' = [kept EXCEPT ![k] = Next1]
      /\ crew' = crew \cup {Next1}
      /\ worker' = [worker EXCEPT ![Next1] = "idle"]
      /\ k \notin Held \/ k \in Closed
      /\ ~ AtCap(open)
  BY DEF Spawn, NeedsNew
<1>3. /\ kept \in [Key -> Msg \cup {NoWorker}]
      /\ \A j \in Key : kept[j] = senders[j] \/ (kept[j] = NoWorker /\ j \in Closed)
  BY DEF RunInv, TypeOK, RetainOpen
<1>4. CrewOwns'
  <2> SUFFICES ASSUME NEW w \in crew', Alive(w)' PROVE senders'[KeyOf(w)] = w
    BY DEF CrewOwns
  <2>1. CASE w = Next1
    BY <1>1, <1>2, <1>3, <2>1
  <2>2. CASE w # Next1
    <3>1. w \in crew /\ w \in Msg /\ Alive(w)
      BY <1>1, <1>2, <2>2 DEF RunInv, TypeOK, Alive
    <3>2. senders[KeyOf(w)] = w /\ KeyOf(w) \in Key /\ w # NoWorker
      BY <3>1, KeyType, ConstantsAssumption DEF RunInv, CrewOwns, NoWorker, Msg
    <3>3. KeyOf(w) \in Held /\ KeyOf(w) \notin Closed
      BY <3>1, <3>2 DEF Held, Closed
    <3>4. KeyOf(w) # k /\ kept[KeyOf(w)] = w
      BY <1>2, <1>3, <3>2, <3>3
    <3> HIDE DEF k, kept
    <3> QED
      BY <1>1, <1>2, <1>3, <3>2, <3>4
  <2> QED
    BY <2>1, <2>2
<1>5. Held' \in SUBSET (open \cup {k})
  <2> SUFFICES ASSUME NEW j \in Key, senders'[j] # NoWorker, j # k PROVE j \in open
    BY DEF Held
  <2>1. kept[j] # NoWorker
    BY <1>1, <1>2, <1>3
  <2> QED
    BY <2>1, <1>3 DEF Held, RetainOpen
<1>6. IsFiniteSet(open) /\ Cardinality(open) \in Nat
  <2>1. open \in SUBSET Held
    OBVIOUS
  <2>2. IsFiniteSet(open)
    BY <2>1, HeldFinite, FS_Subset
  <2> QED
    BY <2>2, FS_CardinalityType
<1>7. Cardinality(open) < MaxSessions
  BY <1>2, <1>6, ConstantsAssumption DEF AtCap
<1> HIDE DEF open
<1>8. /\ IsFiniteSet(open \cup {k})
      /\ Cardinality(open \cup {k}) \in Nat
      /\ Cardinality(open \cup {k}) <= Cardinality(open) + 1
  <2>1. /\ IsFiniteSet(open \cup {k})
        /\ Cardinality(open \cup {k}) =
             IF k \in open THEN Cardinality(open) ELSE Cardinality(open) + 1
    BY <1>6, FS_AddElement
  <2> QED
    BY <1>6, <2>1
<1>9. Cardinality(Held') \in Nat /\ Cardinality(Held') <= Cardinality(open \cup {k})
  <2>1. IsFiniteSet(Held') /\ Cardinality(Held') <= Cardinality(open \cup {k})
    BY <1>5, <1>8, FS_Subset
  <2> QED
    BY <2>1, FS_CardinalityType
<1>10. HeldBound'
  BY <1>6, <1>7, <1>8, <1>9, ConstantsAssumption DEF HeldBound
<1> QED
  BY <1>4, <1>10

LEMMA InitCap == Pristine => CrewOwns /\ HeldBound
<1> SUFFICES ASSUME Pristine PROVE CrewOwns /\ HeldBound
  OBVIOUS
<1>1. Held = {}
  BY DEF Pristine, Held, EmptyMap
<1> QED
  BY <1>1, FS_EmptySet, ConstantsAssumption DEF Pristine, CrewOwns, HeldBound

LEMMA InitRun == RunInit => RunInv
<1> SUFFICES ASSUME RunInit PROVE RunInv
  OBVIOUS
<1>1. received \in 0 .. Arrivals /\ dispatched \in 0 .. received
  BY ConstantsAssumption DEF RunInit, Pristine
<1>2. senders \in [Key -> Msg \cup {NoWorker}] /\ queue \in [Msg -> Seq(Msg)]
  BY DEF RunInit, Pristine, EmptyMap
<1>3. TypeOK
  BY <1>1, <1>2
     DEF RunInit, Pristine, TypeOK, LoopStates, BridgeStop, WorkerStates, Fates, Pending
<1>4. BatchPending /\ CrewOwns /\ HeldBound
  BY InitCap DEF RunInit, BatchPending
<1> QED
  BY <1>3, <1>4 DEF RunInv

LEMMA BatchStep == ASSUME TypeOK, BatchPending, [Next]_vars PROVE BatchPending'
<1>1. ASSUME NEW l, LoopTo(l), l \in {"dispatching", "sending"} => loop = "dispatching"
      PROVE  BatchPending'
  BY <1>1 DEF LoopTo, BatchPending
<1>2. ASSUME NEW r, Return(r) PROVE BatchPending'
  BY <1>2 DEF Return, BatchPending
<1>3. CASE Spawn
  BY <1>3 DEF Spawn, BatchPending
<1>4. CASE CapDrop \/ TrySend
  <2>1. loop \in {"dispatching", "sending"} /\ Advance /\ received' = received
    BY <1>4 DEF CapDrop, TrySend
  <2>2. Next1 \in 0 .. received
    BY <2>1, NextMessage
  <2> QED
    BY <2>1, <2>2 DEF Advance, BatchPending, Next1, TypeOK
<1>5. ASSUME NEW n \in 1 .. MaxBatch, PollMessages(n) PROVE BatchPending'
  BY <1>5, ConstantsAssumption DEF TypeOK, PollMessages, BatchPending
<1>6. CASE RequestShutdown \/ EvictClosedSenders \/ UNCHANGED vars
  BY <1>6 DEF RequestShutdown, EvictClosedSenders, vars, BatchPending
<1>7. ASSUME NEW w \in Msg, WorkerStep(w) PROVE BatchPending'
  BY <1>7
     DEF BatchPending, WorkerStep, WorkerTakes, WorkerDrained, WorkerYields, HandleOk,
         HandleTransient, HandleReturns, HandleFatal, HandlePanics, SleepElapses,
         Interrupt, NoticeEnds, Exit, pumpVars
<1>8. CASE CheckStop \/ PollEmpty \/ BackoffElapses \/ BeginDrain \/ DrainElapses \/ Reuse
  BY <1>1, <1>2, <1>8
     DEF CheckStop, PollEmpty, BackoffElapses, BeginDrain, DrainElapses, Reuse
<1>9. CASE PollRejected \/ PollFails
  BY <1>1, <1>2, <1>9 DEF PollRejected, PollFails
<1> QED
  BY <1>3, <1>4, <1>5, <1>6, <1>7, <1>8, <1>9 DEF Next, PumpStep

LEMMA CapStep == ASSUME RunInv, [Next]_vars PROVE CrewOwns' /\ HeldBound'
<1>1. CASE Spawn
  BY <1>1, SpawnWithinCap
<1>2. ASSUME UNCHANGED worker,
             \/ senders' \in {senders, RetainOpen} /\ UNCHANGED crew
             \/ senders' = EmptyMap /\ crew' = {}
      PROVE  CrewOwns' /\ HeldBound'
  <2>1. \A w \in Msg : Alive(w)' => Alive(w)
    BY <1>2 DEF Alive
  <2> QED
    BY <1>2, <2>1, NoSpawnKeeps
<1>3. ASSUME NEW l, LoopTo(l) PROVE CrewOwns' /\ HeldBound'
  BY <1>2, <1>3 DEF LoopTo
<1>4. ASSUME NEW r, Return(r) PROVE CrewOwns' /\ HeldBound'
  BY <1>2, <1>4 DEF Return
<1>5. CASE CapDrop \/ TrySend \/ RequestShutdown \/ EvictClosedSenders \/ UNCHANGED vars
  BY <1>2, <1>5 DEF CapDrop, TrySend, RequestShutdown, EvictClosedSenders, vars
<1>6. ASSUME NEW n \in 1 .. MaxBatch, PollMessages(n) PROVE CrewOwns' /\ HeldBound'
  BY <1>2, <1>6 DEF PollMessages
<1>7. ASSUME NEW w \in Msg, WorkerStep(w) PROVE CrewOwns' /\ HeldBound'
  <2>1. UNCHANGED <<senders, crew>>
    BY <1>7
       DEF WorkerStep, WorkerTakes, WorkerDrained, WorkerYields, HandleOk, HandleTransient,
           HandleReturns, HandleFatal, HandlePanics, SleepElapses, Interrupt, NoticeEnds,
           Exit, pumpVars
  <2>2. \E s \in {"idle", "handling", "notifying", "sleeping", "exited"} :
          worker' = [worker EXCEPT ![w] = s]
    BY <1>7
       DEF WorkerStep, WorkerTakes, WorkerDrained, WorkerYields, HandleOk, HandleTransient,
           HandleReturns, HandleFatal, HandlePanics, SleepElapses, Interrupt, NoticeEnds, Exit
  <2>3. Alive(w)
    BY <1>7
       DEF WorkerStep, WorkerTakes, WorkerDrained, WorkerYields, HandleOk, HandleTransient,
           HandleReturns, HandleFatal, HandlePanics, SleepElapses, Interrupt, NoticeEnds, Alive
  <2>4. \A u \in Msg : Alive(u)' => Alive(u)
    BY <2>2, <2>3 DEF RunInv, TypeOK, Alive
  <2> QED
    BY <2>1, <2>4, NoSpawnKeeps
<1>8. CASE CheckStop \/ PollEmpty \/ BackoffElapses \/ BeginDrain \/ DrainElapses \/ Reuse
  BY <1>3, <1>4, <1>8
     DEF CheckStop, PollEmpty, BackoffElapses, BeginDrain, DrainElapses, Reuse
<1>9. CASE PollRejected \/ PollFails
  BY <1>3, <1>4, <1>9 DEF PollRejected, PollFails
<1> QED
  BY <1>1, <1>5, <1>6, <1>7, <1>8, <1>9 DEF Next, PumpStep

(* The process's end empties the map and ends whoever lives.               *)
LEMMA ExitKeeps == ASSUME RunInv, ExitProcess, shutdown' \in BOOLEAN PROVE RunInv'
<1>1. TypeOK'
  <2>1. /\ loop' \in LoopStates /\ UNCHANGED <<result, received, dispatched, stop>>
        /\ senders' \in [Key -> Msg \cup {NoWorker}] /\ crew' \subseteq Msg
        /\ queue' \in [Msg -> Seq(Msg)] /\ current' \in [Msg -> Msg \cup {NoMsg}]
    BY DEF ExitProcess, LoopStates, EmptyMap
  <2>2. worker' \in [Msg -> WorkerStates]
    BY DEF ExitProcess, RunInv, TypeOK, WorkerStates
  <2>3. fate' \in [Msg -> Fates]
    BY DEF ExitProcess, RunInv, TypeOK, Fates, Dropped, Cut
  <2> QED
    BY <2>1, <2>2, <2>3 DEF RunInv, TypeOK
<1>2. BatchPending'
  BY DEF ExitProcess, BatchPending
<1>3. CrewOwns' /\ HeldBound'
  <2>1. senders' = EmptyMap /\ crew' = {} /\ \A w \in Msg : Alive(w)' => Alive(w)
    BY DEF ExitProcess, Alive
  <2> QED
    BY <2>1, NoSpawnKeeps
<1> QED
  BY <1>1, <1>2, <1>3 DEF RunInv

LEMMA PumpRunStep == RunInv /\ [Next]_vars => RunInv'
BY TypeStep, BatchStep, CapStep DEF RunInv

LEMMA RunStep == RunInv /\ [RunNext]_allVars => RunInv'
<1> SUFFICES ASSUME RunInv, [RunNext]_allVars PROVE RunInv'
  OBVIOUS
<1>1. CASE [Next]_vars
  BY <1>1, PumpRunStep
<1>2. ASSUME ExitProcess, UNCHANGED shutdown PROVE RunInv'
  <2>1. shutdown' \in BOOLEAN
    BY <1>2 DEF RunInv, TypeOK
  <2> QED
    BY <1>2, <2>1, ExitKeeps
<1>3. CASE BuildTransport
  <2>1. TypeOK' /\ BatchPending'
    BY <1>3 DEF BuildTransport, RunInv, TypeOK, BatchPending, LoopStates, BridgeStop
  <2>2. UNCHANGED <<senders, crew, worker>>
    BY <1>3 DEF BuildTransport
  <2>3. CrewOwns' /\ HeldBound'
    BY <2>2, NoSpawnKeeps DEF Alive
  <2> QED
    BY <2>1, <2>3 DEF RunInv
<1>4. CASE BuildFails \/ GraceEnds \/ StopForGood
  BY <1>2, <1>4 DEF BuildFails, GraceEnds, StopForGood
<1>5. CASE Reconnect \/ BuildHangs
  BY <1>1, <1>5 DEF Reconnect, BuildHangs
<1>6. CASE Signal
  BY <1>1, <1>6 DEF Signal, Next
<1>7. CASE TermWhileBuilding
  BY <1>1, <1>2, <1>7 DEF TermWhileBuilding
<1>8. CASE PumpRuns \/ \E w \in Msg : WorkerStep(w)
  BY <1>1, <1>8 DEF PumpRuns, Next
<1>9. CASE UNCHANGED allVars
  BY <1>1, <1>9 DEF allVars
<1> QED
  BY <1>3, <1>4, <1>5, <1>6, <1>7, <1>8, <1>9 DEF RunNext, ProcessStep

(* A live worker of the run is the one its key's entry leads to, so there  *)
(* are no more of them than entries.                                       *)
LEMMA CapHolds == RunInv => LiveWorkersWithinCap
<1> SUFFICES ASSUME RunInv PROVE LiveWorkersWithinCap
  OBVIOUS
<1> DEFINE live == { w \in crew : Alive(w) }
           named == { senders[k] : k \in Held }
           f == [k \in Held |-> senders[k]]
<1>1. IsFiniteSet(Held) /\ Cardinality(Held) \in Nat
  BY HeldFinite
<1>2. f \in Surjection(Held, named)
  BY DEF Surjection
<1>3. IsFiniteSet(named) /\ Cardinality(named) <= Cardinality(Held)
  <2> HIDE DEF f, named
  <2> QED
    BY <1>1, <1>2, FS_Surjection
<1>4. live \in SUBSET named
  <2> SUFFICES ASSUME NEW w \in crew, Alive(w) PROVE w \in named
    OBVIOUS
  <2>1. w \in Msg /\ KeyOf(w) \in Key /\ senders[KeyOf(w)] = w
    BY KeyType DEF RunInv, TypeOK, CrewOwns
  <2>2. w # NoWorker
    BY <2>1, ConstantsAssumption DEF Msg, NoWorker
  <2>3. KeyOf(w) \in Held
    BY <2>1, <2>2 DEF Held
  <2> QED
    BY <2>1, <2>3
<1>5. IsFiniteSet(live) /\ Cardinality(live) <= Cardinality(named)
  <2> HIDE DEF live, named
  <2> QED
    BY <1>3, <1>4, FS_Subset
<1>6. Cardinality(live) \in Nat /\ Cardinality(named) \in Nat
  BY <1>3, <1>5, FS_CardinalityType
<1> HIDE DEF live, named
<1>7. Cardinality(live) <= MaxSessions
  BY <1>1, <1>3, <1>5, <1>6, ConstantsAssumption DEF RunInv, HeldBound
<1> QED
  BY <1>7 DEF LiveWorkersWithinCap, live

(* MAX_SESSION_WORKERS bounds the live tasks of a run of the pump, for any *)
(* cap: SessionDispatcher::dispatch makes room among the closed entries    *)
(* before it inserts, and no entry of a live worker is ever replaced.      *)
THEOREM CapKept == Spec => []LiveWorkersWithinCap
<1>1. Init => RunInv
  BY InitIInv, InitCap DEF IInv, Init, RunInv
<1> QED
  BY <1>1, PumpRunStep, CapHolds, PTL DEF Spec

(* The same over reconnects: each run of the bridge starts its count anew, *)
(* with an empty map, whatever workers the former run left behind.         *)
THEOREM CapKeptOverRuns == RunSpec => []LiveWorkersWithinCap
BY InitRun, RunStep, CapHolds, PTL DEF RunSpec
=============================================================================
