------------------------------ MODULE RunLoop ------------------------------
(***************************************************************************)
(* The process around the pump, run_bridge_reconnecting in                 *)
(* src/src/bridge/run_loop.rs: build a transport, run the bridge on it,    *)
(* and start over on a fresh transport when the token is revoked.  The     *)
(* session workers are detached tasks: a reconnect does not stop them, and *)
(* the next run's dispatcher knows nothing of them.                        *)
(***************************************************************************)
EXTENDS SessionDispatcher

CONSTANTS
  ExplicitToken,  \* --token / WEIXIN_TOKEN was given
  MaxRuns         \* bound: how often the transport is built

ASSUME RunAssumption ==
  /\ ExplicitToken \in BOOLEAN
  /\ MaxRuns \in Nat \ {0}

VARIABLES
  process,   \* where run_bridge_reconnecting stands
  credFile,  \* the file at cred_path exists
  runs,      \* transports built so far
  term       \* a SIGTERM has come, acted on or not

runVars == <<process, credFile, runs, term>>
allVars == <<vars, runVars>>

RunInit ==
  /\ loop = "returned" /\ Pristine
  /\ process = "building"
  /\ credFile \in BOOLEAN
  /\ runs = 0
  /\ term = FALSE

-----------------------------------------------------------------------------
(* The process ends: the runtime drops the loop and every detached worker. *)
ExitProcess ==
  /\ process' = "exited"
  /\ loop' = "returned"
  /\ senders' = EmptyMap
  /\ crew' = {}
  /\ worker' = [w \in Msg |-> IF Alive(w) THEN "exited" ELSE worker[w]]
  /\ queue' = [w \in Msg |-> <<>>]
  /\ current' = [w \in Msg |-> NoMsg]
  /\ fate' = [m \in Msg |-> CASE fate[m] = "waiting" -> "discarded"
                              [] fate[m] = "handling" -> "interrupted"
                              [] OTHER -> fate[m]]
  /\ UNCHANGED <<result, received, dispatched, stop, runs>>

(* build_transport succeeds: a new dispatcher and a new stop channel.      *)
(* Without an explicit token a credential is on disk afterwards.           *)
BuildTransport ==
  /\ process = "building" /\ runs < MaxRuns
  /\ process' = "running"
  /\ credFile' = (credFile \/ ~ ExplicitToken)
  /\ runs' = runs + 1
  /\ loop' = "top"
  /\ result' = "None"
  /\ stop' = FALSE
  /\ UNCHANGED <<shutdown, received, dispatched, senders, crew, worker, queue,
                 current, fate, term>>

BuildFails ==
  /\ process = "building"
  /\ ExitProcess
  /\ UNCHANGED <<shutdown, credFile, term>>

(* The registration with the Hub is never answered: the one request of a   *)
(* start that has no time limit.                                           *)
BuildHangs ==
  /\ process = "building"
  /\ process' = "hung"
  /\ UNCHANGED <<vars, credFile, runs, term>>

(* Ctrl-C or SIGTERM: cancel the token and give the bridge three seconds.  *)
Signal ==
  /\ process = "running"
  /\ RequestShutdown
  /\ process' = "grace"
  /\ term' \in {term, TRUE}
  /\ UNCHANGED <<credFile, runs>>

(* The SIGTERM future is pinned outside the loop: before its first poll    *)
(* the signal kills the process, later it is kept for the next select.     *)
(* (A Ctrl-C at this point kills the process, or later goes unnoticed:     *)
(* each select makes a new ctrl_c future, which sees only later signals.)  *)
TermWhileBuilding ==
  /\ process \in {"building", "hung"} /\ ~ term
  /\ term' = TRUE
  /\ IF runs = 0
     THEN ExitProcess /\ UNCHANGED <<shutdown, credFile>>
     ELSE UNCHANGED <<vars, process, credFile, runs>>

(* Broken form: only the abort is waited for, not the end of the task.     *)
GraceOnlyAborts ==
  /\ process = "grace" /\ loop # "returned"
  /\ ExitProcess
  /\ UNCHANGED <<shutdown, credFile, term>>

(* The task ended in time, or is aborted.                                  *)
GraceEnds ==
  /\ process = "grace"
  /\ ExitProcess
  /\ UNCHANGED <<shutdown, credFile, term>>

(* A revoked token of the saved kind: forget it (the removal may fail) and *)
(* reconnect.                                                              *)
Reconnect ==
  /\ process = "running" /\ loop = "returned"
  /\ result = "TokenRejected" /\ ~ ExplicitToken
  /\ process' = "building"
  /\ credFile' \in {FALSE, credFile}
  /\ UNCHANGED <<vars, runs, term>>

(* Every other BridgeStop ends the process.                                *)
StopForGood ==
  /\ process = "running" /\ loop = "returned"
  /\ result # "TokenRejected" \/ ExplicitToken
  /\ ExitProcess
  /\ UNCHANGED <<shutdown, credFile, term>>

ProcessStep ==
  \/ BuildTransport
  \/ BuildFails
  \/ GraceEnds
  \/ Reconnect
  \/ StopForGood

(* The pump runs while its task does; the workers as long as the process.  *)
PumpRuns ==
  \/ PumpStep
  \/ \E n \in 1 .. MaxBatch : PollMessages(n)
  \/ PollRejected
  \/ PollFails
  \/ EvictClosedSenders

RunNext ==
  \/ ProcessStep
  \/ BuildHangs
  \/ Signal
  \/ TermWhileBuilding
  \/ PumpRuns /\ UNCHANGED runVars
  \/ \E w \in Msg : WorkerStep(w) /\ UNCHANGED runVars

RunFairness ==
  /\ WF_allVars(ProcessStep)
  /\ WF_allVars(term /\ Signal)
  /\ WF_allVars(PumpStep /\ UNCHANGED runVars)
  /\ \A w \in Msg : WF_allVars(WorkerStep(w) /\ UNCHANGED runVars)

RunSpec == RunInit /\ [][RunNext]_allVars

FairRunSpec == RunSpec /\ RunFairness

-----------------------------------------------------------------------------
(* Properties                                                              *)

(* The workers of a run that is over end, after what stands in their       *)
(* queues: nobody holds a Sender of theirs any more, so that recv() returns *)
(* None, whatever the runs that follow do to the same conversations.       *)
OldWorkersEnd ==
  \A w \in Msg : Alive(w) /\ w \notin crew ~> ~ Alive(w)

(* A signal that reached the shutdown token ends the process, and so does  *)
(* a SIGTERM that came between two runs of the bridge: unless the next run *)
(* is never built, for the signal is not looked at until it is.            *)
SignalEndsTheProcess == shutdown \/ term ~> process \in {"exited", "hung"}
=============================================================================
