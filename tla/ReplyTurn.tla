----------------------------- MODULE ReplyTurn -----------------------------
(***************************************************************************)
(* One turn of a session worker, opened up: handle_one_message in          *)
(* dispatcher/handle.rs with the agent run (agentproc_runner.rs), the      *)
(* partial forwarder task and the final sends (send.rs).                   *)
(*                                                                         *)
(* Partial chunks are numbered in the order the agent emits them; the      *)
(* final body is the characters 1 .. n, and a part of it an interval.      *)
(* Wall-clock retry budgets are counted in tries.                          *)
(***************************************************************************)
EXTENDS Naturals, Sequences, FiniteSets, Functions

CONSTANTS
  MaxPartials,     \* bound: chunks the agent emits in a turn
  MaxBody,         \* bound: characters of the final body
  ChunkChars,      \* effective_chunk_chars(profile cap, channel cap), 0 = no split
  MaxTries,        \* retry budget of one send, counted in tries
  SendErrorReply   \* profile.send_error_reply

ASSUME TurnAssumption ==
  /\ {MaxPartials, MaxBody, ChunkChars, MaxTries} \subseteq Nat
  /\ SendErrorReply \in BOOLEAN

Chunks == 1 .. MaxPartials
NoChunk == 0
Kinds == {"text", "session", "a2a", "error"}
Pieces == [kind : Kinds, lo : 1 .. MaxBody + 1, hi : 0 .. MaxBody,
           sid : BOOLEAN, call : BOOLEAN, halve : BOOLEAN]
Outcomes == {"none", "reply", "stale", "auth", "other"}
Terminal == {"done", "failed", "fatal", "interrupted"}
Stages == {"running", "joining", "sending"} \cup Terminal

VARIABLES
  turn,        \* [streaming, a2a]: the profile's mode and the message's kind
  stage,       \* where handle_one_message stands
  shutdown,    \* the CancellationToken has been cancelled
  attempt,     \* agent runs so far, at most two
  resuming,    \* the present run was given a session to resume
  outcome,     \* how the last agent run ended
  result,      \* [chars, sid]: its final body and whether it named a session
  emitted,     \* chunks emitted by all runs
  counted,     \* partial_count of the present run
  slot,        \* the watch channel: its value ...
  unseen,      \* ... and whether the receiver has seen it
  forwarder,   \* state of the run_partial_forward_loop task
  pending,     \* its buffered chunk
  throttles,   \* throttled sends since its budget clock started
  shown,       \* chunks the user was shown, in order
  hitch,       \* some partial send did not simply succeed
  parts,       \* final pieces still to send
  tries,       \* failed tries of the first of them
  sent,        \* final pieces the transport took, in order
  givenUp      \* final pieces abandoned or rejected

agentVars == <<attempt, resuming, outcome, result, emitted, counted>>
forwardVars == <<forwarder, pending, throttles, shown, hitch>>
finalVars == <<parts, tries, sent, givenUp>>
vars == <<turn, stage, shutdown, agentVars, slot, unseen, forwardVars, finalVars>>

Init ==
  /\ turn \in [streaming : BOOLEAN, a2a : BOOLEAN]
  /\ stage = "running"
  /\ shutdown = FALSE
  /\ attempt = 1
  /\ resuming \in BOOLEAN
  /\ outcome = "none"
  /\ result = [chars |-> 0, sid |-> FALSE]
  /\ emitted = 0 /\ counted = 0
  /\ slot = NoChunk /\ unseen = FALSE
  /\ forwarder = IF turn.a2a THEN "off" ELSE "waiting"
  /\ pending = NoChunk
  /\ throttles = 0
  /\ shown = <<>>
  /\ hitch = FALSE
  /\ parts = <<>> /\ tries = 0
  /\ sent = <<>> /\ givenUp = {}

(* partial_tx lives exactly as long as the agent run.                      *)
TxOpen == stage = "running"

-----------------------------------------------------------------------------
(* The agent run: run_via_agentproc                                        *)

(* on_partial: count the chunk and overwrite the single slot.              *)
EmitPartial ==
  /\ stage = "running" /\ ~ shutdown
  /\ turn.streaming /\ emitted < MaxPartials
  /\ emitted' = emitted + 1
  /\ counted' = counted + 1
  /\ slot' = emitted + 1
  /\ unseen' = TRUE
  /\ UNCHANGED <<turn, stage, shutdown, attempt, resuming, outcome, result,
                 forwardVars, finalVars>>

(* Broken form: the turn is run again although the user saw part of it.    *)
ColdRetryAnyway ==
  /\ stage = "running" /\ ~ shutdown
  /\ attempt = 1 /\ resuming
  /\ attempt' = 2
  /\ resuming' = FALSE
  /\ counted' = 0
  /\ UNCHANGED <<turn, stage, shutdown, outcome, result, emitted, slot, unseen,
                 forwardVars, finalVars>>

(* The session to resume is gone and nothing was emitted: run once more,   *)
(* cold.                                                                   *)
ColdRetry ==
  /\ stage = "running" /\ ~ shutdown
  /\ attempt = 1 /\ counted = 0 /\ resuming
  /\ attempt' = 2
  /\ resuming' = FALSE
  /\ counted' = 0
  /\ UNCHANGED <<turn, stage, shutdown, outcome, result, emitted, slot, unseen,
                 forwardVars, finalVars>>

AgentEnds(how, r) ==
  /\ stage = "running" /\ ~ shutdown
  /\ how = "stale" => ~ (attempt = 1 /\ counted = 0 /\ resuming)
  /\ stage' = "joining"
  /\ outcome' = how
  /\ result' = r
  /\ UNCHANGED <<turn, shutdown, attempt, resuming, emitted, counted, slot, unseen,
                 forwardVars, finalVars>>

AgentReplies ==
  \E n \in 0 .. MaxBody, s \in BOOLEAN :
    AgentEnds("reply", [chars |-> n, sid |-> s])

(* An error event, or a run that could not even start.                     *)
AgentFails ==
  \E how \in {"stale", "auth", "other"} :
    AgentEnds(how, [chars |-> 0, sid |-> FALSE])

-----------------------------------------------------------------------------
(* The forwarder task: run_partial_forward_loop.  Every wait of it is a    *)
(* select biased to shutdown.                                              *)

ForwarderTo(f, chunk, n) ==
  /\ forwarder' = f
  /\ pending' = chunk
  /\ throttles' = n
  /\ UNCHANGED <<turn, stage, shutdown, agentVars, slot, finalVars>>

(* changed() reports an unseen value even after the sender is gone.        *)
PickChunk ==
  /\ forwarder = "waiting" /\ ~ shutdown
  /\ unseen
  /\ unseen' = FALSE
  /\ ForwarderTo("sending", slot, throttles)
  /\ UNCHANGED <<shown, hitch>>

StreamEnds ==
  /\ forwarder = "waiting" /\ ~ shutdown
  /\ ~ unseen /\ ~ TxOpen
  /\ ForwarderTo("gone", pending, throttles)
  /\ UNCHANGED <<shown, hitch, unseen>>

PartialSent ==
  /\ forwarder = "sending" /\ ~ shutdown
  /\ shown' = Append(shown, pending)
  /\ ForwarderTo("waiting", NoChunk, 0)
  /\ UNCHANGED <<hitch, unseen>>

(* Broken form: no retry budget.                                           *)
PartialThrottledForever ==
  /\ forwarder = "sending" /\ ~ shutdown
  /\ hitch' = TRUE
  /\ ForwarderTo("backoff", pending, throttles)
  /\ UNCHANGED <<shown, unseen>>

PartialThrottled ==
  /\ forwarder = "sending" /\ ~ shutdown
  /\ hitch' = TRUE
  /\ IF throttles < MaxTries
     THEN ForwarderTo("backoff", pending, throttles + 1)
     ELSE ForwarderTo("waiting", NoChunk, 0)
  /\ UNCHANGED <<shown, unseen>>

(* Rejected, or a transport error whose request may have landed.           *)
PartialFails ==
  /\ forwarder = "sending" /\ ~ shutdown
  /\ hitch' = TRUE
  /\ shown' \in {shown, Append(shown, pending)}
  /\ ForwarderTo("waiting", NoChunk, 0)
  /\ UNCHANGED unseen

BackoffEnds ==
  /\ forwarder = "backoff" /\ ~ shutdown
  /\ ForwarderTo("sending", pending, throttles)
  /\ UNCHANGED <<shown, hitch, unseen>>

(* Broken form: borrow() where borrow_and_update() is needed.              *)
OverwriteUnmarked ==
  /\ forwarder = "backoff" /\ ~ shutdown
  /\ unseen
  /\ ForwarderTo("backoff", slot, throttles)
  /\ UNCHANGED <<shown, hitch, unseen>>

(* A newer chunk takes the place of the one waiting to be retried.         *)
Overwrite ==
  /\ forwarder = "backoff" /\ ~ shutdown
  /\ unseen
  /\ unseen' = FALSE
  /\ ForwarderTo("backoff", slot, throttles)
  /\ UNCHANGED <<shown, hitch>>

(* The agent ended during the backoff: the loop returns, chunk and all.    *)
StreamEndsInBackoff ==
  /\ forwarder = "backoff" /\ ~ shutdown
  /\ ~ unseen /\ ~ TxOpen
  /\ ForwarderTo("gone", NoChunk, throttles)
  /\ UNCHANGED <<shown, hitch, unseen>>

(* A request dropped in flight may have landed all the same.               *)
ForwarderStops ==
  /\ forwarder \notin {"off", "gone"} /\ shutdown
  /\ \/ UNCHANGED shown
     \/ forwarder = "sending" /\ shown' = Append(shown, pending)
  /\ ForwarderTo("gone", NoChunk, throttles)
  /\ UNCHANGED <<hitch, unseen>>

ForwarderStep ==
  \/ PickChunk
  \/ StreamEnds
  \/ PartialSent
  \/ PartialThrottled
  \/ PartialFails
  \/ BackoffEnds
  \/ Overwrite
  \/ StreamEndsInBackoff
  \/ ForwarderStops

-----------------------------------------------------------------------------
(* What is left to send once the agent and the forwarder are through.      *)

Piece(k, lo, hi, s) ==
  [kind |-> k, lo |-> lo, hi |-> hi, sid |-> s, call |-> FALSE, halve |-> FALSE]

(* split_into_parts: consecutive parts of at most c characters, at least   *)
(* one part, all of the text when c is 0.                                  *)
Smaller(a, b) == IF a < b THEN a ELSE b
(* Broken form: only whole parts are counted.                              *)
WholeParts(n, c) == IF c = 0 \/ n = 0 \/ n < c THEN 1 ELSE n \div c
PartCount(n, c) == IF c = 0 \/ n = 0 THEN 1 ELSE (n + c - 1) \div c
PartBounds(n, c, i) ==
  IF c = 0 THEN <<1, n>> ELSE <<(i - 1) * c + 1, Smaller(i * c, n)>>

(* send_final_parts: the session rides on the last part.                   *)
TextParts(n, s) ==
  [i \in 1 .. PartCount(n, ChunkChars) |->
     LET b == PartBounds(n, ChunkChars, i)
     IN  [Piece("text", b[1], b[2], s /\ i = PartCount(n, ChunkChars))
            EXCEPT !.halve = TRUE]]

(* Broken form: every half carries the session.                            *)
HalvesAllNamed(p) ==
  LET n == p.hi - p.lo + 1
      c == n \div 2
  IN  [j \in 1 .. PartCount(n, c) |->
         LET b == PartBounds(n, c, j)
         IN  [p EXCEPT !.lo = p.lo - 1 + b[1], !.hi = p.lo - 1 + b[2], !.halve = FALSE]]

(* A rejected part is cut in halves (three pieces if its length is odd).   *)
Halves(p) ==
  LET n == p.hi - p.lo + 1
      c == n \div 2
  IN  [j \in 1 .. PartCount(n, c) |->
         LET b == PartBounds(n, c, j)
         IN  [p EXCEPT !.lo = p.lo - 1 + b[1], !.hi = p.lo - 1 + b[2],
                       !.sid = p.sid /\ j = PartCount(n, c), !.halve = FALSE]]

(* Broken form: off by one, a single chunk does not count.                 *)
MostlyDelivered == ~ turn.a2a /\ turn.streaming /\ counted > 1

(* The A1 dedup: a streamed answer is not sent again as a final body.      *)
AlreadyDelivered == ~ turn.a2a /\ turn.streaming /\ counted > 0

FinalPieces ==
  LET body == IF AlreadyDelivered THEN 0 ELSE result.chars IN
  CASE outcome = "reply" /\ body = 0 ->
         IF result.sid
         THEN <<[Piece("session", 1, 0, TRUE) EXCEPT !.call = turn.a2a]>>
         ELSE <<>>
    [] outcome = "reply" /\ body > 0 /\ turn.a2a ->
         <<[Piece("a2a", 1, body, result.sid) EXCEPT !.call = TRUE]>>
    [] outcome = "reply" /\ body > 0 /\ ~ turn.a2a -> TextParts(body, result.sid)
    [] outcome # "reply" ->
         IF SendErrorReply THEN <<Piece("error", 1, 0, FALSE)>> ELSE <<>>

(* Ok, or the HandleError the worker sees.                                 *)
Verdict == CASE outcome = "reply" -> "done"
             [] outcome = "auth" -> "fatal"
             [] OTHER -> "failed"

SendNext(rest) ==
  /\ parts' = rest
  /\ tries' = 0
  /\ stage' = IF rest = <<>> THEN Verdict ELSE "sending"
  /\ UNCHANGED <<turn, shutdown, agentVars, slot, unseen, forwardVars>>

(* forward_handle.await, then the match on the agent's result.             *)
Join ==
  /\ stage = "joining" /\ ~ shutdown
  /\ forwarder \in {"off", "gone"}
  /\ SendNext(FinalPieces)
  /\ UNCHANGED <<sent, givenUp>>

-----------------------------------------------------------------------------
(* send_final_with_retry on the first of the remaining pieces              *)

FinalSent ==
  /\ stage = "sending" /\ ~ shutdown
  /\ sent' = Append(sent, Head(parts))
  /\ SendNext(Tail(parts))
  /\ UNCHANGED givenUp

(* Rejected: any client error of the platform's, also on the retry of a    *)
(* copy that landed while its answer was lost.  Only a text part of two    *)
(* characters or more is halved, and its halves are not.                   *)
FinalRejected ==
  LET p == Head(parts) IN
  /\ stage = "sending" /\ ~ shutdown
  /\ \/ /\ p.halve /\ p.hi > p.lo
        /\ SendNext(Halves(p) \o Tail(parts))
        /\ UNCHANGED <<sent, givenUp>>
     \/ /\ ~ (p.halve /\ p.hi > p.lo)
        /\ givenUp' = givenUp \cup {p}
        /\ SendNext(Tail(parts))
        /\ UNCHANGED sent

(* Throttled, or a transport error whose request may have landed all the   *)
(* same: retry after a backoff while the budget lasts.                     *)
FinalFails ==
  LET p == Head(parts) IN
  /\ stage = "sending" /\ ~ shutdown
  /\ sent' \in {sent, Append(sent, p)}
  /\ IF tries < MaxTries
     THEN /\ tries' = tries + 1
          /\ UNCHANGED <<turn, stage, shutdown, agentVars, slot, unseen, forwardVars,
                         parts, givenUp>>
     ELSE /\ givenUp' = givenUp \cup {p}
          /\ SendNext(Tail(parts))

(* A shutdown seen inside the send: every remaining piece is Done unsent.  *)
(* The error reply is sent under a token of its own that never fires.      *)
FinalCancelled ==
  /\ stage = "sending" /\ shutdown
  /\ Head(parts).kind # "error"
  /\ sent' \in {sent, Append(sent, Head(parts))}
  /\ SendNext(<<>>)
  /\ UNCHANGED givenUp

-----------------------------------------------------------------------------
(* The worker's select around the handler drops it as soon as it sees the  *)
(* shutdown, at whatever await it stands; a request in flight may land.    *)
Interrupt ==
  /\ stage \notin Terminal /\ shutdown
  /\ stage' = "interrupted"
  /\ \/ UNCHANGED sent
     \/ stage = "sending" /\ sent' = Append(sent, Head(parts))
  /\ UNCHANGED <<turn, shutdown, agentVars, slot, unseen, forwardVars,
                 parts, tries, givenUp>>

RequestShutdown ==
  /\ ~ shutdown
  /\ shutdown' = TRUE
  /\ UNCHANGED <<turn, stage, agentVars, slot, unseen, forwardVars, finalVars>>

HandlerStep ==
  \/ EmitPartial
  \/ ColdRetry
  \/ AgentReplies
  \/ AgentFails
  \/ Join
  \/ FinalSent
  \/ FinalRejected
  \/ FinalFails
  \/ FinalCancelled
  \/ Interrupt

Next == HandlerStep \/ ForwarderStep \/ RequestShutdown

Spec == Init /\ [][Next]_vars

(* The agent run ends within the profile's timeout, sends and sleeps end.  *)
FairSpec == Spec /\ WF_vars(HandlerStep) /\ WF_vars(ForwarderStep)
-----------------------------------------------------------------------------
(* Properties                                                              *)

TypeOK ==
  /\ turn \in [streaming : BOOLEAN, a2a : BOOLEAN]
  /\ stage \in Stages
  /\ shutdown \in BOOLEAN
  /\ attempt \in {1, 2}
  /\ resuming \in BOOLEAN
  /\ outcome \in Outcomes
  /\ result \in [chars : 0 .. MaxBody, sid : BOOLEAN]
  /\ emitted \in 0 .. MaxPartials /\ counted \in 0 .. emitted
  /\ slot \in Chunks \cup {NoChunk}
  /\ unseen \in BOOLEAN
  /\ forwarder \in {"off", "waiting", "sending", "backoff", "gone"}
  /\ pending \in Chunks \cup {NoChunk}
  /\ throttles \in 0 .. MaxTries
  /\ shown \in Seq(Chunks)
  /\ hitch \in BOOLEAN
  /\ parts \in Seq(Pieces) /\ sent \in Seq(Pieces)
  /\ tries \in 0 .. MaxTries
  /\ givenUp \subseteq Pieces

(* What the pieces of a sequence or set cover of the body.                 *)
Covered(P) == UNION { p.lo .. p.hi : p \in P }

(* Splitting, halving, retrying and giving up never lose a character that  *)
(* was not itself rejected or abandoned: send_final_parts, "a single bad   *)
(* part can never drop the rest of the reply".                             *)
AnswerComplete ==
  stage = "done" /\ ~ shutdown /\ ~ AlreadyDelivered =>
    1 .. result.chars \subseteq Covered(Range(sent) \cup givenUp)

(* The session id is sent only with the end of the answer.  After a piece  *)
(* that carried it nothing follows but the same text once more: its own    *)
(* retry, or its halves when a copy landed, its answer was lost and the    *)
(* retry was rejected.                                                     *)
Within(q, p) == p.lo <= q.lo /\ q.hi <= p.hi
SessionRidesLast ==
  \A i, j \in DOMAIN sent : i < j /\ sent[i].sid => Within(sent[j], sent[i])

(* What the user sees of the stream is in order and has no repetition,     *)
(* whatever was throttled, overwritten or retried.                         *)
PartialsInOrder ==
  \A i, j \in DOMAIN shown : i < j => shown[i] < shown[j]

(* agentproc_runner.rs, "A partial chunk already reached the user => never *)
(* re-run": no chunk shown to the user stems from a run that was abandoned. *)
ColdRetryInvisible ==
  attempt = 2 => \A i \in DOMAIN shown : shown[i] > emitted - counted

(* A streamed answer and its final body never both reach the user.         *)
AnsweredOnce ==
  (\E p \in Range(sent) : p.kind = "text") => shown = <<>>

(* The turn and its forwarder end: throttling and rejections cannot hold   *)
(* the session's worker for ever.                                          *)
TurnEnds == <>(stage \in Terminal /\ forwarder \in {"off", "gone"})

(* handle.rs:173-175, "in streaming mode with partials already forwarded   *)
(* live to the user, the agent's final `text` body duplicates the streamed *)
(* content": when the body is left out and no send met a difficulty, the   *)
(* user was shown the whole stream.                                        *)
SuppressedBodyWasShown ==
  stage = "done" /\ AlreadyDelivered /\ ~ hitch /\ ~ shutdown =>
    \A c \in 1 .. emitted : c \in Range(shown)

=============================================================================
