---------------------------- MODULE BuiltinAgent -----------------------------
(***************************************************************************)
(* One turn of a built-in profile (bridge/builtin/): the process that      *)
(* reads a turn, runs a CLI, resuming its session if there is one and      *)
(* falling back to a fresh one, and translates what the CLI writes into    *)
(* events on its stdout.  With claude-code's permission mode the CLI asks  *)
(* before it uses a tool; the bridge answers on this process's stdin,      *)
(* which a thread of each attempt reads.  The CLI and the bridge are       *)
(* external: what the CLI writes is chosen as it is read.                  *)
(*                                                                         *)
(* The n-th text of an attempt is n; the n-th request of the turn is n.    *)
(***************************************************************************)
EXTENDS Naturals, Sequences

CONSTANTS
  MaxTexts,   \* bound: assistant texts of one attempt
  MaxReports, \* bound: results (threads, of codex) of one attempt
  MaxAsks,    \* bound: permission requests of the turn
  None, Old, Fresh   \* no session, the session to resume, a new one

ASSUME AgentAssumption ==
  /\ {MaxTexts, MaxReports, MaxAsks} \subseteq Nat
  /\ None # Old /\ None # Fresh /\ Old # Fresh

Kinds == {"claude-code", "codebuddy-code", "codex", "cursor", "agy", "recursive"}
Ids == {None, Old, Fresh}

VARIABLES
  kind,       \* the profile type
  permission, \* turn.permission, of claude-code only
  inbound,    \* turn.session_id
  pc,         \* "spawn", "read", "ask", "eof", "retry" or "done"
  attempt,    \* 0 before the first call of the CLI
  given,      \* the session that this attempt resumes
  heard,      \* texts read in this attempt
  reports,    \* results, or threads, read in this attempt
  buffered,   \* buffered_partials of the attempt's emitter
  discovered, \* the id the emitter found
  found,      \* found_session_id
  final,      \* whether the CLI gave a final text
  failed,     \* error_emitted
  out,        \* the events on stdout
  (* permission mode *)
  asked,      \* requests made in the turn
  pending,    \* the request that is being waited for
  replied,    \* <<request, id in the answer>> as written to the CLI
  stdin,      \* answers of the bridge that no thread has read
  answered,   \* requests that the bridge has answered
  gone,       \* whether the bridge has closed our stdin
  channel,    \* answers in the channel of this attempt
  holder,     \* the attempt whose thread holds the lock of stdin, or 0
  threads,    \* attempts whose thread is alive
  late        \* whether a request was given up waiting for

cliVars == <<given, heard, reports, found, final, failed>>
emitVars == <<buffered, discovered, out>>
askVars == <<asked, pending, replied, channel, late>>
stdinVars == <<stdin, answered, gone, holder, threads>>
turnVars == <<kind, permission, inbound>>
vars == <<turnVars, pc, attempt, cliVars, emitVars, askVars, stdinVars>>

(* heard is not part of the event: how much the CLI had said by then.      *)
Event(type, text, id) ==
  [attempt |-> attempt, type |-> type, text |-> text, id |-> id, heard |-> heard]

(* read_turn_or_error: a missing or empty turn is reported, and run goes   *)
(* on with an empty message.                                               *)
Init ==
  /\ kind \in Kinds
  /\ permission \in {FALSE, kind = "claude-code"}
  /\ inbound \in {None, Old}
  /\ pc = "spawn" /\ attempt = 0
  /\ given = None /\ heard = 0 /\ reports = 0 /\ found = None
  /\ final = FALSE /\ failed = FALSE
  /\ buffered = <<>> /\ discovered = None
  /\ out \in {<<>>, <<Event("error", 0, None)>>}
  /\ out # <<>> => inbound = None /\ ~permission
  /\ asked = 0 /\ pending = 0 /\ replied = <<>>
  /\ stdin = <<>> /\ answered = 0 /\ gone = FALSE /\ channel = <<>>
  /\ holder = 0 /\ threads = {}
  /\ late = FALSE

-----------------------------------------------------------------------------
(* SessionEmitter                                                          *)

(* current_id of an emitter with these fields                              *)
CurrentId(in, disc) == IF in # None THEN in ELSE disc

Partials(texts, id) == [i \in DOMAIN texts |-> Event("partial", texts[i], id)]

(* Mutant: a partial goes out at once, with the id there is.               *)
EmitPartialAtOnce(text) ==
  /\ out' = Append(out, Event("partial", text, CurrentId(given, discovered)))
  /\ UNCHANGED <<buffered, discovered>>

(* emit_partial: of a new session it waits until the id is known.          *)
EmitPartial(text) ==
  /\ IF CurrentId(given, discovered) # None
     THEN /\ out' = Append(out, Event("partial", text, CurrentId(given, discovered)))
          /\ UNCHANGED buffered
     ELSE buffered' = Append(buffered, text) /\ UNCHANGED out
  /\ UNCHANGED discovered

(* discover: the inbound id wins, then the first that is found.            *)
Discovered(id) == IF given = None /\ discovered = None THEN id ELSE discovered

(* Mutant: the terminal event overtakes the partials that waited.          *)
EmitTerminalFirst(type, text, id) ==
  LET disc == Discovered(id)
      sid == CurrentId(given, disc)
  IN /\ out' = (IF type = "result" /\ text = 0 /\ sid = None THEN out
                ELSE Append(out, Event(type, text, sid))) \o Partials(buffered, sid)
     /\ discovered' = disc /\ buffered' = <<>>

(* emit_result_opt and emit_error: discover, flush, then the event; a      *)
(* result with neither a body nor an id is left out.                       *)
EmitTerminal(type, text, id) ==
  LET disc == Discovered(id)
      sid == CurrentId(given, disc)
  IN /\ out' = out \o Partials(buffered, sid) \o
               (IF type = "result" /\ text = 0 /\ sid = None THEN <<>>
                ELSE <<Event(type, text, sid)>>)
     /\ discovered' = disc /\ buffered' = <<>>

(* The terminal event of codebuddy-code and agy comes from run, through a  *)
(* new emitter with the session of the turn, also after a fallback.        *)
EmitFromRun(text, id) ==
  LET disc == Discovered(id)
      sid == CurrentId(inbound, IF inbound = None THEN id ELSE None)
  IN /\ out' = out \o Partials(buffered, CurrentId(given, disc)) \o
               (IF text = 0 /\ sid = None THEN <<>>
                ELSE <<Event("result", text, sid)>>)
     /\ discovered' = disc /\ buffered' = <<>>

(* discover and finish_without_session of codebuddy-code                   *)
FlushOnly(id) ==
  LET disc == Discovered(id)
  IN /\ out' = out \o Partials(buffered, CurrentId(given, disc))
     /\ discovered' = disc /\ buffered' = <<>>

-----------------------------------------------------------------------------
(* with_session_resume_fallback: the first attempt resumes, and if it      *)
(* fails a second one starts a fresh session.                              *)

(* The session that the next attempt asks the CLI to resume.               *)
Given == IF attempt = 0 THEN inbound ELSE None

(* What every attempt starts with.                                         *)
FreshAttempt ==
  /\ attempt' = attempt + 1
  /\ given' = Given
  /\ heard' = 0 /\ reports' = 0 /\ found' = None /\ final' = FALSE /\ failed' = FALSE
  /\ buffered' = <<>> /\ discovered' = None
  /\ channel' = <<>> /\ pending' = 0 /\ replied' = <<>>
  /\ UNCHANGED <<turnVars, out, asked, late, stdin, answered, gone, holder>>

(* The CLI starts and is given the message.  In permission mode a thread   *)
(* that reads stdin is started, with a channel of its own.                 *)
Spawn ==
  /\ pc \in {"spawn", "retry"}
  /\ pc' = "read"
  /\ FreshAttempt
  /\ threads' = IF permission THEN threads \cup {attempt + 1} ELSE threads

(* What becomes of an attempt that failed; the CLI is killed if it runs,   *)
(* and what the emitter holds is dropped.                                  *)
AfterFailure == IF attempt = 1 /\ inbound # None THEN "retry" ELSE "done"

(* The CLI cannot be started, or the message cannot be written to it.      *)
SpawnFails ==
  /\ pc \in {"spawn", "retry"}
  /\ pc' = IF Given # None THEN "retry" ELSE "done"
  /\ FreshAttempt
  /\ UNCHANGED threads

(* Only claude-code looks at the attachments of a turn.                    *)
EmptyTurn == out # <<>> /\ Head(out).attempt = 0
HasAttachments == kind = "claude-code" /\ ~ EmptyTurn

(* An attachment cannot be fetched, is empty, too large, or a document of  *)
(* another type than PDF and plain text.                                   *)
DownloadFails ==
  /\ pc \in {"spawn", "retry"} /\ HasAttachments
  /\ pc' = IF Given # None THEN "spawn" ELSE "done"
  /\ FreshAttempt
  /\ UNCHANGED threads

(* An attachment that is neither an image nor a file: an error event and   *)
(* no CLI.  An attempt that came past the attachments is not repeated this *)
(* way, one that could not fetch an earlier attachment may be.             *)
Unsupported ==
  /\ pc = "spawn" /\ HasAttachments
  /\ attempt' = attempt + 1
  /\ given' = Given
  /\ out' = Append(out, [attempt |-> attempt + 1, type |-> "error", text |-> 0,
                         id |-> Given, heard |-> 0])
  /\ pc' = "done" /\ failed' = TRUE
  /\ UNCHANGED <<turnVars, heard, reports, found, final, buffered, discovered, askVars, stdinVars>>

-----------------------------------------------------------------------------
(* What the CLI writes                                                     *)

(* An id that the CLI reports.                                             *)
CliIds == {None, Fresh, given}

(* The n-th text of the attempt; streamed is FALSE for the plain output of *)
(* agy, and body TRUE if the text becomes part of the final one.           *)
Hear(streamed, body) ==
  /\ pc = "read" /\ heard < MaxTexts
  /\ heard' = heard + 1
  /\ IF streamed THEN EmitPartial(heard + 1) ELSE UNCHANGED emitVars
  /\ final' = (final \/ body)
  /\ UNCHANGED <<turnVars, pc, attempt, given, reports, found, failed, askVars, stdinVars>>

(* claude-code, cursor and recursive: an assistant event.                  *)
ReadAssistant == kind \in {"claude-code", "cursor", "recursive"} /\ Hear(TRUE, FALSE)

(* codebuddy-code puts its body together from what is streamed, ...        *)
ReadChunk == kind = "codebuddy-code" /\ Hear(TRUE, TRUE)

(* ... as codex does from its items that are agent messages.               *)
ReadItem == kind = "codex" /\ Hear(TRUE, TRUE)

(* agy: all of stdout is the response.                                     *)
ReadOutput == kind = "agy" /\ Hear(FALSE, TRUE)

(* A line with the session of the conversation; the last one counts.  The  *)
(* loops read on after it, whatever the CLI writes then.                   *)
Report(id) ==
  /\ pc = "read" /\ reports < MaxReports
  /\ reports' = reports + 1
  /\ found' = id
  /\ UNCHANGED <<turnVars, pc, attempt, given, heard, askVars, stdinVars>>

(* codex: thread.started, with or without an id.                           *)
ReadThreadStarted(id) ==
  /\ kind = "codex" /\ Report(id)
  /\ UNCHANGED <<final, failed, emitVars>>

(* The result event: its id, whether it reports an error, and which of its *)
(* fields there are to say something, where a stop_reason "stop_sequence"  *)
(* does not count.                                                         *)
Results ==
  [id : CliIds, isError : BOOLEAN, says : SUBSET {"errors", "stop_reason", "result"}]

(* result_error_message: the errors, else the reason, else the result.     *)
ErrorMessage(result) == IF result.says = {} THEN 0 ELSE 1

(* claude-code and recursive.                                              *)
ReadResult(result) ==
  /\ kind \in {"claude-code", "recursive"} /\ Report(result.id)
  /\ \/ /\ result.isError /\ ErrorMessage(result) = 1
        /\ EmitTerminal("error", 1, result.id)
        /\ failed' = TRUE
        /\ UNCHANGED final
     \/ /\ result.isError /\ ErrorMessage(result) = 0
        /\ UNCHANGED <<emitVars, failed, final>>
     \/ /\ ~ result.isError
        /\ final' = (final \/ "result" \in result.says)
        /\ UNCHANGED <<emitVars, failed>>

(* cursor and codebuddy-code do not look whether it reports an error.      *)
ReadPlainResult(result) ==
  /\ kind \in {"cursor", "codebuddy-code"} /\ Report(result.id)
  /\ final' = (final \/ "result" \in result.says)
  /\ UNCHANGED <<failed, emitVars>>

(* The CLI closes its stdout.                                              *)
ReadEof ==
  /\ pc = "read"
  /\ pc' = "eof"
  /\ UNCHANGED <<turnVars, attempt, cliVars, emitVars, askVars, stdinVars>>

(* A line that is not UTF-8 ends the attempt.  agy's output is taken as it *)
(* is.                                                                     *)
ReadFails ==
  /\ pc = "read" /\ kind # "agy"
  /\ pc' = AfterFailure
  /\ buffered' = <<>>
  /\ UNCHANGED <<turnVars, attempt, cliVars, discovered, out, askVars, stdinVars>>

-----------------------------------------------------------------------------
(* The exit of the CLI.  Its status is awaited, the terminal event         *)
(* written, and only then is the status looked at; the terminal events of  *)
(* codebuddy-code and agy are left to run.                                 *)

(* ensure_success: a failed exit is tolerated if something was recovered.  *)
Succeeds(success, recovered) == success \/ recovered

Exit(ok) ==
  /\ pc = "eof"
  /\ pc' = IF ok THEN "done" ELSE AfterFailure
  /\ UNCHANGED <<turnVars, attempt, cliVars, askVars, stdinVars>>

Body == IF final THEN 1 ELSE 0

EmitResultUnlessFailed(id) ==
  IF failed THEN UNCHANGED emitVars ELSE EmitTerminal("result", Body, id)

(* claude-code, cursor and codex                                           *)
StreamExits(success) ==
  /\ kind \in {"claude-code", "cursor", "codex"}
  /\ EmitResultUnlessFailed(found)
  /\ Exit(Succeeds(success, found # None))

(* The id that recursive writes to its stderr counts if the result has     *)
(* none.                                                                   *)
PreferSessionId(fromStderr) == IF found # None THEN found ELSE fromStderr

RecursiveExits(success, fromStderr) ==
  /\ kind = "recursive"
  /\ LET id == PreferSessionId(fromStderr)
     IN /\ EmitResultUnlessFailed(id)
        /\ Exit(Succeeds(success, heard > 0 \/ failed \/ final \/ id # None))

CodebuddyExits(success) ==
  /\ kind = "codebuddy-code"
  /\ LET ok == Succeeds(success, found # None)
     IN /\ IF ok THEN EmitFromRun(Body, found) ELSE FlushOnly(found)
        /\ Exit(ok)

(* A resumed conversation of agy keeps its id; that of a new one is in its *)
(* log, unless the log cannot be read.                                     *)
ConversationId(fromLog) == IF given # None THEN given ELSE fromLog

AgyExits(success, fromLog) ==
  /\ kind = "agy"
  /\ LET ok == Succeeds(success, final)
     IN /\ IF ok THEN EmitFromRun(Body, ConversationId(fromLog)) ELSE UNCHANGED emitVars
        /\ Exit(ok)

-----------------------------------------------------------------------------
(* stream_claude_permission                                                *)

(* A control_request: it is handed to the bridge, unbuffered and without a *)
(* session id.                                                             *)
ReadControlRequest ==
  /\ pc = "read" /\ permission /\ asked < MaxAsks
  /\ pc' = "ask"
  /\ asked' = asked + 1 /\ pending' = asked + 1
  /\ out' = Append(out, Event("permission_request", asked + 1, None))
  /\ UNCHANGED <<turnVars, attempt, cliVars, buffered, discovered, replied,
                 channel, late, stdinVars>>

(* The answer is written to the CLI.  If that fails, reading ends.         *)
Reply(id) ==
  /\ \/ pc' = "read" /\ replied' = Append(replied, <<pending, id>>)
     \/ pc' = "eof" /\ UNCHANGED replied
  /\ pending' = 0
  /\ UNCHANGED <<turnVars, attempt, cliVars, emitVars, asked, stdinVars>>

(* Mutant: the answer stays in the channel.                                *)
TakeResponseAgain ==
  /\ pc = "ask" /\ channel # <<>>
  /\ Reply(Head(channel))
  /\ UNCHANGED <<channel, late>>

(* The first answer in the channel is taken, whichever request it is for.  *)
TakeResponse ==
  /\ pc = "ask" /\ channel # <<>>
  /\ Reply(Head(channel))
  /\ channel' = Tail(channel)
  /\ UNCHANGED late

(* Mutant: without the timeout.                                            *)
GiveUpIfClosed ==
  /\ pc = "ask" /\ channel = <<>> /\ attempt \notin threads
  /\ Reply(pending)
  /\ late' = TRUE
  /\ UNCHANGED channel

(* No answer in half an hour, or the channel was closed: denied.           *)
GiveUp ==
  /\ pc = "ask" /\ channel = <<>>
  /\ Reply(pending)
  /\ late' = TRUE
  /\ UNCHANGED channel

(* The threads take the lock of stdin for as long as they live.            *)
LockStdin(t) ==
  /\ holder = 0 /\ t \in threads
  /\ holder' = t
  /\ UNCHANGED <<turnVars, pc, attempt, cliVars, emitVars, askVars, stdin, answered, gone,
                 threads>>

(* An answer goes to the channel of the thread; if its attempt is over     *)
(* nobody receives it, and the thread ends.                                *)
ReadStdin ==
  /\ holder # 0 /\ stdin # <<>>
  /\ stdin' = Tail(stdin)
  /\ IF holder = attempt /\ pc \in {"read", "ask", "eof"}
     THEN channel' = Append(channel, Head(stdin)) /\ UNCHANGED <<holder, threads>>
     ELSE threads' = threads \ {holder} /\ holder' = 0 /\ UNCHANGED channel
  /\ UNCHANGED <<turnVars, pc, attempt, cliVars, emitVars, asked, pending, replied,
                 late, answered, gone>>

(* stdin is at its end.                                                    *)
StdinEnds ==
  /\ holder # 0 /\ stdin = <<>> /\ gone
  /\ threads' = threads \ {holder} /\ holder' = 0
  /\ UNCHANGED <<turnVars, pc, attempt, cliVars, emitVars, askVars, stdin, answered,
                 gone>>

(* The bridge allows every request, in their order and some time after     *)
(* they came.                                                              *)
BridgeAnswers ==
  /\ ~ gone /\ answered < asked
  /\ answered' = answered + 1
  /\ stdin' = Append(stdin, answered + 1)
  /\ UNCHANGED <<turnVars, pc, attempt, cliVars, emitVars, askVars, gone, holder,
                 threads>>

BridgeGoes ==
  /\ permission /\ ~ gone
  /\ gone' = TRUE
  /\ UNCHANGED <<turnVars, pc, attempt, cliVars, emitVars, askVars, stdin, answered,
                 holder, threads>>

-----------------------------------------------------------------------------
Reads ==
  \/ ReadAssistant \/ ReadChunk \/ ReadItem \/ ReadOutput \/ ReadEof \/ ReadFails
  \/ \E id \in CliIds : ReadThreadStarted(id)
  \/ \E result \in Results : ReadResult(result) \/ ReadPlainResult(result)

Exits ==
  \E success \in BOOLEAN :
    \/ StreamExits(success) \/ CodebuddyExits(success)
    \/ \E id \in CliIds : RecursiveExits(success, id) \/ AgyExits(success, id)

Next ==
  \/ Spawn \/ SpawnFails \/ DownloadFails \/ Unsupported
  \/ Reads \/ Exits
  \/ ReadControlRequest \/ TakeResponse \/ GiveUp
  \/ \E t \in threads : LockStdin(t)
  \/ ReadStdin \/ StdinEnds
  \/ BridgeAnswers \/ BridgeGoes

(* The timeout ends, and the threads and the process run.  Nothing is      *)
(* assumed of the CLI and of the bridge.                                   *)
Fairness ==
  /\ WF_vars(TakeResponse) /\ WF_vars(GiveUp)
  /\ WF_vars(ReadStdin) /\ WF_vars(\E t \in threads : LockStdin(t))

Spec == Init /\ [][Next]_vars /\ Fairness

-----------------------------------------------------------------------------
(* Properties                                                              *)

TypeOK ==
  /\ kind \in Kinds /\ permission \in BOOLEAN /\ inbound \in {None, Old}
  /\ pc \in {"spawn", "read", "ask", "eof", "retry", "done"}
  /\ attempt \in 0 .. 2 /\ heard \in 0 .. MaxTexts /\ reports \in 0 .. MaxReports
  /\ {given, discovered, found} \subseteq Ids
  /\ final \in BOOLEAN /\ failed \in BOOLEAN /\ late \in BOOLEAN
  /\ asked \in 0 .. MaxAsks /\ pending \in 0 .. asked
  /\ holder \in 0 .. attempt /\ threads \subseteq 1 .. attempt

Terminal(e) == e.type \in {"result", "error"}

(* Where the events of the present attempt are, and its partials.          *)
Said == { i \in DOMAIN out : out[i].attempt = attempt }
Streamed == { i \in Said : out[i].type = "partial" }

(* What the CLI said is on stdout in that order and once, but for what     *)
(* waits for the session id while the CLI runs; and a result or an error   *)
(* comes after all that the CLI had said by then, none of it overtaken,    *)
(* left waiting or dropped, whether it was written while the CLI ran or    *)
(* when it had ended.                                                      *)
PartialsAsSaid ==
  kind # "agy" =>
    /\ \A i, j \in Streamed : i < j => out[i].text < out[j].text
    /\ \A i \in Said : Terminal(out[i]) =>
         { out[j].text : j \in { k \in Streamed : k < i } } = 1 .. out[i].heard
    /\ pc \in {"read", "ask", "eof"} =>
         \E n \in 0 .. heard : /\ { out[i].text : i \in Streamed } = 1 .. n
                               /\ buffered = [i \in 1 .. heard - n |-> n + i]

(* The bridge keeps the first session id that it sees ("first non-empty    *)
(* wins", protocol.rs): as long as the CLI reports its session once, the   *)
(* events of an attempt carry one id, those from before it was known       *)
(* included, and it is the one resumed if there is one.  codebuddy-code    *)
(* and agy are left aside after a fallback, see EmitFromRun.               *)
OneStamp ==
  reports <= 1 /\ ~ (kind \in {"codebuddy-code", "agy"} /\ attempt = 2) =>
  \A i, j \in Said :
    out[i].type # "permission_request" /\ out[j].type # "permission_request" =>
      /\ out[i].id = out[j].id
      /\ given # None => out[i].id = given

(* The CLI gets the answer to the request it waits for, as long as no      *)
(* earlier one was given up.                                               *)
AnswersMatch ==
  ~ late => \A i \in DOMAIN replied : replied[i][1] = replied[i][2]

(* "we deny so Claude can finish": the agent does not wait for ever, not   *)
(* even when the thread of a failed attempt swallowed the answer.          *)
RequestsSettle == pc = "ask" ~> pc # "ask"

(* "Terminal success body. At most one per turn; subsequent ones are       *)
(* ignored." (protocol.rs)                                                 *)
OneResult ==
  \A i, j \in DOMAIN out : out[i].type = "result" /\ out[j].type = "result" => i = j
=============================================================================
