# Models and proofs of im-agentproc

im-agentproc connects instant messengers to command-line agents. A *bridge*
process polls a messenger through a transport, runs an agent for every message
and sends the answer back; a *manager* keeps one bridge process for each profile
file. The modules here model the parts of it that run concurrently or must
survive failures. TLC checks them on small instances, TLAPS proves their
safety properties for all values of the constants. Paths below are relative to
`src/src/bridge/` unless they say otherwise; line numbers are those of the
modelled commit.

## 1. Inventory

| Component | State | Operations | What is hard | What makes it correct | Modelled in |
|---|---|---|---|---|---|
| Message pump and session dispatcher (`dispatcher/mod.rs`, `session.rs`) | dispatch map key → channel, one task and one bounded queue per key, shutdown token, stop watch channel | poll, dispatch, spawn, evict, handle, drain, stop | workers exit between `is_closed()` and `try_send`; eviction by another task; shutdown anywhere | one live worker per conversation, no more than the cap, arrival order, nothing lost without a cause, everything ends | `SessionDispatcher`, `ConversationService` |
| Process run loop (`run_loop.rs`) | transport, credential file, signals | build, run, reconnect, grace period, exit | detached workers outlive the loop across a reconnect; signals between runs | old workers come to their end; a signal ends the process | `RunLoop` |
| One turn (`dispatcher/handle.rs`, `agentproc_runner.rs`, `send.rs`, `executor.rs`) | agent run, one-slot watch channel of partials, forwarder task, list of parts | emit, forward, cold retry, join, split, halve, retry, suppress | two tasks send to one user; throttling, rejection, lost answers; cancellation at any await | answer complete, in order, once; session id last; the turn ends | `ReplyTurn` |
| Session store (`transport/session_store.rs`) | table conversation → session id, dirty mark, flush time, file | open, lookup, remember, flush, drop | throttled and failing writes, kill, two stores on one file | no dirty mark means the file has it | `SessionStore` |
| WeCom transport (`transport/wecom.rs`) | WebSocket task, two channels, FIFO of 1024 req ids | connect, subscribe, read, write, kicked | one connection per bot: transports of one process kick each other | replies once and in order, each finds its chat | `WecomChannel` |
| Bridge manager (`manager.rs`) | children by id, probes, restart times, credential files, registrations at the Hub | scan, stop, probe, restart, start, deregister, stop all | edits during the scan, ids that shift, detached deregistration, exits at any time | one process per file, children follow the files, no ghosts, exited children come back | `BridgeManager` |
| Hub and direct connection, pairing, login (`transport/connection.rs`, `src/src/client/pairing.rs`, `src/src/ilink/login.rs`) | credential file, token, registration, QR codes shown | resolve, validate, discard, register, pair, save, re-register | a transient failure looks like a revoked token; two processes and a kill on one file; codes expire | a bridge runs with a token its Hub accepted; every start ends unless its registration is not answered; a bridge comes back | `HubConnection` (summarised in `BridgeManager` and `RunLoop`) |
| iLink and Telegram transports (`transport/ilink.rs`, `transport/telegram.rs`) | cursor in the pump's `buf` | getupdates, convert, download, advance | the cursor moves with the answer; answers are lost; runs start again without it | in order, once in a run, no text passed over | `PollingAdapter` in `Transports` |
| Discord transport (`transport/discord.rs`) | gateway session, sequence, resume info, heartbeat and its acknowledgement | identify, resume, dispatch, heartbeat, reconnect | resume with a stale sequence, zombie connections, sessions that expire | no event twice, no gap in a session, connects again | `DiscordGateway` in `Transports` |
| Feishu transport (`transport/feishu.rs`) | token cache under a lock | event, token, download, send | a cached token used by several tasks after the lock | no request with an expired token | `FeishuEvents` in `Transports` |
| Transport trait, registry, media, attachments | none over time | look up, build, fetch | – | – | the registry in `Transports`, fetching in `McpServer` |
| Built-in agent profiles (`builtin/`) | CLI process, session emitter, permission requests, stdin threads | read turn, spawn, stream, emit, resume fallback, ask, answer | the session id comes late; a failed resume is run again; late answers; a thread outlives its attempt | texts in order and once, a result behind them, one session id, answers match, nobody waits for ever | `BuiltinAgent` |
| MCP server (`src/src/mcp/`) | stdin line, requests of the call | read, answer, send text, send media | a call is several requests, each may fail | answers in order; success only for what was sent | `McpServer` |
| Configuration, routing, protocol types, probe, paths, command line | none over time | parse, convert, look up | – | – | no: pure functions and one-shot checks |

How they interact. The manager starts bridge processes and shares with each its
credential file and its name at the Hub. In a bridge, the run loop builds a
transport and spawns the pump; the pump calls `next_inbound` and hands messages
to `SessionDispatcher::dispatch` under the map's mutex; workers receive from
their channel and call `handle_one_message`, which spawns the forwarder and
calls `send_reply` of the shared transport. The stop channel leads from the
workers back to the pump, the shutdown token from the run loop to all tasks.
Adapters without a Hub keep the session id of each conversation in a session
store: written in `send_reply`, read when the next message comes in. The run loop
gets its Hub credentials from the connection code, and the file they are kept in
is read and written by every process that was given its path. The agent of a turn
may be a built-in profile, a process of its own that speaks the bridge's protocol
on its pipes, and may start the MCP server, a further process with a transport of
its own.

## 2. Modules

```
ConversationService  <--implements--  SessionDispatcher  <--EXTENDS--  RunLoop
ReplyTurn            (one handler step of SessionDispatcher, opened up)
BuiltinAgent         (the agent run of a ReplyTurn, opened up)
McpServer            (what that agent may start beside it)
SessionStore         <--INSTANCE--    WecomChannel
PollingAdapter, DiscordGateway, FeishuEvents  <--INSTANCE--  Transports
BridgeManager
HubConnection        (ChildConnects of BridgeManager and Build of RunLoop, opened up)
```

`MC*` modules and their `.cfg` files give constants values; `*Proofs` modules hold
the theorems (`SessionDispatcherProofs` also those about `RunLoop`,
`TransportsProofs` those about its three adapters). Comments marked *Broken form* or
*Mutant* in the modules head variants of a definition with a plausible bug (a
dropped guard, an off-by-one, a swapped order): the specifications do not use them,
they document which bug each property detects, and PROJECT.json pairs them.

**SessionDispatcher.** `loop` is where `run_bridge_with_shutdown` stands; `senders`,
`worker`, `queue` and `current` are the map, the tasks, the channels and the message
in each handler; `stop` and `shutdown` the two ways to end; `fate` a history of each
message. Messages are numbered in arrival order, and a worker is named by the
message that spawned it. `dispatch()` is two steps (`Reuse`, `Spawn` or `CapDrop`,
then `TrySend`), because a worker, which does not take the map's mutex, may exit in
between. The handler returns Ok, a transient error, a fatal error, or panics. `crew`
are the workers that the running loop's stop channel belongs to; in the first run
they are all workers, later those of the run that is on.

**ConversationService** is what its callers rely on: a line per conversation, in
arrival order, served one at a time; refusals at the door, dissolved lines. The
refinement mapping takes the queue of a key's live worker for its line.

**RunLoop** extends the dispatcher by the process: building a transport (one step,
which may also hang), Ctrl-C and SIGTERM, the grace period, and the reconnect on a
revoked token, which starts a new dispatcher beside the workers of the old one.

**ReplyTurn** is one turn from the routed message on. Chunks are numbered, the
body is the characters `1 .. n` and a part an interval of it, so that splitting,
halving and losing are visible without text. `slot` and `unseen` are the watch
channel. A final send is taken, throttled, rejected or fails with the copy
delivered or not. Retry budgets are counted in tries.

**SessionStore** has the stores that are open on one file, their tables and dirty
marks, and who replaced the file last; **WecomChannel** instantiates it and adds the
worker task and connection of each transport, the two channels, the req id FIFO and
the turns that read and store session ids and answer in one or more replies. A kick
is seen by the kicked side as an event and reported as `TokenRejected`; a connection
that is gone is noticed later (`stale`).

**BridgeManager** has the scan in its stages (`Discover`, `StopStale` for each
stale child, `MarkExited`, `RestartReady`, `StartNew`), so that users, children
and the Hub act in between, as they do while the code awaits. An id is a stem's
id with or without the suffix made from the path; edits of all files are numbered,
and the number stands for the fingerprint. A child connects in one step that
follows `resolve_hub_connection` and `resolve_direct_connection`: it keeps a
good saved token, or registers, or deletes a token that was not accepted (also
for a transient reason, as the code does) and registers again or exits.

**HubConnection** is that step in full. `pc` is where a process stands in
`resolve_hub_connection` or `resolve_direct_connection`; an action ends where the
code awaits the network or the disk, so that other processes, kills and the Hub act
in between; a registration may stay `unanswered`. `file` is the credential file,
missing, unusable or with credentials; writing it is truncating and filling, and may
fail. `accepted` is what each Hub takes at present, `ever` its history. Options are
inputs: a child of the manager, and a user who pairs, forces a registration or gives
a token.

**PollingAdapter** numbers the messages; a cursor is the last message it passed,
and an answer holds what follows, unless it is lost or the run is over.
**DiscordGateway** keeps the log of each gateway session, of which the worker's
`seq` is a position, the resume information that one connection leaves to the
next, and the heartbeat as ticks, their answers and the flag. **FeishuEvents**
has the tasks that use the token, the mutex, the cache with the times it believes
and the time at which the token dies, and a clock whose ticks respect the limits
of requests. **Transports** is the registry: it builds the adapter of the
profile and composes it with the pump's end; the kinds that do not run do not
move.

**BuiltinAgent** is one process of a built-in profile: `out` its events, `buffered`
and `discovered` the session emitter, `attempt` the first run of the CLI and the
fallback when resuming fails, `asked`, `channel`, `threads` and `holder` the
permission requests and the stdin reader threads of the attempts. The CLI is
external; what differs between the six profiles (who names the session, who
buffers, who notices errors) is in the definitions that mention `kind`.

**McpServer** is the loop over lines, and for the two tools the requests its
transport makes (`IlinkText`, `FeishuMedia`, ...), any of which may fail.

## 3. Runs

| Run | Instance | States | Shows |
|---|---|---|---|
| `dispatcher` | 4 messages of 3 conversations, 2 workers, queues of 1 | 54 192 | the dispatcher's properties, the cap among them, and that it implements `ConversationService` |
| `reconnect` | 3 messages, 2 of one chat, 3 runs of the bridge | 240 305 | the workers of a run that is over end; a signal ends the process |
| `reply_turn` | 2 chunks, a body up to 5 in parts of 3, 1 retry | 931 530 | the answer: complete, once, in order, and the turn ends |
| `wecom` | 3 messages of 2 chats, up to 2 replies to one, 2 transports, a table of 2 | 2 197 527 | replies and sessions through kicks, failures and kills |
| `manager` | 2 files with one stem, 3 edits, 1 failure | 186 869 | one process per file, no ghosts, files followed, children restarted |
| `hub_connection` | a managed child and a user on one file, 2 Hubs, 3 mishaps, 6 tokens | 401 453 | a bridge runs only with a token that its Hub accepted; starts end or wait for a registration; a bridge comes back |
| `transports` | every kind, 3 messages of any class, 2 lost connections, 2 runs | 2 796 672 | order, no text passed over, no gap in a Discord session, tokens alive, reconnection |
| `mcp` | every channel, 4 lines of any form | 757 396 | answers in order; success means sent |
| `agents` | every profile, fresh or resuming, 2 texts and a result per attempt, 2 requests | 2 733 589 | texts once and in order, before the result or error that follows them, under one session; answers match, requests settle |
| `reply_stream_lost` | all sends succeed | | **violated**: a suppressed body was shown as a stream (`handle.rs:173`) |
| `hub_unreachable` | one unreachable request | | **violated**: saved credentials with a good token are kept (`connection.rs:5`) |
| `agent_two_results` | a resume that fails | | **violated**: one result per turn (`protocol.rs:183`) |

The violated properties state what a comment or document of the repository says;
the counterexamples are behaviours of the code. A chunk that arrives during a send
replaces the one in the slot while `partial_count` still counts it
(`dispatcher/handle.rs:178`), so a part of a streamed answer is never shown. Any
error of a validation, an unreachable Hub included, makes the saved credentials
look invalid: they are deleted and the bridge registers or pairs again
(`transport/connection.rs:426`). A resumed run of Claude that fails has already
written a result, empty, under the old session id when the fallback starts
(`builtin/claude_code.rs:187`), and the bridge takes the first.

**Bounds.** The code has 512 workers, queues of 200 and a table of 1024 ids; two
workers, queues of one and a table of two reach every boundary (full, at the cap,
evicted) with few messages. Four messages of three conversations are enough for a
conversation to be refused at the cap, to lose its worker and to be given a new one.
Three runs of the bridge give two reconnects, hence workers that are two runs old.
Bodies of zero to five characters in parts of three have an empty, a short, an exact
and a split body, and odd and even halves. Two files with one stem are the smallest
case in which ids shift; three edits add both and take one away. Two processes on
one credential file are a reader and a writer in any order, two Hubs make a file
that was written for the other one, and three mishaps fit a revocation, a failed
request and a kill into one start. Three messages of any class are one before, one
dropped and one after; two lost connections give a resume and a resume of a resume,
three sessions two expired ones. Feishu's limits are ticks of 150 seconds: requests
of one tick, a buffer of two, lives of four and five, so that tokens expire within
the six ticks of a run. Four lines are enough for an answer on each side of a call.
Two texts and two attempts give a text before and after the session id in each, and
behind a result, on which the loops read on; what further results of an attempt do
is left to the proof, which has any number. Two requests give one that is late for
the other. One turn with two replies puts the reply of another chat between them.
`Arrivals`, `MaxBatch`, `MaxRuns`, `MaxPartials`, `MaxBody`, `MaxTries`, `MaxGens`,
`MaxEdits`, `MaxFailures`, `MaxEvents`, `MaxTokens`, `MaxSessions`, `MaxTicks`,
`MaxBreaks`, `MaxTasks`, `MaxNow`, `MaxLines`, `MaxTexts`, `MaxReports`,
`MaxReplies` and `MaxAsks` are bounds; they stand in the guards of the actions of
the environment, and no state constraint is used. The systems may really stop
(returned loops, ended turns, exited processes), so deadlock is not checked; that
they do not stop too early is what the liveness properties say.

**Fairness.** Timers, synchronous code and tasks the runtime has made ready go on:
weak fairness of the pump's own steps and of each worker. A handler ends,
because an agent run has a timeout and sends have budgets (`ReplyTurn`'s
`TurnEnds` shows the latter). With `LongPoll` the poll itself ends; without
it nothing is assumed of it. In `RunLoop` the grace period ends, and building does unless
it hangs (`BuildHangs`).
In `BridgeManager` the scan timer, the probes (which have timeouts) and restart
delays are fair. In `HubConnection` each process that looks for a token makes its
steps, since every poll has a deadline and every request a limit; all but one: the
registration's client has none (`transport/connection.rs:191`), so that `RegisterHangs`
leaves a process `unanswered` until it is killed, and the two liveness properties
say so. The manager starts its children again; failures come to an end
because they are bounded. In `Transports` the transport is built and the Discord worker is
scheduled, but a handshake of its WebSocket may never end (`HandshakeHangs`). In
`BuiltinAgent` the process waits for an answer no longer than its timeout and its stdin
thread reads. Messages, signals, edits, exits, and whatever the Hub, a
platform or a user does are never assumed. `WecomChannel` and `McpServer`
have safety properties only and no fairness.

**What each property is for** is in the comment above it. Those worth reading first:
`OneWorkerPerKey` and `ImplementsConversationService` (conversations are serialized
through evictions and respawns), `DiscardHasACause` and `WaitingIsReachable` (no
message falls between the structures), `SessionRidesLast` and `ColdRetryInvisible`
(retries do not show), `CleanMeansSaved` (the dirty mark), `OneProcessPerFile` (ids
shift while children are being stopped), `FilesAreFollowed` (edits at any moment of
a scan), `RunsWhereAccepted` (a token goes with the Hub that issued it, through a
shared file), `NoGapInSession` (sequence numbers through reconnects),
`TextNeverSkipped` (a cursor that moves before the messages are handled),
`UsedTokenAlive` (a buffer against age, wait and use), `PartialsAsSaid` (the
emitter's three ways to flush, and nothing of them behind the result),
`AnswersMatch` (answers through threads that outlive their attempt).

## 4. Proofs

Every safety invariant, every action property and the refinement that the passing
runs check is also a theorem, for all values of the constants. The proofs are
complete; they rest on the assumptions named in the modules (`ConstantsAssumption`,
`RunAssumption`, `TurnAssumption`, `WecomAssumption`, `ManagerAssumption`,
`ConnectionAssumption`, `McpAssumption`, `AgentAssumption`, `TransportsAssumption`),
which give the constants their types, limits being positive where the code has no
zero, and bound nothing from above. Only `FeishuAssumption`, which
`TransportsAssumption` includes, says more: the refresh buffer covers the longest
token request and the longest use (300 s against 30 s and 90 s in the code), and
tokens live longer than these two. Each invariant below was checked on the instance
of the component's run before it was proved.

**SessionDispatcherProofs.** `TypeCorrect`; `OneWorker` (`OneWorkerPerKey`);
`Reachable` (`WaitingIsReachable`); `DiscardCaused` (`DiscardHasACause`); `Implements`
(the refinement of `ConversationService`); and `CapKept` (`LiveWorkersWithinCap`), with
`CapKeptOverRuns`, the same of `RunLoop`.
`OneWorkerPerKey` is not inductive. `Spawn` overwrites a map entry, so one must
know that the only worker that could be alive for the key is the one in the map
(`OwnsItsKey`), that the message about to be dispatched has not spawned a worker
yet (`FreshNames`), and that there is such a message (`BatchPending`). Entries leave
the map when they are closed, or all together when the loop returns, after which
nothing is spawned. The others rest on `Lines`: a dispatched
message that waits is in a queue (`Queued`); a queue that is not empty has a live
worker, is of one conversation and in the order of arrival, behind what its worker
has in hand (`InLine`); and a worker has a message in hand just while it handles
it (`InHand`). The refinement takes the queue of the map's live worker for
the line of its conversation (`Shown`): `TrySend` joins the line, `Receive` begins
the turn, the two halves of a dispatch and the map's housekeeping stutter, and
a worker that dies with its queue is the line's dissolution. `DiscardCaused` is the
same case split over the fates that a step changes. The cap counts entries of the map, and
entries are replaced, retained and evicted while workers end by themselves. It bounds
live workers because every live worker of the running loop is in the map under its own key
(`CrewOwns`), so that they are no more than its entries, and `Spawn` makes room among
the closed ones before it adds one (`HeldBound`). Neither speaks of the workers that
an earlier run left behind, and so both survive a reconnect.

**ReplyTurnProofs.** `TypeCorrect`; `InOrder` (`PartialsInOrder`); `NoRerunShown`
(`ColdRetryInvisible`); `OneAnswer` (`AnsweredOnce`); `SessionLast`
(`SessionRidesLast`); `NothingDropped` (`AnswerComplete`). The stream: chunk numbers
grow from what was shown over what the forwarder holds to the slot, and the count
that forbids a rerun counts every chunk that was emitted (`Streamed`). The final
sends: the line of the pieces still to send names the session in its last piece
only, and what follows a piece that was sent with the session, be it sent or still
to be, lies within it (`NamedLast`): a part of which a copy landed may be rejected
when it is retried, and its halves then go out behind it. The line holds text only
if the stream did not (`TextUnstreamed`), and together with what was sent, rejected
or given up it covers the body (`Accounted`). `Accounted` is where the arithmetic of
splitting and halving is: the lemmas before it say that the parts of a text lie in
it and cover it, for every length and every part size.

**WecomChannelProofs.** `TypeCorrect`; `CleanStoresAreSaved` (`CleanMeansSaved`);
`RepliesInOrder` (`RepliesOnceInOrder`); `RepliesFindTheirChat` (`ReplyFindsItsChat`);
`QuietChatsResume` (`SpacedTurnsResume`). The type of the store says that dirty stores
are open, which needs that only turns of open transports remember sessions
(`RunningInUse`, `InboundInUse`, `WorkersInUse`). `CleanMeansSaved` speaks of the last
writer, so a store opened anew must not be it: transports are numbered as they
are built (`WrittenByBuilt`). The other three follow a message from the inbound
channel through the turns of its chat to the replies and the socket
(`InboundSound`, `TurnOrder`, `RepliesSound`, `DeliveredSound`), a running turn's replies being
those it has counted (`SaidOrder` is the lemma of a further one); the req_id
table has the newest messages of its transport, and all of them unless it is full
(`TableSound`), so what is missing was pushed out by newer ones; and the store has
the session of the newest turn of a chat that named one (`Remembered`).

**BridgeManagerProofs.** `TypeCorrect`, `NoGhosts` (`NoGhost`) and `OneProcess`
(`OneProcessPerFile`), for any files and stems and any number of edits and
failures. The last needs that edit numbers lead to one file (`Numbered`), so that a
child with an unchanged fingerprint has the file that the scan gave its id
(`Matching`); that the ids of a scan keep its files apart (`DesiredApart`); and
that all stale children are stopped before a new one starts. With `Matching`
dropped, an id that shifted between two scans would keep its old child while the
new id starts another for the same file.

**HubConnectionProofs.** `TypeCorrect` and `OnlyAccepted` (`RunsWhereAccepted`), for any
processes, Hubs, command lines, tokens and mishaps. A token that was validated or
issued is saved, or fails to be, before the bridge runs with it, and meanwhile
the file may be replaced and the token revoked; the invariant therefore speaks of
every process from the moment it has its token (`Granted`), and of the token that
a probe was given on the command line. `TypeOK` bounds the codes shown, which
needs that a process that may show one more has not shown all (`Counted`).

**McpServerProofs.** `TypeCorrect`, `InOrder` (`AnsweredInOrder`) and `NoSilentLoss`
(`LoudFailure`), for any lines in any number. The requests left of a call always
end with the one that shows the text or file (`Calling`), so that the call
succeeds only after it.

**TransportsProofs.** `TypeCorrect`; `InOrder` (`InOrderOnce`); `TextKept`
(`TextNeverSkipped`); `NoGap` (`NoGapInSession`); `TokensAlive` (`UsedTokenAlive`); and
`FeishuTypeCorrect` and `FeishuTokenAlive` of the Feishu adapter by itself. The
polling adapters: what was handed on is at or before the cursor (`GivenPassed`), and
the messages kept of an answer can be put in their order, for which there is a
lemma on sorting (`Sortable`). Discord: a session's log is in order (`LogsSound`);
what it holds past the sequence number of the worker is later than all that was
read, over a live connection and in what is kept to resume one (`LinkSound`);
a download in progress keeps the reader from the next event (`PumpSound`). Feishu:
the cache may overstate a token's remaining life by the time its request took
(`CacheHonest`); the buffer is longer than that and a use together, so a token
just taken outlives its use (`InTime`).

**BuiltinAgentProofs.** `TypeCorrect`; `AllAsSaid` (`PartialsAsSaid`); `OneId`
(`OneStamp`); `RightAnswers` (`AnswersMatch`). The invariant of the events (`EmitInv`)
holds `PartialsAsSaid` and `OneStamp` themselves: the emitter appends each text, or keeps it
behind all others, and a terminal event writes first what waits, so each write
keeps the order, and a result or an error stands behind all that the CLI had said by
then. It adds that nothing waits once the id is known (`Flushed`); and that
what is on stdout before an error has the id of the resumed session, there being none
without one, and afterwards the id that the error had (`Stamps`). `Counted` says which
attempt resumes what. Unless a request was given up there is at most one answer
between the bridge and the CLI, and it is for the request that is waited for
(`OnItsWay`).

Only model-checked: liveness (fairness and ENABLED are beyond the prover), and
the properties that runs show violated. Induction is available only where its
hypothesis is a set: `TransportsProofs` takes the least element of a set of numbers
(`WFMin`) for the existence of a sorted sequence. What a recursive definition or `SelectSeq`
computes cannot be reasoned about; definitions under a theorem
say what they mean by quantifiers instead (`InOrder` in `PollingAdapter`,
`Said` and `Streamed` in `BuiltinAgent`).

## 5. What is left out

Time: backoffs, budgets and delays end some time or after some tries. Hence
nothing is said of how long a bot waits: the WeCom backoff that doubles with each
connection (`transport/wecom.rs:213`) although `wecom.rs:270` announces a reset,
the restart backoff that counts a long probe as uptime (`manager.rs:421`), the
partial whose retry every new chunk postpones (`dispatcher/send.rs:123`). The one
clock is in `FeishuEvents`. Texts, formats, prompts and logging are left out
where no property is about them, and so are the encryption of media, attachment
names and sizes, and the cap of captured output. The dispatcher's mutex is not a variable:
only `dispatch` and the eviction take it, and eviction is disabled between the
steps of a dispatch. The fingerprint (length and times) is taken to differ
whenever a file was edited. Reading the profile directory is one step, and an
error of it, which changes nothing, is no step. Replacing the session file is one step.

Not modelled: configuration and routing, probe, paths, the virtual token
environment, error types and argument parsing. They compute once, at the start of
a process or for one message, from their inputs alone; what the other components
take from them are inputs of the models. Of WeCom, its access token and media
downloads; of the registry, the table of capabilities. `builtin/opencode.rs` is
not compiled (`builtin/mod.rs` does not name it).

Behaviours met while modelling that are in the models, or follow from them, and
have no run of their own.

In the bridge:

- The fatal error of a worker is noticed between two polls (`dispatcher/mod.rs:92`), so with
  a transport whose poll does not end by itself the loop that "Returns when Hub
  signals a stop condition (token rejected or fatal CLI auth error)" (`mod.rs:40`)
  goes on until the next message. `FatalErrorEndsTheLoop` is checked with long polls.
- After a reconnect (`run_loop.rs:215`), a worker of the old run and one of the new may
  serve one conversation at once, where `transport.rs:152-154` has "the dispatcher serializes
  messages that share it (one worker, arrival order)". `OneWorkerPerKey` and `LiveWorkersWithinCap` speak
  of one run; of the old workers `OldWorkersEnd` says that they end.
- A part whose first copy landed, while its answer was lost, may be rejected when it is
  retried: any client error counts as a rejection (`transport/telegram.rs:446-450`,
  `transport/discord.rs:643-648`), and the part is then sent again in halves, behind the session id it
  carried (`send.rs:247-257`, `372`). `SessionRidesLast` allows for the same text, and for
  nothing else.
- The error reply of a failed agent-to-agent turn has no call id (`dispatcher/handle.rs:298`),
  which `handle.rs:114` wants "Echoed on outbound sendmessage so Hub can resolve the MCP
  `call_agent` waiter": the waiting agent runs into its timeout.
- A message that waits behind a running turn was given its session id when it was read
  (`transport/wecom.rs:505`; `session_store.rs:4-5` has the id read back in the conversion of the
  next turn), so the conversation forgets the turn it waited for. `SpacedTurnsResume` speaks of turns
  that do not overlap.
- A chunk that waits for its retry when the agent ends is dropped (`send.rs:135`,
  `StreamEndsInBackoff`); if it was the only one, the user gets nothing.
- The error reply has a token that is never cancelled so that a restart cannot drop
  it (`handle.rs:301-308`), but the worker's `select!` drops the handler with it
  (`session.rs:70`, `Interrupt`). The restart notice is tried once.
- A rejected last part of one character cannot be halved; the session id it would
  have carried is not persisted (`send.rs:373`, `givenUp`).
- A fatal CLI error of a worker left over from an earlier run goes to a stop channel
  without a receiver (`session.rs:118`); `dispatcher/mod.rs:32` calls for user action.
- A Ctrl-C during a rebuild is swallowed, a SIGTERM is not (`run_loop.rs:160`).
- On `TokenRejected` the Hub credential file is removed whatever the transport
  (`run_loop.rs:214`), also after a WeCom kick.
- WeCom's `send_reply` reports `Sent` on queueing (`wecom.rs:666`), where
  `transport.rs:104` has "The IM accepted the reply."
- A rejected Telegram token is read from the same profile again: the run loop rebuilds and is
  rejected without a delay (`run_loop.rs:214`).
- A dropped WeCom transport does not end its worker, although `transport/wecom.rs:289`
  says of the closed channel "Sender dropped — transport is shutting down": the worker
  looks at the channel only while connected, a clean end makes it connect again
  (`wecom.rs:209`), and its connection kicks the live one.
- After a reconnect, two session stores write one file and the older may be last
  (`session_store.rs:177`): `CleanMeansSaved` speaks of the last writer only.

In the manager and the connection:

- A profile that does not parse for a moment counts as gone: its credentials are removed
  (`manager.rs:294`), which `manager.rs:295` explains by "Profile yaml was removed/renamed".
- When the first of two files with one stem is deleted, the other takes over its id,
  its Hub name and its credential path (`manager.rs:853`).
- A Hub that takes a registration and never answers it keeps the bridge from starting for as
  long as the process lives: the client has no time limit (`transport/connection.rs:191`,
  `RegisterHangs`), and at a reconnect a SIGTERM is not looked at meanwhile (`BuildHangs`).
- A forced deregistration that arrives late removes the registration of a profile that was
  put back meanwhile (`manager.rs:324`); the child is rejected and registers again.
- A manager that is killed leaves its children, and its successor starts others.

In the transports:

- Telegram's offset is computed from the messages kept (`transport/telegram.rs:459`), where
  `telegram.rs:465` has "Advance the offset past the highest update_id we've seen": dropped
  updates at the end of an answer are fetched again at once, as long as nothing else arrives.
- Discord sends no READY after a resume, so the worker does not know its session and cannot
  resume a second time (`session` stays `NoSession`): it identifies, and misses what
  came in between. `NoGapInSession` speaks of the sessions that live on.
- The handshake with Discord has no time limit either (`transport/discord.rs:174`, `HandshakeHangs`):
  a gateway that takes the connection and says nothing leaves the bridge deaf.
- A close code that forbids reconnecting is reported and then treated as a clean end
  (`transport/discord.rs:373-380`): the worker connects again.
- During the jitter before the first heartbeat a loop of `yield_now` (`discord.rs:254`) keeps a
  core busy.
- A Feishu event that the SDK delivers again is not recognised, and a media event is overtaken by
  texts that come during its download: `InOrderOnce` leaves Feishu out. When the SDK gives up
  (`transport/feishu.rs:232`) the bridge receives nothing more and does not end (`SdkEnds`).
- iLink counts an answer 200 without a readable body as sent. An answer to a poll without a cursor
  leaves the old one in place (`transport/ilink.rs:137`, `IlinkCursors`); that an answer with messages has
  one is assumed of the Hub, else they would come again.

In the agents and the MCP server:

- A text of blanks is reported as sent, by intent (`src/src/mcp/tools.rs:197-200`): `LoudFailure` excepts it.
- The transport that the MCP server builds for WeCom opens a connection of its own and kicks
  the bridge's (`transport/registry.rs:111`).
- The error of an unknown method is written under `"result"` (`src/src/mcp/server.rs:109`, `122-129`).
- `read_turn_or_error` reports a missing turn "so the caller can exit cleanly"
  (`builtin/common.rs:20-24`); the callers go on with an empty message.
- After a fallback, codebuddy-code and agy stamp their result with the id of the session
  that could not be resumed (`builtin/codebuddy_code.rs:49`, `builtin/agy.rs:33`):
  `OneStamp` leaves them aside then.
- In a new session nothing is streamed until the CLI names it, for most CLIs with their
  result: the emitter keeps the texts back (`builtin/common.rs:177`).
- The loops read on behind a result (`builtin/claude_code.rs:138-181`). Texts that the CLI writes after an
  error result without a session id wait for an id, and are dropped when the attempt ends
  without one more terminal event (`buffered` in `BuiltinAgent`); and a second report may name another
  session, which is why `OneStamp` speaks of attempts with one report.
- The answer to a request that timed out stays in the channel and is taken for the answer to the next
  (`builtin/claude_code.rs:359`): `AnswersMatch` excludes turns with a late answer. A failed attempt's
  thread still holds stdin and swallows the first answer of the next.
- The drain of a CLI's stderr ends at its cap and closes the pipe (`builtin/common.rs:226`), so
  that a CLI that writes more fails at it, where the comment above has it drained.

## 6. What is next

The hazards without a property (PROJECT.json): a handler dropped with its error
reply, the forwarder that must be joined before the body is sent, two session stores
on one file, the detached WeCom task that kicks the live connection, a registration
that is never answered, a profile that does not parse for a moment, and the children
of a killed manager. More proofs: that `RunLoop`'s dispatchers of one run keep one
worker for each conversation beside the old ones, and that `HubConnection`
implements the one step that `BridgeManager` takes for it.
