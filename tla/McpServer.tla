----------------------------- MODULE McpServer ------------------------------
(***************************************************************************)
(* The subprocess with which an agent sends to the conversation of its     *)
(* turn (mcp/server.rs, mcp/tools.rs), down to the requests its transport  *)
(* makes for a text and for a media item.  The server reads one line after *)
(* the other and answers before it reads on.  The agent, which writes the  *)
(* lines, and the platform are external.                                   *)
(*                                                                         *)
(* The line n is the n-th that the agent wrote; n stands for its id and    *)
(* for what it asks to send.                                               *)
(***************************************************************************)
EXTENDS Naturals, Sequences

CONSTANTS MaxLines   \* bound: lines the agent writes

ASSUME McpAssumption == MaxLines \in Nat

(* "known": initialize, ping and tools/list; "unknown": another method;    *)
(* "malformed": a tools/call without its parameters, of no registered      *)
(* tool, or with arguments the tool refuses; "empty": a text of blanks;    *)
(* "notification": a line without an id; "garbage": not JSON.              *)
Immediate == {"known", "unknown", "malformed", "empty"}
Form == Immediate \cup {"text", "media", "notification", "garbage"}
Channels == {"ilink", "telegram", "feishu", "discord", "wecom"}

(* What an answer says: "result" has no isError; the reason of a failure   *)
(* and the error inside the result of an unknown method are left out.      *)
Verdicts == {"result", "success", "failure", "parse error"}
Answers == [to : 1 .. MaxLines, says : Verdicts]

VARIABLES
  channel,   \* IM_AGENTPROC_MCP_TRANSPORT
  lines,     \* the lines the agent wrote
  read,      \* number of lines read
  doing,     \* requests left for the line being handled
  answers,   \* what the server wrote to its stdout
  shown,     \* lines whose text or media the conversation shows
  queue,     \* frames waiting for the WebSocket worker of wecom
  state      \* "reading", "calling" or "ended"

vars == <<channel, lines, read, doing, answers, shown, queue, state>>

Init ==
  /\ channel \in Channels
  /\ lines = <<>> /\ read = 0
  /\ doing = <<>>
  /\ answers = <<>>
  /\ shown = {}
  /\ queue = <<>>
  /\ state = "reading"

AgentWrites(form) ==
  /\ Len(lines) < MaxLines
  /\ lines' = Append(lines, form)
  /\ UNCHANGED <<channel, read, doing, answers, shown, queue, state>>

Answer(n, verdict) == answers' = Append(answers, [to |-> n, says |-> verdict])

(* The requests with which each transport sends a text: send_reply.  What  *)
(* iLink answers with success and no readable body counts as sent.         *)
IlinkText == <<"message">>
TelegramText == <<"message">>
DiscordText == <<"message">>
FeishuText == <<"token", "message">>
WecomText == <<"enqueue">>

(* And a media item, whose bytes come first: send_media.                   *)
Fetched(requests) == <<"fetch">> \o requests
IlinkMedia == Fetched(<<"ticket", "upload", "message">>)
TelegramMedia == Fetched(<<"message">>)
DiscordMedia == Fetched(<<"message">>)
FeishuMedia == <<"token">> \o Fetched(<<"upload", "message">>)
WecomMedia == Fetched(<<"enqueue">>)

TextRequests ==
  [ilink |-> IlinkText, telegram |-> TelegramText, feishu |-> FeishuText,
   discord |-> DiscordText, wecom |-> WecomText]
MediaRequests ==
  [ilink |-> IlinkMedia, telegram |-> TelegramMedia, feishu |-> FeishuMedia,
   discord |-> DiscordMedia, wecom |-> WecomMedia]

Requests(form) == IF form = "text" THEN TextRequests[channel] ELSE MediaRequests[channel]

-----------------------------------------------------------------------------
(* run_server                                                              *)

Verdict(form) ==
  CASE form = "malformed" -> "failure"
    [] form = "empty" -> "success"
    [] OTHER -> "result"

(* Mutant: a notification is answered like a request.                      *)
ReadLineAnsweringAll ==
  /\ state = "reading" /\ read < Len(lines)
  /\ read' = read + 1
  /\ LET form == lines[read + 1]
     IN CASE form \in Immediate \cup {"notification"} ->
               Answer(read + 1, Verdict(form)) /\ UNCHANGED <<doing, state>>
          [] form = "garbage" ->
               Answer(read + 1, "parse error") /\ UNCHANGED <<doing, state>>
          [] OTHER -> doing' = Requests(form) /\ state' = "calling" /\ UNCHANGED answers
  /\ UNCHANGED <<channel, lines, shown, queue>>

ReadLine ==
  /\ state = "reading" /\ read < Len(lines)
  /\ read' = read + 1
  /\ LET form == lines[read + 1]
     IN CASE form \in Immediate ->
               Answer(read + 1, Verdict(form)) /\ UNCHANGED <<doing, state>>
          [] form = "garbage" ->
               Answer(read + 1, "parse error") /\ UNCHANGED <<doing, state>>
          [] form = "notification" -> UNCHANGED <<doing, answers, state>>
          [] OTHER -> doing' = Requests(form) /\ state' = "calling" /\ UNCHANGED answers
  /\ UNCHANGED <<channel, lines, shown, queue>>

(* What a request does when it reaches its destination.                    *)
Takes(request) ==
  /\ shown' = IF request = "message" THEN shown \cup {read} ELSE shown
  /\ queue' = IF request = "enqueue" THEN Append(queue, read) ELSE queue

(* The request is answered with success; the last answer is Sent.          *)
RequestDone ==
  /\ state = "calling"
  /\ Takes(Head(doing))
  /\ doing' = Tail(doing)
  /\ IF doing' = <<>> THEN Answer(read, "success") /\ state' = "reading"
     ELSE UNCHANGED <<answers, state>>
  /\ UNCHANGED <<channel, lines, read>>

(* Mutant: a throttled send counts as sent.                                *)
RequestFailsSilently ==
  /\ state = "calling" /\ Head(doing) # "enqueue"
  /\ UNCHANGED <<shown, queue>>
  /\ doing' = <<>>
  /\ Answer(read, IF Head(doing) = "message" THEN "success" ELSE "failure")
  /\ state' = "reading"
  /\ UNCHANGED <<channel, lines, read>>

(* Throttled, Rejected, another error, or no answer in time, after which   *)
(* the destination may have taken the request all the same.  The channel   *)
(* to wecom's worker does not fail.                                        *)
RequestFails ==
  /\ state = "calling" /\ Head(doing) # "enqueue"
  /\ Takes(Head(doing)) \/ UNCHANGED <<shown, queue>>
  /\ doing' = <<>>
  /\ Answer(read, "failure")
  /\ state' = "reading"
  /\ UNCHANGED <<channel, lines, read>>

(* The worker of wecom writes a frame to its WebSocket.                    *)
WorkerSends ==
  /\ state # "ended" /\ queue # <<>>
  /\ queue' = Tail(queue)
  /\ shown' = shown \cup {Head(queue)}
  /\ UNCHANGED <<channel, lines, read, doing, answers, state>>

(* The frame is taken from the channel and the write fails.                *)
WorkerLoses ==
  /\ state # "ended" /\ queue # <<>>
  /\ queue' = Tail(queue)
  /\ UNCHANGED <<channel, lines, read, doing, answers, shown, state>>

(* EOF, or the agent's process group is killed; what is queued is lost.    *)
End ==
  /\ state # "ended"
  /\ state' = "ended"
  /\ queue' = <<>>
  /\ UNCHANGED <<channel, lines, read, doing, answers, shown>>

Serve == ReadLine \/ RequestDone \/ RequestFails

Next ==
  \/ Serve \/ WorkerSends \/ WorkerLoses \/ End
  \/ \E form \in Form : AgentWrites(form)

Spec == Init /\ [][Next]_vars

-----------------------------------------------------------------------------
(* Properties                                                              *)

(* The lines that get an answer: a JSON-RPC request, or no JSON at all.    *)
Answerable(n) == lines[n] # "notification"
Handled == IF doing = <<>> THEN read ELSE read - 1

TypeOK ==
  /\ channel \in Channels
  /\ lines \in Seq(Form) /\ Len(lines) <= MaxLines
  /\ read \in 0 .. Len(lines)
  /\ doing \in Seq({"token", "fetch", "ticket", "upload", "message", "enqueue"})
  /\ answers \in Seq(Answers)
  /\ shown \in SUBSET (1 .. read)
  /\ queue \in Seq(1 .. read)
  /\ state \in {"reading", "calling", "ended"}

(* Each line is answered once and in its turn, a failed send in the midst  *)
(* of its requests included, and a notification never.                     *)
AnsweredInOrder ==
  /\ \A i, j \in DOMAIN answers : i < j => answers[i].to < answers[j].to
  /\ { answers[i].to : i \in DOMAIN answers } = { n \in 1 .. Handled : Answerable(n) }

(* "silent success, loud failure" (mcp/mod.rs): what the agent is told to  *)
(* be sent is in the conversation, except over wecom, where a frame may be *)
(* lost between the answer and the WebSocket; and except a text of blanks, *)
(* of which send_text makes no request and reports success.                *)
LoudFailure ==
  channel # "wecom" =>
    \A i \in DOMAIN answers :
      LET n == answers[i].to
      IN answers[i].says = "success" /\ lines[n] # "empty" => n \in shown
=============================================================================
