-------------------------- MODULE McpServerProofs --------------------------
(***************************************************************************)
(* For any number of lines in any order, over every channel: the server    *)
(* answers each request once and in its turn, and reports success only of  *)
(* what was sent.                                                          *)
(*                                                                         *)
(* The second needs that the requests left for a line always end with the  *)
(* one that sends it (EndsWithMessage), the first that the line being      *)
(* handled has no answer yet.                                              *)
(***************************************************************************)
EXTENDS McpServer, SequenceTheorems, TLAPS

Request == {"token", "fetch", "ticket", "upload", "message", "enqueue"}

(* What is left to do of a line.                                           *)
EndsWithMessage(s) == s # <<>> /\ s[Len(s)] = "message"

Calling ==
  /\ state = "calling" => doing # <<>>
  /\ state = "reading" => doing = <<>>
  /\ doing # <<>> => read > 0 /\ lines[read] \in {"text", "media"}
  /\ doing # <<>> /\ channel # "wecom" => EndsWithMessage(doing)

IInv == TypeOK /\ Calling /\ AnsweredInOrder /\ LoudFailure

-----------------------------------------------------------------------------
(* What a transport does for a text or a media item                        *)

LEMMA Prefixed ==
  ASSUME NEW r \in Request, NEW s \in Seq(Request), s # <<>>
  PROVE  /\ <<r>> \o s \in Seq(Request) /\ <<r>> \o s # <<>>
         /\ EndsWithMessage(s) => EndsWithMessage(<<r>> \o s)
<1>1. <<r>> \in Seq(Request) /\ Len(<<r>>) = 1
  OBVIOUS
<1>2. Len(s) \in Nat /\ Len(s) > 0
  OBVIOUS
<1>3. <<r>> \o s \in Seq(Request) /\ Len(<<r>> \o s) = 1 + Len(s)
  BY <1>1
<1>4. (<<r>> \o s)[1 + Len(s)] = s[Len(s)]
  BY <1>1, <1>2
<1> QED
  BY <1>2, <1>3, <1>4 DEF EndsWithMessage

LEMMA TextsTyped ==
  /\ {IlinkText, TelegramText, DiscordText, FeishuText, WecomText} \subseteq Seq(Request) \ {<<>>}
  /\ \A s \in {IlinkText, TelegramText, DiscordText, FeishuText} : EndsWithMessage(s)
BY DEF IlinkText, TelegramText, DiscordText, FeishuText, WecomText, Request, EndsWithMessage

LEMMA MediaTyped ==
  /\ {IlinkMedia, TelegramMedia, DiscordMedia, FeishuMedia, WecomMedia} \subseteq Seq(Request) \ {<<>>}
  /\ \A s \in {IlinkMedia, TelegramMedia, DiscordMedia, FeishuMedia} : EndsWithMessage(s)
<1>1. {"fetch", "token"} \subseteq Request
  BY DEF Request
<1> DEFINE Good(s) == s \in Seq(Request) /\ s # <<>> /\ EndsWithMessage(s)
<1>2. /\ Good(<<"ticket", "upload", "message">>)
      /\ Good(<<"upload", "message">>)
      /\ Good(<<"message">>)
  BY DEF Request, EndsWithMessage
<1>3. <<"enqueue">> \in Seq(Request) /\ <<"enqueue">> # <<>>
  BY DEF Request
<1>4. ASSUME NEW s, Good(s) PROVE Good(Fetched(s))
  BY <1>1, <1>4, Prefixed DEF Fetched
<1>5. Fetched(<<"enqueue">>) \in Seq(Request) /\ Fetched(<<"enqueue">>) # <<>>
  BY <1>1, <1>3, Prefixed DEF Fetched
<1>6. Good(FeishuMedia)
  BY <1>1, <1>2, <1>4, Prefixed DEF FeishuMedia
<1>7. Good(IlinkMedia) /\ Good(TelegramMedia) /\ Good(DiscordMedia)
  BY <1>2, <1>4 DEF IlinkMedia, TelegramMedia, DiscordMedia
<1> QED
  BY <1>5, <1>6, <1>7 DEF WecomMedia

LEMMA RequestsTyped ==
  ASSUME TypeOK, NEW form \in {"text", "media"}
  PROVE  /\ Requests(form) \in Seq(Request) /\ Requests(form) # <<>>
         /\ channel # "wecom" => EndsWithMessage(Requests(form))
<1>1. channel \in Channels
  BY DEF TypeOK
<1>2. CASE form = "text"
  <2>1. Requests(form) = TextRequests[channel]
    BY <1>2 DEF Requests
  <2> QED
    BY <1>1, <2>1, TextsTyped DEF TextRequests, Channels
<1>3. CASE form = "media"
  <2>1. Requests(form) = MediaRequests[channel]
    BY <1>3 DEF Requests
  <2> QED
    BY <1>1, <2>1, MediaTyped DEF MediaRequests, Channels
<1> QED
  BY <1>2, <1>3

LEMMA TailEnds ==
  ASSUME NEW s \in Seq(Request), s # <<>>
  PROVE  /\ Head(s) \in Request /\ Tail(s) \in Seq(Request)
         /\ EndsWithMessage(s) /\ Tail(s) # <<>> => EndsWithMessage(Tail(s))
         /\ EndsWithMessage(s) /\ Tail(s) = <<>> => Head(s) = "message"
<1> DEFINE t == Tail(s)
<1>1. Len(s) \in Nat /\ Len(s) > 0 /\ Head(s) = s[1] /\ s[1] \in Request
  OBVIOUS
<1>2. /\ t \in Seq(Request) /\ Len(t) = Len(s) - 1
      /\ \A i \in 1 .. Len(t) : t[i] = s[i + 1]
  BY HeadTailProperties
<1> HIDE DEF t
<1>3. ASSUME t # <<>>, EndsWithMessage(s) PROVE EndsWithMessage(t)
  <2>1. Len(t) \in Nat \ {0}
    BY <1>2, <1>3, EmptySeq
  <2>2. t[Len(t)] = s[Len(s)]
    BY <1>1, <1>2, <2>1
  <2> QED
    BY <1>3, <2>2 DEF EndsWithMessage
<1>4. ASSUME t = <<>>, EndsWithMessage(s) PROVE Head(s) = "message"
  <2>1. Len(t) = 0
    BY <1>4, EmptySeq
  <2>2. Len(s) = 1
    BY <1>1, <1>2, <2>1
  <2> QED
    BY <1>1, <1>4, <2>2 DEF EndsWithMessage
<1>5. t = Tail(s)
  BY DEF t
<1> QED
  BY <1>1, <1>2, <1>3, <1>4, <1>5

-----------------------------------------------------------------------------
LEMMA InitIInv == Init => IInv
BY McpAssumption DEF Init, IInv, TypeOK, Calling, AnsweredInOrder, LoudFailure, Handled

(* The next line gets its answer.                                          *)
LEMMA Answered ==
  ASSUME TypeOK, AnsweredInOrder, NEW n \in 1 .. Len(lines), NEW v \in Verdicts,
         Answer(n, v), n = Handled + 1, Answerable(n), Handled \in Nat,
         lines' = lines, Handled' = n
  PROVE  AnsweredInOrder'
<1>1. answers \in Seq(Answers) /\ answers' = Append(answers, [to |-> n, says |-> v])
  BY DEF TypeOK, Answer
<1>2. \A i \in DOMAIN answers : answers[i].to \in 1 .. Handled
  BY DEF AnsweredInOrder
<1>3. /\ DOMAIN answers' = DOMAIN answers \cup {Len(answers) + 1}
      /\ \A i \in DOMAIN answers : answers'[i] = answers[i]
      /\ answers'[Len(answers) + 1].to = n
      /\ \A i \in DOMAIN answers : i < Len(answers) + 1
  BY <1>1
<1>4. \A i, j \in DOMAIN answers' : i < j => answers'[i].to < answers'[j].to
  BY <1>1, <1>2, <1>3 DEF AnsweredInOrder
<1>5. { answers'[i].to : i \in DOMAIN answers' } =
        { answers[i].to : i \in DOMAIN answers } \cup {n}
  BY <1>3
<1>6. { m \in 1 .. n : Answerable(m)' } = { m \in 1 .. Handled : Answerable(m) } \cup {n}
  BY DEF Answerable
<1>7. { answers'[i].to : i \in DOMAIN answers' } = { m \in 1 .. n : Answerable(m)' }
  BY <1>5, <1>6 DEF AnsweredInOrder
<1> QED
  BY <1>4, <1>7 DEF AnsweredInOrder

(* An answer that tells of success only what is shown keeps the promise.   *)
LEMMA Told ==
  ASSUME TypeOK, LoudFailure, NEW n \in 1 .. Len(lines), NEW v \in Verdicts,
         Answer(n, v), lines' = lines, channel' = channel, shown \subseteq shown',
         channel # "wecom" /\ v = "success" /\ lines[n] # "empty" => n \in shown'
  PROVE  LoudFailure'
<1>1. answers \in Seq(Answers) /\ answers' = Append(answers, [to |-> n, says |-> v])
  BY DEF TypeOK, Answer
<1>2. /\ DOMAIN answers' = DOMAIN answers \cup {Len(answers) + 1}
      /\ \A i \in DOMAIN answers : answers'[i] = answers[i]
      /\ answers'[Len(answers) + 1] = [to |-> n, says |-> v]
  BY <1>1
<1> QED
  BY <1>2 DEF LoudFailure

(* Without an answer nothing new is told.                                  *)
LEMMA Quiet ==
  ASSUME TypeOK, LoudFailure, answers' = answers, channel' = channel,
         shown \subseteq shown',
         \A i \in DOMAIN answers : lines'[answers[i].to] = lines[answers[i].to]
  PROVE  LoudFailure'
BY DEF LoudFailure

LEMMA AnswersTyped ==
  ASSUME TypeOK, NEW n \in 1 .. Len(lines), NEW v \in Verdicts, Answer(n, v)
  PROVE  answers' \in Seq(Answers)
<1>1. [to |-> n, says |-> v] \in Answers
  BY McpAssumption DEF TypeOK, Answers
<1> QED
  BY <1>1 DEF TypeOK, Answer

-----------------------------------------------------------------------------
(* The actions                                                             *)

LEMMA Writes ==
  ASSUME IInv, NEW form \in Form, AgentWrites(form)
  PROVE  IInv'
<1>1. lines \in Seq(Form) /\ read \in 0 .. Len(lines) /\ answers \in Seq(Answers)
  BY DEF IInv, TypeOK
<1>2. /\ lines' \in Seq(Form) /\ Len(lines') = Len(lines) + 1
      /\ \A n \in 1 .. Len(lines) : lines'[n] = lines[n]
  BY <1>1 DEF AgentWrites
<1>3. TypeOK'
  BY <1>1, <1>2, McpAssumption DEF AgentWrites, IInv, TypeOK
<1>4. Calling'
  BY <1>1, <1>2 DEF AgentWrites, IInv, Calling
<1>5. Handled \in 0 .. Len(lines) /\ Handled' = Handled
  BY <1>1 DEF Handled, AgentWrites, IInv, Calling
<1>6. { n \in 1 .. Handled : Answerable(n)' } = { n \in 1 .. Handled : Answerable(n) }
  BY <1>1, <1>2, <1>5 DEF Answerable
<1>7. AnsweredInOrder'
  BY <1>5, <1>6 DEF AgentWrites, IInv, AnsweredInOrder
<1>8. \A i \in DOMAIN answers : answers[i].to \in 1 .. Len(lines)
  <2>1. \A i \in DOMAIN answers : answers[i].to \in 1 .. Handled
    BY DEF IInv, AnsweredInOrder
  <2> QED
    BY <1>1, <1>5, <2>1
<1>9. LoudFailure'
  BY <1>2, <1>8, Quiet DEF AgentWrites, IInv
<1> QED
  BY <1>3, <1>4, <1>7, <1>9 DEF IInv

LEMMA Reads ==
  ASSUME IInv, ReadLine
  PROVE  IInv'
<1> DEFINE n == read + 1
           form == lines[n]
<1>1. /\ lines \in Seq(Form) /\ read \in 0 .. Len(lines) /\ n \in 1 .. Len(lines)
      /\ form \in Form /\ doing = <<>> /\ Handled = read /\ Handled \in Nat
      /\ lines' = lines /\ channel' = channel /\ shown' = shown /\ queue' = queue
      /\ read' = n /\ n = Handled + 1
  <2>1. /\ lines' = lines /\ channel' = channel /\ shown' = shown /\ queue' = queue
        /\ read' = n /\ state = "reading" /\ read < Len(lines)
    BY DEF ReadLine
  <2>2. lines \in Seq(Form) /\ read \in 0 .. Len(lines) /\ doing = <<>>
    BY <2>1 DEF IInv, TypeOK, Calling
  <2>3. n \in 1 .. Len(lines) /\ form \in Form
    BY <2>1, <2>2
  <2> QED
    BY <2>1, <2>2, <2>3 DEF Handled
<1>2. shown' \in SUBSET (1 .. read') /\ queue' \in Seq(1 .. read')
  BY <1>1 DEF IInv, TypeOK
<1>3. ASSUME NEW v \in Verdicts, Answer(n, v), doing' = doing, state' = state,
             form # "notification", v = "success" => form = "empty"
      PROVE  IInv'
  <2>1. TypeOK'
    BY <1>1, <1>2, <1>3, AnswersTyped DEF IInv, TypeOK
  <2>2. Calling'
    BY <1>1, <1>3 DEF IInv, Calling
  <2>3. Handled' = n /\ Answerable(n)
    BY <1>1, <1>3 DEF Handled, Answerable
  <2>4. AnsweredInOrder'
    BY <1>1, <1>3, <2>3, Answered DEF IInv
  <2>5. LoudFailure'
    BY <1>1, <1>3, Told DEF IInv
  <2> QED
    BY <2>1, <2>2, <2>4, <2>5 DEF IInv
<1>4. ASSUME UNCHANGED answers, form = "notification" \/ doing' # <<>>,
             \/ doing' = <<>> /\ state' = state
             \/ /\ form \in {"text", "media"} /\ doing' = Requests(form)
                /\ state' = "calling"
      PROVE  IInv'
  <2>1. /\ doing' \in Seq(Request)
        /\ doing' # <<>> => form \in {"text", "media"} /\ state' = "calling"
        /\ doing' # <<>> /\ channel # "wecom" => EndsWithMessage(doing')
        /\ doing' = <<>> => state' = "reading"
    <3>1. state = "reading" /\ channel' = channel /\ TypeOK
      BY DEF ReadLine, IInv
    <3>2. CASE doing' = <<>> /\ state' = state
      BY <3>1, <3>2 DEF Request
    <3>3. CASE form \in {"text", "media"} /\ doing' = Requests(form) /\ state' = "calling"
      BY <3>1, <3>3, RequestsTyped
    <3> QED
      BY <1>4, <3>2, <3>3
  <2>2. TypeOK'
    BY <1>1, <1>2, <1>4, <2>1 DEF IInv, TypeOK, Request
  <2>3. Calling'
    BY <1>1, <2>1 DEF IInv, Calling
  <2>4. { m \in 1 .. Handled' : Answerable(m)' } = { m \in 1 .. Handled : Answerable(m) }
    <3>1. CASE doing' = <<>>
      BY <1>1, <1>4, <3>1 DEF Handled, Answerable
    <3>2. CASE doing' # <<>>
      BY <1>1, <3>2 DEF Handled, Answerable
    <3> QED
      BY <3>1, <3>2
  <2>5. AnsweredInOrder'
    BY <1>4, <2>4 DEF IInv, AnsweredInOrder
  <2>6. LoudFailure'
    BY <1>1, <1>4, Quiet DEF IInv
  <2> QED
    BY <2>2, <2>3, <2>5, <2>6 DEF IInv
<1>5. CASE form \in Immediate
  <2>1. Answer(n, Verdict(form)) /\ UNCHANGED <<doing, state>>
    BY <1>5 DEF ReadLine, Immediate
  <2>2. Verdict(form) \in Verdicts /\ (Verdict(form) = "success" => form = "empty")
    BY <1>5 DEF Verdict, Verdicts, Immediate
  <2> QED
    BY <1>3, <1>5, <2>1, <2>2 DEF Immediate
<1>6. CASE form = "garbage"
  <2>1. Answer(n, "parse error") /\ UNCHANGED <<doing, state>>
    BY <1>6 DEF ReadLine, Immediate
  <2> QED
    BY <1>3, <1>6, <2>1 DEF Verdicts
<1>7. CASE form = "notification"
  BY <1>1, <1>4, <1>7 DEF ReadLine, Immediate
<1>8. CASE form \in {"text", "media"}
  <2>1. doing' = Requests(form) /\ state' = "calling" /\ UNCHANGED answers
    BY <1>8 DEF ReadLine, Immediate
  <2> QED
    BY <1>4, <1>8, <2>1, RequestsTyped DEF IInv
<1> QED
  BY <1>1, <1>5, <1>6, <1>7, <1>8 DEF Form, Immediate

(* The step with which the line being handled gets its answer.             *)
LEMMA Finishes ==
  ASSUME IInv, NEW v \in Verdicts, state = "calling", doing' = <<>>, state' = "reading",
         Answer(read, v), UNCHANGED <<channel, lines, read>>,
         shown' \in SUBSET (1 .. read), shown \subseteq shown', queue' \in Seq(1 .. read),
         channel # "wecom" /\ v = "success" => read \in shown'
  PROVE  IInv'
<1>1. /\ read \in 1 .. Len(lines) /\ lines[read] \in {"text", "media"}
      /\ Handled = read - 1 /\ Handled' = read /\ Handled \in Nat
  BY DEF IInv, TypeOK, Calling, Handled
<1>2. TypeOK'
  BY <1>1, AnswersTyped DEF IInv, TypeOK
<1>3. Calling'
  BY DEF Calling
<1>4. AnsweredInOrder'
  BY <1>1, Answered DEF IInv, Answerable
<1>5. LoudFailure'
  BY <1>1, Told DEF IInv
<1> QED
  BY <1>2, <1>3, <1>4, <1>5 DEF IInv

LEMMA TakenTyped ==
  ASSUME IInv, state = "calling", NEW r, Takes(r)
  PROVE  /\ shown' \in SUBSET (1 .. read) /\ shown \subseteq shown'
         /\ queue' \in Seq(1 .. read)
         /\ r = "message" => read \in shown'
<1>1. read \in 1 .. read
  BY DEF IInv, TypeOK, Calling
<1>2. shown \subseteq 1 .. read /\ queue \in Seq(1 .. read)
  BY DEF IInv, TypeOK
<1>3. Append(queue, read) \in Seq(1 .. read)
  BY <1>1, <1>2
<1> QED
  BY <1>1, <1>2, <1>3 DEF Takes

LEMMA Done ==
  ASSUME IInv, RequestDone
  PROVE  IInv'
<1>1. doing \in Seq(Request) /\ doing # <<>> /\ state = "calling"
  BY DEF IInv, TypeOK, Calling, Request, RequestDone
<1>2. CASE doing' = <<>>
  BY <1>1, <1>2, TailEnds, TakenTyped, Finishes DEF RequestDone, Verdicts, IInv, Calling
<1>3. CASE doing' # <<>>
  <2>1. Tail(doing) \in Seq(Request) /\ UNCHANGED <<channel, lines, read, answers, state>>
    BY <1>1, <1>3, TailEnds DEF RequestDone
  <2>2. TypeOK'
    BY <1>1, <2>1, TakenTyped DEF RequestDone, IInv, TypeOK, Request
  <2>3. Calling'
    BY <1>1, <1>3, <2>1, TailEnds DEF RequestDone, IInv, Calling
  <2>4. AnsweredInOrder'
    BY <1>1, <1>3, <2>1 DEF IInv, AnsweredInOrder, Handled, Answerable
  <2>5. LoudFailure'
    BY <1>1, <2>1, TakenTyped, Quiet DEF RequestDone, IInv
  <2> QED
    BY <2>2, <2>3, <2>4, <2>5 DEF IInv
<1> QED
  BY <1>2, <1>3

LEMMA Fails ==
  ASSUME IInv, RequestFails
  PROVE  IInv'
<1>1. shown' \in SUBSET (1 .. read) /\ shown \subseteq shown' /\ queue' \in Seq(1 .. read)
  BY TakenTyped DEF RequestFails, IInv, TypeOK
<1> QED
  BY <1>1, Finishes DEF RequestFails, Verdicts

(* The worker's steps and the end change nothing that is answered.         *)
LEMMA Elsewhere ==
  ASSUME IInv, WorkerSends \/ WorkerLoses \/ End
  PROVE  IInv'
<1>1. /\ UNCHANGED <<channel, lines, read, doing, answers>>
      /\ state' \in {state, "ended"} /\ shown \subseteq shown'
  BY DEF WorkerSends, WorkerLoses, End
<1>2. shown' \in SUBSET (1 .. read) /\ queue' \in Seq(1 .. read)
  <2> DEFINE S == 1 .. read
  <2>1. shown \subseteq S /\ queue \in Seq(S)
    BY DEF IInv, TypeOK
  <2> HIDE DEF S
  <2>2. queue # <<>> => Head(queue) \in S /\ Tail(queue) \in Seq(S)
    BY <2>1, HeadTailProperties
  <2>3. <<>> \in Seq(S)
    BY EmptySeq
  <2>4. shown' \in SUBSET S /\ queue' \in Seq(S)
    BY <2>1, <2>2, <2>3 DEF WorkerSends, WorkerLoses, End
  <2> QED
    BY <2>4 DEF S
<1>3. TypeOK'
  BY <1>1, <1>2 DEF IInv, TypeOK
<1>4. Calling'
  BY <1>1 DEF IInv, Calling
<1>5. AnsweredInOrder'
  BY <1>1 DEF IInv, AnsweredInOrder, Handled, Answerable
<1>6. LoudFailure'
  BY <1>1, Quiet DEF IInv
<1> QED
  BY <1>3, <1>4, <1>5, <1>6 DEF IInv

LEMMA IInvStep == IInv /\ [Next]_vars => IInv'
<1> SUFFICES ASSUME IInv, [Next]_vars PROVE IInv'
  OBVIOUS
<1>1. CASE UNCHANGED vars
  BY <1>1 DEF IInv, TypeOK, Calling, AnsweredInOrder, LoudFailure, Handled, Answerable, vars
<1> QED
  BY <1>1, Writes, Reads, Done, Fails, Elsewhere DEF Next, Serve

THEOREM Invariant == Spec => []IInv
BY InitIInv, IInvStep, PTL DEF Spec

(* Every reachable state of the server has its type.                       *)
THEOREM TypeCorrect == Spec => []TypeOK
<1>1. IInv => TypeOK
  BY DEF IInv
<1> QED
  BY <1>1, Invariant, PTL

(* Every request is answered once, in the order in which they were read,   *)
(* and a notification never, for any number of lines.                      *)
THEOREM InOrder == Spec => []AnsweredInOrder
<1>1. IInv => AnsweredInOrder
  BY DEF IInv
<1> QED
  BY <1>1, Invariant, PTL

(* The agent is told of success only what the conversation shows, whatever *)
(* fails on the way, except over wecom.                                    *)
THEOREM NoSilentLoss == Spec => []LoudFailure
<1>1. IInv => LoudFailure
  BY DEF IInv
<1> QED
  BY <1>1, Invariant, PTL
=============================================================================
