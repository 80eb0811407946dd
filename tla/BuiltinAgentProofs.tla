------------------------- MODULE BuiltinAgentProofs --------------------------
(***************************************************************************)
(* What holds of a turn of a built-in profile for any number of texts and  *)
(* requests.  Three invariants: the attempts are counted and each resumes  *)
(* what it should (TypeInv); while no request was given up, at most one    *)
(* answer is on its way to the CLI (AnswersInv); and the texts on stdout   *)
(* and those that wait are what the CLI said, the latter only while no id  *)
(* is known, and what is on stdout has the one id there is (EmitInv).  The *)
(* last takes the order of the texts from PartialsAsSaid itself, which is  *)
(* kept by every write because a terminal event writes first what waits.   *)
(***************************************************************************)
EXTENDS BuiltinAgent, SequenceTheorems, TLAPS

(* The CLI runs.                                                           *)
Live == pc \in {"read", "ask", "eof"}

(* There are two attempts at most; the first resumes the session of the    *)
(* turn, the second none.                                                  *)
Counted ==
  /\ pc = "spawn" => attempt \in {0, 1}
  /\ pc = "retry" => attempt = 1
  /\ attempt = 0 => pc = "spawn"
  /\ Live => \/ attempt = 1 /\ given = inbound
             \/ attempt = 2 /\ given = None

TypeInv == TypeOK /\ Counted

(* No attempt has been made.                                               *)
LEMMA TypeInit == Init => TypeInv
<1> SUFFICES ASSUME Init PROVE TypeInv
  OBVIOUS
<1>1. permission \in BOOLEAN /\ final \in BOOLEAN /\ failed \in BOOLEAN /\ late \in BOOLEAN
  BY DEF Init
<1>2. attempt \in 0 .. 2 /\ heard \in 0 .. MaxTexts /\ asked \in 0 .. MaxAsks
      /\ reports \in 0 .. MaxReports
      /\ pending \in 0 .. asked /\ holder \in 0 .. attempt /\ threads \subseteq 1 .. attempt
  BY AgentAssumption, SMT DEF Init
<1>3. TypeOK
  BY <1>1, <1>2 DEF Init, TypeOK, Ids
<1>4. Counted
  BY DEF Init, Counted, Live
<1> QED
  BY <1>3, <1>4 DEF TypeInv

(* A new attempt.                                                          *)
LEMMA TypeFresh ==
  ASSUME TypeInv, FreshAttempt, pc \in {"spawn", "retry"},
         pc' \in {"spawn", "read", "retry", "done"},
         pc' \in {"spawn", "retry"} => attempt = 0,
         threads' \in {threads, threads \cup {attempt + 1}}
  PROVE  TypeInv'
<1>0. attempt \in {0, 1}
  BY DEF TypeInv, Counted
<1>1. /\ kind' = kind /\ permission' = permission /\ inbound' = inbound
      /\ attempt' = attempt + 1 /\ given' = Given /\ heard' = 0 /\ reports' = 0
      /\ found' = None
      /\ final' = FALSE /\ failed' = FALSE /\ discovered' = None /\ pending' = 0
      /\ late' = late /\ asked' = asked /\ holder' = holder
  BY DEF FreshAttempt, turnVars
<1>2. final' \in BOOLEAN /\ failed' \in BOOLEAN /\ late' \in BOOLEAN
  BY <1>1 DEF TypeInv, TypeOK
<1>3. Given \in {None, inbound} /\ (attempt = 0 => Given = inbound) /\ (attempt = 1 => Given = None)
  BY <1>0 DEF Given
<1>4. attempt' \in 0 .. 2 /\ heard' \in 0 .. MaxTexts /\ pending' \in 0 .. asked'
      /\ reports' \in 0 .. MaxReports
      /\ asked' \in 0 .. MaxAsks /\ holder' \in 0 .. attempt' /\ threads' \subseteq 1 .. attempt'
  BY <1>0, <1>1, AgentAssumption, SMT DEF TypeInv, TypeOK
<1>5. {given', discovered', found'} \subseteq Ids /\ kind' \in Kinds /\ permission' \in BOOLEAN
      /\ inbound' \in {None, Old}
  BY <1>1, <1>3 DEF TypeInv, TypeOK, Ids
<1>6. TypeOK'
  BY <1>2, <1>4, <1>5 DEF TypeOK
<1>7. Counted'
  BY <1>0, <1>1, <1>3, SMT DEF Counted, Live
<1> QED
  BY <1>6, <1>7 DEF TypeInv

(* A step within the attempt: pc goes forward.                             *)
Within ==
  /\ UNCHANGED <<turnVars, attempt, given>>
  /\ pc' = "retry" => attempt = 1
  /\ pc' = "spawn" => pc = "spawn"
  /\ (pc' \in {"read", "ask", "eof"}) => Live
  /\ pc' \in {"spawn", "read", "ask", "eof", "retry", "done"}

(* A step within the attempt keeps the invariant.                          *)
LEMMA TypeWithin ==
  ASSUME TypeInv, Within, attempt = 0 => pc' = "spawn",
         heard' \in {heard, heard + 1}, heard' # heard => heard < MaxTexts,
         reports' \in {reports, reports + 1}, reports' # reports => reports < MaxReports,
         discovered' \in Ids, found' \in Ids,
         final' \in BOOLEAN, failed' \in BOOLEAN, late' \in BOOLEAN,
         asked' \in {asked, asked + 1}, asked' # asked => asked < MaxAsks,
         pending' \in {pending, 0, asked'},
         holder' \in {holder, 0} \cup threads, threads' \subseteq threads
  PROVE  TypeInv'
<1>1. /\ kind' = kind /\ permission' = permission /\ inbound' = inbound
      /\ attempt' = attempt /\ given' = given
  BY DEF Within, turnVars
<1>2. attempt' \in 0 .. 2 /\ heard' \in 0 .. MaxTexts /\ asked' \in 0 .. MaxAsks
      /\ reports' \in 0 .. MaxReports
  BY <1>1, AgentAssumption, SMT DEF TypeInv, TypeOK
<1>3. pending' \in 0 .. asked'
  BY <1>1, AgentAssumption, SMT DEF TypeInv, TypeOK
<1>4. holder' \in 0 .. attempt' /\ threads' \subseteq 1 .. attempt'
  BY <1>1, SMT DEF TypeInv, TypeOK
<1>5. {given', discovered', found'} \subseteq Ids /\ kind' \in Kinds /\ permission' \in BOOLEAN
      /\ inbound' \in {None, Old} /\ pc' \in {"spawn", "read", "ask", "eof", "retry", "done"}
  BY <1>1 DEF TypeInv, TypeOK, Within
<1>6. TypeOK'
  BY <1>2, <1>3, <1>4, <1>5 DEF TypeOK
<1>7. Counted'
  BY <1>1 DEF Within, TypeInv, Counted, Live
<1> QED
  BY <1>6, <1>7 DEF TypeInv

(* Every action starts an attempt or stays within one.                     *)
LEMMA TypeNext == TypeInv /\ [Next]_vars => TypeInv'
<1> SUFFICES ASSUME TypeInv, [Next]_vars PROVE TypeInv'
  OBVIOUS
<1> USE DEF turnVars
<1>1. /\ Counted /\ attempt \in 0 .. 2 /\ heard \in 0 .. MaxTexts /\ asked \in 0 .. MaxAsks
      /\ given \in Ids /\ discovered \in Ids /\ found \in Ids
      /\ final \in BOOLEAN /\ failed \in BOOLEAN /\ late \in BOOLEAN
      /\ inbound \in {None, Old} /\ threads \subseteq 1 .. attempt
      /\ pc \in {"spawn", "read", "ask", "eof", "retry", "done"}
  BY DEF TypeInv, TypeOK
<1>2. CliIds \subseteq Ids
  BY <1>1 DEF CliIds, Ids
<1>3. \A id \in Ids : Discovered(id) \in Ids
  BY <1>1 DEF Discovered
<1>4. attempt = 0 => pc = "spawn"
  BY <1>1 DEF Counted
<1>5. CASE Spawn \/ SpawnFails \/ DownloadFails
  <2>1. FreshAttempt /\ pc \in {"spawn", "retry"}
    BY <1>5 DEF Spawn, SpawnFails, DownloadFails
  <2>2. threads' \in {threads, threads \cup {attempt + 1}}
    BY <1>5 DEF Spawn, SpawnFails, DownloadFails
  <2>3. pc' \in {"spawn", "read", "retry", "done"} /\ (pc' \in {"spawn", "retry"} => attempt = 0)
    BY <1>5 DEF Spawn, SpawnFails, DownloadFails, Given
  <2> QED
    BY <2>1, <2>2, <2>3, TypeFresh
<1>6. CASE Unsupported
  <2>1. /\ attempt' = attempt + 1 /\ attempt \in {0, 1} /\ given' = Given
        /\ failed' = TRUE /\ pc' = "done"
        /\ UNCHANGED <<kind, permission, inbound, heard, reports, found, final, discovered, asked,
                       pending, late, holder, threads>>
    BY <1>1, <1>6 DEF Unsupported, Counted, askVars, stdinVars
  <2>2. failed' \in BOOLEAN /\ final' \in BOOLEAN /\ late' \in BOOLEAN
    BY <1>1, <2>1
  <2>3. attempt' \in 0 .. 2 /\ holder' \in 0 .. attempt' /\ threads' \subseteq 1 .. attempt'
        /\ pending' \in 0 .. asked' /\ attempt' # 0
    BY <1>1, <2>1, SMT DEF TypeInv, TypeOK
  <2>4. given' \in Ids
    BY <1>1, <2>1 DEF Given, Ids
  <2>5. TypeOK'
    BY <1>1, <2>1, <2>2, <2>3, <2>4 DEF TypeInv, TypeOK
  <2>6. Counted'
    BY <2>1, <2>3 DEF Counted, Live
  <2> QED
    BY <2>5, <2>6 DEF TypeInv
<1>7. ASSUME NEW streamed, NEW body \in BOOLEAN, Hear(streamed, body) PROVE TypeInv'
  <2>1. /\ Within /\ attempt # 0 /\ heard < MaxTexts /\ heard' = heard + 1
        /\ UNCHANGED <<reports, found, failed, late, asked, pending, holder, threads>>
    BY <1>1, <1>7 DEF Hear, Within, Live, Counted, askVars, stdinVars
  <2>2. discovered' = discovered
    BY <1>7 DEF Hear, EmitPartial, emitVars
  <2>3. final' \in BOOLEAN
    BY <1>1, <1>7 DEF Hear
  <2>4. failed' \in BOOLEAN /\ late' \in BOOLEAN /\ found' \in Ids /\ discovered' \in Ids
    BY <1>1, <2>1, <2>2
  <2>5. holder' \in {holder, 0} \cup threads /\ threads' \subseteq threads
        /\ pending' \in {pending, 0, asked'} /\ asked' \in {asked, asked + 1}
        /\ (asked' # asked => asked < MaxAsks)
        /\ reports' \in {reports, reports + 1} /\ (reports' # reports => reports < MaxReports)
    BY <2>1
  <2> QED
    BY <2>1, <2>3, <2>4, <2>5, TypeWithin
<1>8. CASE \/ \E id \in CliIds : ReadThreadStarted(id)
           \/ \E result \in Results : ReadResult(result) \/ ReadPlainResult(result)
           \/ ReadEof \/ ReadFails
  <2>1. /\ attempt # 0 /\ heard' = heard
        /\ UNCHANGED <<late, asked, pending, holder, threads>>
    BY <1>1, <1>4, <1>8 DEF ReadThreadStarted, ReadResult, ReadPlainResult, Report,
       ReadEof, ReadFails,
       cliVars, askVars, stdinVars
  <2>2. Within
    BY <1>1, <1>4, <1>8 DEF ReadThreadStarted, ReadResult, ReadPlainResult, Report,
       ReadEof, ReadFails,
       AfterFailure, Within, Live, cliVars
  <2>3. found' \in Ids
    BY <1>1, <1>2, <1>8 DEF ReadThreadStarted, ReadResult, ReadPlainResult, Report,
       ReadEof, ReadFails,
       cliVars, Results
  <2>4. discovered' \in Ids
    BY <1>1, <1>2, <1>3, <1>8 DEF ReadThreadStarted, ReadResult, ReadPlainResult, Report,
       ReadEof, ReadFails,
       emitVars, EmitTerminal, Results
  <2>5. final' \in BOOLEAN
    <3>1. ASSUME NEW result \in Results, ReadResult(result) PROVE final' \in BOOLEAN
      <4>1. CASE final' = final
        BY <1>1, <4>1
      <4>2. CASE final' = (final \/ "result" \in result.says)
        BY <4>2, Zenon
      <4> QED
        BY <3>1, <4>1, <4>2, Zenon DEF ReadResult
    <3>2. ASSUME NEW result \in Results, ReadPlainResult(result) PROVE final' \in BOOLEAN
      BY <3>2, Zenon DEF ReadPlainResult
    <3>3. ASSUME \/ \E id \in CliIds : ReadThreadStarted(id)
                 \/ ReadEof \/ ReadFails
          PROVE  final' \in BOOLEAN
      BY <1>1, <3>3 DEF ReadThreadStarted, ReadEof, ReadFails, cliVars
    <3> QED
      BY <1>8, <3>1, <3>2, <3>3
  <2>6. failed' \in BOOLEAN /\ late' \in BOOLEAN
    BY <1>1, <1>8, <2>1 DEF ReadThreadStarted, ReadResult, ReadPlainResult, Report,
       ReadEof, ReadFails,
       cliVars
  <2>7. holder' \in {holder, 0} \cup threads /\ threads' \subseteq threads
        /\ pending' \in {pending, 0, asked'} /\ asked' \in {asked, asked + 1}
        /\ (asked' # asked => asked < MaxAsks)
    BY <2>1
  <2>8. reports' \in {reports, reports + 1} /\ (reports' # reports => reports < MaxReports)
    BY <1>8 DEF ReadThreadStarted, ReadResult, ReadPlainResult, Report, ReadEof, ReadFails, cliVars
  <2> QED
    BY <2>1, <2>2, <2>3, <2>4, <2>5, <2>6, <2>7, <2>8, TypeWithin
<1>9. ASSUME NEW ok \in BOOLEAN, Exit(ok), discovered' \in Ids PROVE TypeInv'
  <2>1. /\ attempt # 0
        /\ UNCHANGED <<heard, reports, found, final, failed, late, asked, pending, holder,
                       threads>>
    BY <1>1, <1>4, <1>9 DEF Exit, cliVars, askVars, stdinVars
  <2>2. Within
    BY <1>1, <1>4, <1>9 DEF Exit, AfterFailure, Within, Live, cliVars
  <2>3. found' \in Ids /\ final' \in BOOLEAN /\ failed' \in BOOLEAN /\ late' \in BOOLEAN
    BY <1>1, <2>1
  <2>4. holder' \in {holder, 0} \cup threads /\ threads' \subseteq threads
        /\ pending' \in {pending, 0, asked'} /\ asked' \in {asked, asked + 1}
        /\ (asked' # asked => asked < MaxAsks)
        /\ reports' \in {reports, reports + 1} /\ (reports' # reports => reports < MaxReports)
    BY <2>1
  <2> QED
    BY <1>9, <2>1, <2>2, <2>3, <2>4, TypeWithin
<1>10. CASE Exits
  <2> PICK success \in BOOLEAN :
        \/ StreamExits(success) \/ CodebuddyExits(success)
        \/ \E id \in CliIds : RecursiveExits(success, id) \/ AgyExits(success, id)
    BY <1>10 DEF Exits
  <2>1. CASE StreamExits(success)
    <3>1. Exit(Succeeds(success, found # None)) /\ discovered' \in Ids
      BY <1>1, <1>3, <2>1 DEF StreamExits, EmitResultUnlessFailed, EmitTerminal, emitVars
    <3>2. Succeeds(success, found # None) \in BOOLEAN
      BY DEF Succeeds
    <3> QED
      BY <3>1, <3>2, <1>9
  <2>2. CASE CodebuddyExits(success)
    <3>1. Exit(Succeeds(success, found # None)) /\ discovered' \in Ids
      BY <1>1, <1>3, <2>2 DEF CodebuddyExits, EmitFromRun, FlushOnly
    <3>2. Succeeds(success, found # None) \in BOOLEAN
      BY DEF Succeeds
    <3> QED
      BY <3>1, <3>2, <1>9
  <2>3. ASSUME NEW id \in CliIds, RecursiveExits(success, id) PROVE TypeInv'
    <3> DEFINE sid == PreferSessionId(id)
               ok == Succeeds(success, heard > 0 \/ failed \/ final \/ sid # None)
    <3>1. sid \in Ids
      BY <1>1, <1>2 DEF PreferSessionId
    <3>2. Exit(ok) /\ EmitResultUnlessFailed(sid)
      BY <2>3 DEF RecursiveExits
    <3>3. discovered' \in Ids
      BY <1>1, <1>3, <3>1, <3>2 DEF EmitResultUnlessFailed, EmitTerminal, emitVars
    <3>4. ok \in BOOLEAN
      BY DEF Succeeds
    <3> HIDE DEF ok
    <3> QED
      BY <3>2, <3>3, <3>4, <1>9
  <2>4. ASSUME NEW id \in CliIds, AgyExits(success, id) PROVE TypeInv'
    <3> DEFINE ok == Succeeds(success, final)
    <3>1. Exit(ok)
      BY <2>4 DEF AgyExits
    <3>2. ConversationId(id) \in Ids
      BY <1>1, <1>2 DEF ConversationId
    <3>3. discovered' \in Ids
      BY <1>1, <1>3, <2>4, <3>2 DEF AgyExits, EmitFromRun, emitVars
    <3>4. ok \in BOOLEAN
      BY <1>1 DEF Succeeds
    <3> HIDE DEF ok
    <3> QED
      BY <3>1, <3>3, <3>4, <1>9
  <2> QED
    BY <2>1, <2>2, <2>3, <2>4
<1>11. CASE ReadControlRequest \/ TakeResponse \/ GiveUp
  <2>1. /\ attempt # 0 /\ holder' = holder /\ threads' = threads
        /\ heard' = heard /\ reports' = reports /\ found' = found
        /\ final' = final /\ failed' = failed
        /\ discovered' = discovered
    BY <1>1, <1>4, <1>11 DEF ReadControlRequest, TakeResponse, GiveUp, Reply, cliVars, emitVars,
       stdinVars
  <2>2. Within
    BY <1>1, <1>4, <1>11 DEF ReadControlRequest, TakeResponse, GiveUp, Reply, Within, Live, cliVars
  <2>3. asked' \in {asked, asked + 1} /\ (asked' # asked => asked < MaxAsks)
        /\ pending' \in {pending, 0, asked'}
    BY <1>1, <1>11 DEF ReadControlRequest, TakeResponse, GiveUp, Reply
  <2>4. late' \in BOOLEAN
    BY <1>1, <1>11 DEF ReadControlRequest, TakeResponse, GiveUp
  <2>5. final' \in BOOLEAN /\ failed' \in BOOLEAN
    BY <1>1, <2>1
  <2> QED
    BY <1>1, <2>1, <2>2, <2>3, <2>4, <2>5, TypeWithin
<1>12. CASE \/ \E t \in threads : LockStdin(t)
            \/ ReadStdin \/ StdinEnds \/ BridgeAnswers \/ BridgeGoes
  <2>1. /\ pc' = pc /\ UNCHANGED <<attempt, cliVars, emitVars, turnVars>>
        /\ UNCHANGED <<asked, pending, late>>
    BY <1>12 DEF LockStdin, ReadStdin, StdinEnds, BridgeAnswers, BridgeGoes, askVars
  <2>2. Within
    BY <1>1, <2>1 DEF Within, Live, Counted, cliVars
  <2>3. holder' \in {holder, 0} \cup threads /\ threads' \subseteq threads
    BY <1>12 DEF LockStdin, ReadStdin, StdinEnds, BridgeAnswers, BridgeGoes
  <2>4. final' \in BOOLEAN /\ failed' \in BOOLEAN /\ late' \in BOOLEAN
    BY <1>1, <2>1 DEF cliVars
  <2> QED
    BY <1>1, <1>4, <2>1, <2>2, <2>3, <2>4, TypeWithin DEF cliVars, emitVars
<1>13. CASE UNCHANGED vars
  BY <1>13 DEF TypeInv, TypeOK, Counted, Live, vars, cliVars, emitVars, askVars, stdinVars
<1>14. CASE ReadAssistant \/ ReadChunk \/ ReadItem \/ ReadOutput
  BY <1>7, <1>14 DEF ReadAssistant, ReadChunk, ReadItem, ReadOutput
<1> QED
  BY <1>5, <1>6, <1>8, <1>10, <1>11, <1>12, <1>13, <1>14 DEF Next, Reads

(* The variables keep their types: with_session_resume_fallback makes two  *)
(* attempts at most, and the ids are those of the turn and of the CLI.     *)
THEOREM TypeCorrect == Spec => []TypeOK
<1>1. Spec => []TypeInv
  BY TypeInit, TypeNext, PTL DEF Spec
<1>2. TypeInv => TypeOK
  BY DEF TypeInv
<1> QED
  BY <1>1, <1>2, PTL

-----------------------------------------------------------------------------
(* Unless a request was given up, there is at most one answer on its way,  *)
(* and it is for the request that is waited for.                           *)
OnItsWay ==
  ~ late => \/ pc # "ask" /\ channel = <<>> /\ stdin = <<>> /\ answered = asked
            \/ /\ pc = "ask" /\ pending = asked
               /\ \/ channel = <<>> /\ stdin = <<>> /\ answered = asked - 1
                  \/ channel = <<>> /\ stdin = <<>> /\ answered = asked
                  \/ channel = <<>> /\ stdin = <<asked>> /\ answered = asked
                  \/ channel = <<asked>> /\ stdin = <<>> /\ answered = asked

(* The invariant of the permission mode.                                   *)
AnswersInv == OnItsWay /\ AnswersMatch /\ (~ late => replied \in Seq(Nat \X Nat))

(* Nothing was asked yet.                                                  *)
LEMMA AnswersInit == Init => AnswersInv
<1> SUFFICES ASSUME Init PROVE AnswersInv
  OBVIOUS
<1>1. replied \in Seq(Nat \X Nat) /\ AnswersMatch
  BY EmptySeq DEF Init, AnswersMatch
<1> QED
  BY <1>1 DEF Init, AnswersInv, OnItsWay

(* An answer goes from the bridge over stdin and the channel to the CLI,   *)
(* while the request waits.                                                *)
LEMMA AnswersNext == TypeOK /\ AnswersInv /\ [Next]_vars => AnswersInv'
<1> SUFFICES ASSUME TypeOK, AnswersInv, [Next]_vars PROVE AnswersInv'
  OBVIOUS
<1>1. asked \in Nat /\ pending \in Nat /\ OnItsWay /\ AnswersMatch
      /\ (~ late => replied \in Seq(Nat \X Nat))
  BY AgentAssumption, SMT DEF TypeOK, AnswersInv
(* What leaves the replies alone.                                          *)
<1>2. ASSUME UNCHANGED <<replied, late>>, OnItsWay' PROVE AnswersInv'
  BY <1>1, <1>2 DEF AnswersInv, AnswersMatch
<1>3. ASSUME UNCHANGED <<replied, late, asked, pending, channel, stdin, answered>>,
             pc' = pc \/ "ask" \notin {pc, pc'}
      PROVE  AnswersInv'
  BY <1>1, <1>2, <1>3 DEF OnItsWay
<1>4. CASE Spawn \/ SpawnFails \/ DownloadFails
  <2>1. pc # "ask" /\ pc' # "ask" /\ late' = late /\ stdin' = stdin /\ answered' = answered
        /\ asked' = asked /\ channel' = <<>> /\ replied' = <<>>
    BY <1>4 DEF Spawn, SpawnFails, DownloadFails, FreshAttempt
  <2>2. OnItsWay'
    BY <1>1, <2>1 DEF OnItsWay
  <2>3. replied' \in Seq(Nat \X Nat) /\ AnswersMatch'
    BY <2>1, EmptySeq DEF AnswersMatch
  <2> QED
    BY <2>2, <2>3 DEF AnswersInv
<1>5. CASE Unsupported
  BY <1>3, <1>5 DEF Unsupported, askVars, stdinVars
<1>6. CASE Reads
  BY <1>3, <1>6 DEF Reads, ReadAssistant, ReadChunk, ReadItem, ReadOutput, Hear, ReadThreadStarted,
     ReadResult, ReadPlainResult, Report, ReadEof, ReadFails, AfterFailure, askVars, stdinVars
<1>7. ASSUME NEW ok, Exit(ok) PROVE AnswersInv'
  BY <1>3, <1>7 DEF Exit, AfterFailure, askVars, stdinVars
<1>8. CASE Exits
  BY <1>7, <1>8 DEF Exits, StreamExits, CodebuddyExits, RecursiveExits, AgyExits
<1>9. CASE ReadControlRequest
  <2>1. /\ pc = "read" /\ pc' = "ask" /\ asked' = asked + 1 /\ pending' = asked + 1
        /\ UNCHANGED <<replied, late, channel, stdin, answered>>
    BY <1>9 DEF ReadControlRequest, stdinVars
  <2>2. OnItsWay'
    BY <1>1, <2>1, SMT DEF OnItsWay
  <2> QED
    BY <2>1, <2>2, <1>2
<1>10. CASE TakeResponse
  <2> SUFFICES ASSUME ~ late PROVE AnswersInv'
    BY <1>10 DEF TakeResponse, AnswersInv, OnItsWay, AnswersMatch
  <2>1. pc = "ask" /\ channel # <<>> /\ channel' = Tail(channel) /\ late' = late
        /\ Reply(Head(channel))
    BY <1>10 DEF TakeResponse
  <2>2. channel = <<asked>> /\ stdin = <<>> /\ answered = asked /\ pending = asked
    BY <1>1, <2>1 DEF OnItsWay
  <2>3. Head(channel) = pending /\ Tail(channel) = <<>>
    BY <2>2
  <2>4. pc' # "ask" /\ stdin' = stdin /\ answered' = answered /\ asked' = asked
    BY <2>1 DEF Reply, stdinVars
  <2>5. OnItsWay'
    BY <2>1, <2>2, <2>3, <2>4 DEF OnItsWay
  <2>6. replied' = replied \/ replied' = Append(replied, <<pending, pending>>)
    BY <2>1, <2>3 DEF Reply
  <2>7. CASE replied' = replied
    BY <1>1, <2>1, <2>5, <2>7 DEF AnswersInv, AnswersMatch
  <2>8. CASE replied' = Append(replied, <<pending, pending>>)
    <3>1. <<pending, pending>> \in Nat \X Nat
      BY <1>1
    <3>2. /\ replied' \in Seq(Nat \X Nat)
          /\ Len(replied') = Len(replied) + 1
          /\ \A i \in 1 .. Len(replied) : replied'[i] = replied[i]
          /\ replied'[Len(replied) + 1] = <<pending, pending>>
      BY <1>1, <2>8, <3>1, AppendProperties
    <3>3. \A i \in DOMAIN replied' : replied'[i][1] = replied'[i][2]
      <4> SUFFICES ASSUME NEW i \in DOMAIN replied' PROVE replied'[i][1] = replied'[i][2]
        OBVIOUS
      <4>1. i \in 1 .. Len(replied) \/ i = Len(replied) + 1
        BY <1>1, <3>2
      <4>2. CASE i \in 1 .. Len(replied)
        <5>1. i \in DOMAIN replied /\ replied'[i] = replied[i]
          BY <1>1, <3>2, <4>2
        <5>2. replied[i][1] = replied[i][2]
          BY <1>1, <5>1 DEF AnswersMatch
        <5> QED
          BY <5>1, <5>2
      <4>3. CASE i = Len(replied) + 1
        BY <3>2, <4>3
      <4> QED
        BY <4>1, <4>2, <4>3
    <3> QED
      BY <2>1, <2>5, <3>2, <3>3 DEF AnswersInv, AnswersMatch
  <2> QED
    BY <2>6, <2>7, <2>8
<1>11. CASE GiveUp
  BY <1>11 DEF GiveUp, AnswersInv, OnItsWay, AnswersMatch
<1>12. CASE (\E t \in threads : LockStdin(t)) \/ StdinEnds \/ BridgeGoes
  BY <1>3, <1>12 DEF LockStdin, StdinEnds, BridgeGoes, askVars
<1>13. CASE ReadStdin
  <2> SUFFICES ASSUME ~ late PROVE AnswersInv'
    BY <1>13 DEF ReadStdin, AnswersInv, OnItsWay, AnswersMatch
  <2>1. /\ stdin # <<>> /\ stdin' = Tail(stdin)
        /\ channel' \in {Append(channel, Head(stdin)), channel}
        /\ UNCHANGED <<replied, late, asked, pending, answered, pc>>
    BY <1>13 DEF ReadStdin
  <2>2. pc = "ask" /\ channel = <<>> /\ stdin = <<asked>> /\ answered = asked /\ pending = asked
    BY <1>1, <2>1 DEF OnItsWay
  <2>3. Tail(stdin) = <<>> /\ Append(channel, Head(stdin)) = <<asked>>
    BY <2>2
  <2>4. OnItsWay'
    BY <2>1, <2>2, <2>3 DEF OnItsWay
  <2> QED
    BY <2>1, <2>4, <1>2
<1>14. CASE BridgeAnswers
  <2> SUFFICES ASSUME ~ late PROVE AnswersInv'
    BY <1>14 DEF BridgeAnswers, AnswersInv, OnItsWay, AnswersMatch, askVars
  <2>1. /\ answered < asked /\ answered' = answered + 1 /\ stdin' = Append(stdin, answered + 1)
        /\ UNCHANGED <<replied, late, asked, pending, channel, pc>>
    BY <1>14 DEF BridgeAnswers, askVars
  <2>2. pc = "ask" /\ channel = <<>> /\ stdin = <<>> /\ answered = asked - 1 /\ pending = asked
    BY <1>1, <2>1 DEF OnItsWay
  <2>3. answered + 1 = asked
    BY <1>1, <2>2
  <2>4. Append(stdin, answered + 1) = <<asked>>
    BY <2>2, <2>3
  <2>5. OnItsWay'
    BY <2>1, <2>2, <2>3, <2>4 DEF OnItsWay
  <2> QED
    BY <2>1, <2>5, <1>2
<1>15. CASE UNCHANGED vars
  BY <1>3, <1>15 DEF vars, askVars, stdinVars
<1> QED
  BY <1>4, <1>5, <1>6, <1>8, <1>9, <1>10, <1>11, <1>12, <1>13, <1>14, <1>15 DEF Next

(* As long as no request timed out, stream_claude_permission writes to the *)
(* CLI the answer to the request that the CLI waits for, although it takes *)
(* whichever answer is first in the channel.                               *)
THEOREM RightAnswers == Spec => []AnswersMatch
<1>1. Spec => []AnswersInv
  BY TypeCorrect, AnswersInit, AnswersNext, PTL DEF Spec
<1>2. AnswersInv => AnswersMatch
  BY DEF AnswersInv
<1> QED
  BY <1>1, <1>2, PTL

-----------------------------------------------------------------------------
(* What can be on stdout.                                                  *)
Events == [attempt : Nat, type : {"partial", "permission_request", "result", "error"},
           text : Nat, id : Ids, heard : Nat]

(* No event is of an attempt to come.                                      *)
Shape ==
  /\ out \in Seq(Events) /\ buffered \in Seq(Nat)
  /\ \A i \in DOMAIN out : out[i].attempt <= attempt

Partial(e) == e.type = "partial"
Request(e) == e.type = "permission_request"

(* Once the id is known nothing waits for it.                              *)
Flushed == Live /\ CurrentId(given, discovered) # None => buffered = <<>>

(* Until an error is out, no id was looked for, and what is on stdout has  *)
(* the resumed one; after it, the one that the error had, unless another   *)
(* report came.                                                            *)
Stamps ==
  Live =>
    /\ ~ failed =>
         /\ discovered = None
         /\ \A i \in Said : Partial(out[i]) \/ Request(out[i])
         /\ \A i \in Streamed : given # None /\ out[i].id = given
    /\ failed =>
         /\ kind \in {"claude-code", "recursive"} /\ reports >= 1
         /\ reports <= 1 =>
              \A i \in Said : ~ Request(out[i]) => out[i].id = CurrentId(given, discovered)

(* The invariant of the events.                                            *)
EmitInv == Shape /\ PartialsAsSaid /\ Flushed /\ Stamps /\ OneStamp

(* What the proofs below need of the types.                                *)
LEMMA EmitTyped == TypeInv => /\ attempt \in Nat /\ heard \in Nat /\ reports \in Nat
                              /\ given \in Ids /\ inbound \in Ids /\ discovered \in Ids
  BY AgentAssumption, SMT DEF TypeInv, TypeOK, Ids

(* While the CLI runs, the events have one id because they have this one.  *)
LEMMA Stamped == Live /\ Stamps => OneStamp
<1> SUFFICES ASSUME Live, Stamps, reports <= 1,
                    NEW i \in Said, ~ Request(out[i]), NEW j \in Said, ~ Request(out[j])
             PROVE  out[i].id = out[j].id /\ (given # None => out[i].id = given)
  BY DEF OneStamp, Request
<1>1. CASE failed
  BY <1>1 DEF Stamps, CurrentId
<1>2. CASE ~ failed
  BY <1>2 DEF Stamps, Streamed, Partial
<1> QED
  BY <1>1, <1>2

LEMMA StampedNext == Live' /\ Stamps' => OneStamp'
BY Stamped, PTL

(* What waits of the texts, as a sequence.                                 *)
LEMMA Texts ==
  ASSUME NEW m \in Nat, NEW n \in Nat
  PROVE  /\ [i \in 1 .. m |-> n + i] \in Seq(Nat)
         /\ Len([i \in 1 .. m |-> n + i]) = m
         /\ \A j \in 1 .. m : [i \in 1 .. m |-> n + i][j] = n + j
<1>1. \A i \in 1 .. m : n + i \in Nat
  OBVIOUS
<1> QED
  BY <1>1

LEMMA SameTexts ==
  ASSUME NEW s \in Seq(Nat), NEW m \in Nat, NEW n \in Nat, Len(s) = m,
         \A j \in 1 .. m : s[j] = n + j
  PROVE  s = [i \in 1 .. m |-> n + i]
<1> DEFINE c == [i \in 1 .. m |-> n + i]
<1>1. c \in Seq(Nat) /\ Len(c) = m /\ \A j \in 1 .. m : c[j] = n + j
  BY Texts
<1> HIDE DEF c
<1>2. \A j \in 1 .. Len(s) : s[j] = c[j]
  BY <1>1
<1>3. s = c
  BY <1>1, <1>2, SeqEqual
<1> QED
  BY <1>3 DEF c

LEMMA NoTexts == \A n \in Nat : [i \in 1 .. 0 |-> n + i] = <<>>
<1> SUFFICES ASSUME NEW n \in Nat PROVE [i \in 1 .. 0 |-> n + i] = <<>>
  OBVIOUS
<1>1. [i \in 1 .. 0 |-> n + i] \in Seq(Nat) /\ Len([i \in 1 .. 0 |-> n + i]) = 0
  BY Texts
<1> QED
  BY <1>1, EmptySeq

(* What was on stdout when a terminal event came is there still, and what  *)
(* is new comes after it.                                                  *)
LEMMA StillCovered ==
  ASSUME PartialsAsSaid, kind # "agy", NEW L \in Nat,
         \A i \in Said : i \in 1 .. L /\ out'[i] = out[i],
         Streamed \subseteq Streamed',
         \A k \in Streamed' : k \in Streamed \/ (k \in Nat /\ k > L),
         NEW i \in Said, Terminal(out[i])
  PROVE  { out'[j].text : j \in { k \in Streamed' : k < i } } = 1 .. out'[i].heard
<1>1. Streamed \subseteq Said
  BY DEF Streamed
<1>2. { k \in Streamed' : k < i } = { k \in Streamed : k < i }
  OBVIOUS
<1>3. \A j \in { k \in Streamed : k < i } : out'[j].text = out[j].text
  BY <1>1
<1>4. { out[j].text : j \in { k \in Streamed : k < i } } = 1 .. out[i].heard
  BY DEF PartialsAsSaid
<1> QED
  BY <1>2, <1>3, <1>4

(* At most the error of read_turn_or_error is on stdout.                   *)
LEMMA EmitInit == Init => EmitInv
<1> SUFFICES ASSUME Init PROVE EmitInv
  OBVIOUS
<1> DEFINE e == [attempt |-> 0, type |-> "error", text |-> 0, id |-> None, heard |-> 0]
<1>1. out = <<>> \/ out = <<e>>
  BY DEF Init, Event
<1>2. e \in Events /\ e.attempt = 0 /\ e.type = "error" /\ e.heard = 0
  BY DEF Events, Ids
<1> HIDE DEF e
<1>3. out \in Seq(Events)
  <2>1. <<e>> \in Seq(Events) /\ <<>> \in Seq(Events)
    BY <1>2
  <2> QED
    BY <1>1, <2>1
<1>4. \A i \in DOMAIN out : i = 1 /\ out[i] = e
  BY <1>1, <1>2
<1>5. Shape
  BY <1>2, <1>3, <1>4, EmptySeq DEF Init, Shape
<1>6. OneStamp
  BY <1>4 DEF Init, OneStamp, Said
<1>7. ~ Live
  BY DEF Init, Live
<1>8. PartialsAsSaid
  <2>1. Streamed = {}
    BY <1>2, <1>4 DEF Streamed, Said
  <2>2. 1 .. 0 = {}
    OBVIOUS
  <2>3. \A i \in Said : out[i].heard = 0
    BY <1>2, <1>4 DEF Said
  <2> QED
    BY <1>7, <2>1, <2>2, <2>3 DEF PartialsAsSaid, Live
<1> QED
  BY <1>5, <1>6, <1>7, <1>8 DEF EmitInv, Flushed, Stamps

(* The events stay as they are.                                            *)
LEMMA EmitQuiet ==
  ASSUME TypeInv, EmitInv, UNCHANGED <<kind, attempt, given, out>>,
         reports' \in {reports, reports + 1},
         Live' => /\ Live /\ UNCHANGED <<heard, failed, discovered, buffered>>,
         buffered' \in {buffered, <<>>}
  PROVE  EmitInv'
<1>1. Said' = Said /\ Streamed' = Streamed
  BY DEF Said, Streamed
<1>2. reports \in Nat /\ (reports' <= 1 => reports <= 1) /\ (reports >= 1 => reports' >= 1)
  BY EmitTyped
<1>3. Shape'
  BY EmptySeq DEF EmitInv, Shape
<1>4. OneStamp'
  BY <1>1, <1>2 DEF EmitInv, OneStamp
<1>5. PartialsAsSaid'
  BY <1>1 DEF EmitInv, PartialsAsSaid, Live
<1>6. Flushed'
  BY DEF EmitInv, Flushed
<1>7. Stamps'
  BY <1>1, <1>2 DEF EmitInv, Stamps
<1> QED
  BY <1>3, <1>4, <1>5, <1>6, <1>7 DEF EmitInv

(* A new attempt has said nothing.                                         *)
LEMMA EmitFresh ==
  ASSUME TypeInv, EmitInv, FreshAttempt PROVE EmitInv'
<1>1. /\ attempt' = attempt + 1 /\ out' = out /\ heard' = 0 /\ failed' = FALSE
      /\ buffered' = <<>> /\ discovered' = None /\ kind' = kind
  BY DEF FreshAttempt, turnVars
<1>2. attempt \in Nat /\ out \in Seq(Events) /\ \A i \in DOMAIN out : out[i].attempt <= attempt
  BY EmitTyped DEF EmitInv, Shape
<1>3. \A i \in DOMAIN out : out[i].attempt \in Nat
  <2> SUFFICES ASSUME NEW i \in DOMAIN out PROVE out[i].attempt \in Nat
    OBVIOUS
  <2>1. out[i] \in Events
    BY <1>2
  <2> QED
    BY <2>1 DEF Events
<1>4. Said' = {}
  <2> SUFFICES ASSUME NEW i \in DOMAIN out, out[i].attempt = attempt + 1 PROVE FALSE
    BY <1>1 DEF Said
  <2> QED
    BY <1>2, <1>3
<1>5. Streamed' = {}
  BY <1>4 DEF Streamed
<1>6. Shape'
  <2>1. ASSUME NEW i \in DOMAIN out PROVE out[i].attempt <= attempt + 1
    BY <1>2, <1>3
  <2> QED
    BY <1>1, <1>2, <2>1, EmptySeq DEF Shape
<1>7. OneStamp'
  BY <1>4 DEF OneStamp
<1>8. PartialsAsSaid'
  <2>1. 1 .. 0 = {} /\ 0 \in 0 .. 0
    OBVIOUS
  <2>2. buffered' = [i \in 1 .. 0 |-> 0 + i]
    BY <1>1, NoTexts
  <2>3. { out'[i].text : i \in Streamed' } = 1 .. 0
    BY <1>5, <2>1
  <2>4. \E n \in 0 .. heard' : /\ { out'[i].text : i \in Streamed' } = 1 .. n
                               /\ buffered' = [i \in 1 .. heard' - n |-> n + i]
    <3>1. 0 \in 0 .. heard' /\ heard' - 0 = 0
      BY <1>1
    <3> QED
      BY <2>2, <2>3, <3>1
  <2> QED
    BY <1>4, <1>5, <2>4 DEF PartialsAsSaid
<1>9. ~ failed'
  BY <1>1
<1>10. Stamps' /\ Flushed'
  BY <1>1, <1>4, <1>5, <1>9 DEF Stamps, Flushed
<1> QED
  BY <1>6, <1>7, <1>8, <1>10 DEF EmitInv

(* One event more in this attempt.                                         *)
LEMMA OneMore ==
  ASSUME TypeInv, Shape, NEW e \in Events, e.attempt = attempt,
         out' = Append(out, e), attempt' = attempt
  PROVE  /\ out' \in Seq(Events) /\ Len(out) \in Nat
         /\ \A i \in DOMAIN out' : out'[i].attempt <= attempt'
         /\ \A i \in Said : i \in 1 .. Len(out) /\ out'[i] = out[i]
         /\ out'[Len(out) + 1] = e
         /\ Said' = Said \cup {Len(out) + 1}
         /\ Streamed' = Streamed \cup (IF Partial(e) THEN {Len(out) + 1} ELSE {})
<1>1. attempt \in Nat /\ out \in Seq(Events) /\ \A i \in DOMAIN out : out[i].attempt <= attempt
  BY EmitTyped DEF Shape
<1>2. /\ out' \in Seq(Events) /\ Len(out) \in Nat
      /\ DOMAIN out = 1 .. Len(out)
      /\ Len(out') = Len(out) + 1
      /\ \A i \in 1 .. Len(out) : out'[i] = out[i]
      /\ out'[Len(out) + 1] = e
  BY <1>1, AppendProperties, LenProperties
<1>3. DOMAIN out' = DOMAIN out \cup {Len(out) + 1} /\ Len(out) + 1 \notin DOMAIN out
  BY <1>2, LenProperties, SMT
<1>4. \A i \in DOMAIN out : i \in 1 .. Len(out) /\ out'[i] = out[i]
  BY <1>2
<1>5. Said \subseteq DOMAIN out
  BY DEF Said
<1>6. Said' = Said \cup {Len(out) + 1}
  BY <1>2, <1>3, <1>4 DEF Said
<1>7. Streamed' = Streamed \cup (IF Partial(e) THEN {Len(out) + 1} ELSE {})
  <2>1. \A i \in Said : out'[i].type = out[i].type
    BY <1>4, <1>5
  <2>2. out'[Len(out) + 1].type = e.type
    BY <1>2
  <2> QED
    BY <1>6, <2>1, <2>2 DEF Streamed, Partial
<1>8. \A i \in DOMAIN out' : out'[i].attempt <= attempt'
  <2> SUFFICES ASSUME NEW i \in DOMAIN out' PROVE out'[i].attempt <= attempt
    OBVIOUS
  <2>1. CASE i \in DOMAIN out
    BY <1>1, <1>4, <2>1
  <2>2. CASE i = Len(out) + 1
    BY <1>1, <1>2, <2>2
  <2> QED
    BY <1>3, <2>1, <2>2
<1> QED
  BY <1>2, <1>4, <1>5, <1>6, <1>7, <1>8

(* A text is streamed under the id that is known, or waits behind the      *)
(* others.                                                                 *)
LEMMA EmitHear ==
  ASSUME TypeInv, EmitInv, pc = "read", kind # "agy", heard' = heard + 1,
         EmitPartial(heard + 1), UNCHANGED <<kind, pc, attempt, given, reports, failed>>
  PROVE  EmitInv'
<1> DEFINE sid == CurrentId(given, discovered)
<1>1. /\ attempt \in Nat /\ heard \in Nat /\ Live /\ Shape
      /\ out \in Seq(Events) /\ buffered \in Seq(Nat)
  BY EmitTyped DEF Live, EmitInv, Shape
<1>2. sid \in Ids /\ discovered' = discovered /\ Live'
  BY <1>1, EmitTyped DEF CurrentId, EmitPartial, Live
<1>3. PICK n \in 0 .. heard : /\ { out[i].text : i \in Streamed } = 1 .. n
                              /\ buffered = [i \in 1 .. heard - n |-> n + i]
  BY <1>1 DEF EmitInv, PartialsAsSaid, Live
<1>4. /\ n \in Nat /\ heard - n \in Nat
      /\ Len(buffered) = heard - n /\ \A j \in 1 .. heard - n : buffered[j] = n + j
  <2>1. n \in Nat /\ heard - n \in Nat
    BY <1>1
  <2> QED
    BY <1>3, <2>1, Texts
<1>5. CASE sid # None
  <2> DEFINE e == Event("partial", heard + 1, sid)
             k == Len(out) + 1
  <2>1. out' = Append(out, e) /\ buffered' = buffered /\ buffered = <<>>
    BY <1>1, <1>5 DEF EmitPartial, EmitInv, Flushed
  <2>2. n = heard
    <3>1. Len(buffered) = 0
      BY <2>1
    <3> QED
      BY <1>1, <1>4, <3>1
  <2>3. /\ e \in Events /\ e.attempt = attempt /\ e.type = "partial" /\ e.text = heard + 1
        /\ e.id = sid
    BY <1>1, <1>2 DEF Event, Events
  <2> HIDE DEF e
  <2>4. /\ out' \in Seq(Events) /\ Len(out) \in Nat
        /\ \A i \in DOMAIN out' : out'[i].attempt <= attempt'
        /\ \A i \in Said : i \in 1 .. Len(out) /\ out'[i] = out[i]
        /\ out'[k] = e
        /\ Said' = Said \cup {k}
        /\ Streamed' = Streamed \cup (IF Partial(e) THEN {k} ELSE {})
    BY <1>1, <2>1, <2>3, OneMore
  <2>5. k \in Nat /\ k > Len(out)
    BY <2>4
  <2> HIDE DEF k
  <2>6. Streamed' = Streamed \cup {k} /\ Streamed \subseteq Said
    BY <2>3, <2>4 DEF Streamed, Partial
  <2>7. Shape'
    BY <1>1, <2>1, <2>4 DEF Shape
  <2>8. \A i \in Streamed : out'[i] = out[i] /\ i \in 1 .. Len(out)
    BY <2>4, <2>6
  <2>9. { out'[i].text : i \in Streamed' } = 1 .. heard + 1
    <3>1. { out'[i].text : i \in Streamed' } = { out'[i].text : i \in Streamed } \cup {out'[k].text}
      BY <2>6
    <3>2. { out'[i].text : i \in Streamed } = { out[i].text : i \in Streamed }
      BY <2>8
    <3>3. out'[k].text = heard + 1
      BY <2>3, <2>4
    <3>4. { out[i].text : i \in Streamed } = 1 .. heard
      BY <1>3, <2>2
    <3>5. (1 .. heard) \cup {heard + 1} = 1 .. heard + 1
      BY <1>1
    <3> QED
      BY <3>1, <3>2, <3>3, <3>4, <3>5
  <2>10. ASSUME NEW i \in Streamed', NEW j \in Streamed', i < j
         PROVE  out'[i].text < out'[j].text
    <3>1. CASE i \in Streamed /\ j \in Streamed
      BY <2>8, <2>10, <3>1 DEF EmitInv, PartialsAsSaid
    <3>2. CASE i \in Streamed /\ j = k
      <4>1. out[i].text \in 1 .. heard
        BY <1>3, <2>2, <3>2
      <4>2. out'[i].text = out[i].text /\ out'[j].text = heard + 1
        BY <2>3, <2>4, <2>8, <3>2
      <4> QED
        BY <1>1, <4>1, <4>2
    <3>3. CASE i = k
      BY <2>4, <2>5, <2>6, <2>8, <2>10, <3>3
    <3> QED
      BY <2>6, <3>1, <3>2, <3>3
  <2>11. ASSUME NEW i \in Said', Terminal(out'[i])
         PROVE  { out'[j].text : j \in { l \in Streamed' : l < i } } = 1 .. out'[i].heard
    <3>1. i \in Said /\ Terminal(out[i])
      BY <2>3, <2>4, <2>11 DEF Terminal
    <3>2. PartialsAsSaid /\ Len(out) \in Nat /\ Streamed \subseteq Streamed'
      BY <2>4, <2>6 DEF EmitInv
    <3>3. \A l \in Streamed' : l \in Streamed \/ (l \in Nat /\ l > Len(out))
      BY <2>5, <2>6
    <3> QED
      BY <2>4, <3>1, <3>2, <3>3, StillCovered
  <2>12. PartialsAsSaid'
    <3>1. buffered' = [i \in 1 .. 0 |-> heard' + i]
      BY <1>1, <2>1, NoTexts
    <3>2. \E l \in 0 .. heard' : /\ { out'[i].text : i \in Streamed' } = 1 .. l
                                 /\ buffered' = [i \in 1 .. heard' - l |-> l + i]
      <4>1. heard' \in 0 .. heard' /\ heard' - heard' = 0
        BY <1>1
      <4> QED
        BY <2>9, <3>1, <4>1
    <3> QED
      BY <2>10, <2>11, <3>2 DEF PartialsAsSaid
  <2>13. Stamps'
    <3>1. CASE failed
      <4>1. ASSUME reports <= 1, NEW i \in Said', ~ Request(out'[i])
            PROVE  out'[i].id = sid
        BY <1>1, <2>3, <2>4, <3>1, <4>1 DEF EmitInv, Stamps
      <4> QED
        BY <1>1, <1>2, <3>1, <4>1 DEF EmitInv, Stamps
    <3>2. CASE ~ failed
      <4>1. sid = given /\ given # None
        BY <1>1, <1>5, <3>2 DEF EmitInv, Stamps, CurrentId
      <4>2. \A i \in Said' : Partial(out'[i]) \/ Request(out'[i])
        BY <1>1, <2>3, <2>4, <3>2 DEF EmitInv, Stamps, Partial, Request
      <4>3. \A i \in Streamed' : out'[i].id = given
        BY <1>1, <2>3, <2>4, <2>6, <2>8, <3>2, <4>1 DEF EmitInv, Stamps
      <4> QED
        BY <1>1, <1>2, <3>2, <4>1, <4>2, <4>3 DEF EmitInv, Stamps
    <3> QED
      BY <3>1, <3>2
  <2>14. Flushed'
    BY <2>1 DEF Flushed
  <2> QED
    BY <1>2, <2>7, <2>12, <2>13, <2>14, StampedNext DEF EmitInv
<1>6. CASE sid = None
  <2>1. out' = out /\ buffered' = Append(buffered, heard + 1)
    BY <1>6 DEF EmitPartial
  <2>2. Said' = Said /\ Streamed' = Streamed
    BY <2>1 DEF Said, Streamed
  <2>3. buffered' = [i \in 1 .. heard' - n |-> n + i]
    <3>1. /\ buffered' \in Seq(Nat)
          /\ Len(buffered') = Len(buffered) + 1
          /\ \A j \in 1 .. Len(buffered) : buffered'[j] = buffered[j]
          /\ buffered'[Len(buffered) + 1] = heard + 1
      BY <1>1, <2>1, AppendProperties
    <3>2. heard' - n \in Nat /\ heard' - n = Len(buffered) + 1
      BY <1>1, <1>4
    <3>3. ASSUME NEW j \in 1 .. heard' - n PROVE buffered'[j] = n + j
      <4>1. CASE j \in 1 .. Len(buffered)
        BY <1>4, <3>1, <4>1
      <4>2. CASE j = Len(buffered) + 1
        BY <1>1, <1>4, <3>1, <4>2
      <4> QED
        BY <1>1, <1>4, <3>2, <4>1, <4>2
    <3> QED
      BY <1>4, <3>1, <3>2, <3>3, SameTexts
  <2>4. buffered' \in Seq(Nat)
    BY <1>1, <2>1, AppendProperties
  <2>5. Shape'
    BY <1>1, <2>1, <2>4 DEF Shape
  <2>6. PartialsAsSaid'
    <3>1. n \in 0 .. heard' /\ { out'[i].text : i \in Streamed' } = 1 .. n
      BY <1>1, <1>3, <2>1, <2>2
    <3>2. \E l \in 0 .. heard' : /\ { out'[i].text : i \in Streamed' } = 1 .. l
                                 /\ buffered' = [i \in 1 .. heard' - l |-> l + i]
      BY <2>3, <3>1
    <3> QED
      BY <2>1, <2>2, <3>2 DEF EmitInv, PartialsAsSaid
  <2>7. Stamps'
    BY <1>1, <1>2, <2>1, <2>2 DEF EmitInv, Stamps
  <2>8. Flushed'
    BY <1>2, <1>6 DEF Flushed
  <2> QED
    BY <1>2, <2>5, <2>6, <2>7, <2>8, StampedNext DEF EmitInv
<1> QED
  BY <1>5, <1>6

(* A request to the bridge carries no id and is no text.                   *)
LEMMA EmitAsk ==
  ASSUME TypeInv, EmitInv, pc = "read", pc' = "ask",
         out' = Append(out, Event("permission_request", asked + 1, None)),
         UNCHANGED <<kind, attempt, given, heard, reports, failed, discovered, buffered>>
  PROVE  EmitInv'
<1>1. /\ attempt \in Nat /\ heard \in Nat /\ Live /\ Live' /\ Shape
      /\ out \in Seq(Events) /\ buffered \in Seq(Nat) /\ asked \in Nat
  BY EmitTyped, AgentAssumption, SMT DEF Live, EmitInv, Shape, TypeInv, TypeOK
<1> DEFINE e == Event("permission_request", asked + 1, None)
           k == Len(out) + 1
<1>2. e \in Events /\ e.attempt = attempt /\ e.type = "permission_request"
  BY <1>1 DEF Event, Events, Ids
<1> HIDE DEF e
<1>3. out' = Append(out, e)
  BY DEF e
<1>4. /\ out' \in Seq(Events) /\ Len(out) \in Nat
      /\ \A i \in DOMAIN out' : out'[i].attempt <= attempt'
      /\ \A i \in Said : i \in 1 .. Len(out) /\ out'[i] = out[i]
      /\ out'[k] = e
      /\ Said' = Said \cup {k}
      /\ Streamed' = Streamed \cup (IF Partial(e) THEN {k} ELSE {})
  BY <1>1, <1>2, <1>3, OneMore
<1> HIDE DEF k
<1>5. Streamed' = Streamed /\ Streamed \subseteq Said
  BY <1>2, <1>4 DEF Streamed, Partial
<1>6. Shape'
  BY <1>1, <1>4 DEF Shape
<1>7. \A i \in Streamed : out'[i] = out[i]
  BY <1>4, <1>5
<1>8. PartialsAsSaid'
  <2> SUFFICES ASSUME kind # "agy" PROVE PartialsAsSaid'
    BY DEF PartialsAsSaid
  <2>1. ASSUME NEW i \in Said', Terminal(out'[i])
        PROVE  { out'[j].text : j \in { l \in Streamed' : l < i } } = 1 .. out'[i].heard
    <3>1. i \in Said /\ Terminal(out[i])
      BY <1>2, <1>4, <2>1 DEF Terminal
    <3>2. PartialsAsSaid /\ Streamed \subseteq Streamed'
      BY <1>5 DEF EmitInv
    <3>3. \A l \in Streamed' : l \in Streamed \/ (l \in Nat /\ l > Len(out))
      BY <1>5
    <3> QED
      BY <1>4, <3>1, <3>2, <3>3, StillCovered
  <2>2. { out'[i].text : i \in Streamed' } = { out[i].text : i \in Streamed }
    BY <1>5, <1>7
  <2>3. \A i, j \in Streamed' : i < j => out'[i].text < out'[j].text
    BY <1>5, <1>7 DEF EmitInv, PartialsAsSaid
  <2>4. \E n \in 0 .. heard' : /\ { out'[i].text : i \in Streamed' } = 1 .. n
                               /\ buffered' = [i \in 1 .. heard' - n |-> n + i]
    BY <1>1, <2>2 DEF EmitInv, PartialsAsSaid, Live
  <2> QED
    BY <2>1, <2>3, <2>4 DEF PartialsAsSaid
<1>9. Stamps'
  <2>1. \A i \in Said' : (i \in Said /\ out'[i] = out[i]) \/ Request(out'[i])
    BY <1>2, <1>4 DEF Request
  <2>2. CASE failed
    BY <1>1, <2>1, <2>2 DEF EmitInv, Stamps
  <2>3. CASE ~ failed
    <3>1. \A i \in Said' : Partial(out'[i]) \/ Request(out'[i])
      BY <1>1, <2>1, <2>3 DEF EmitInv, Stamps
    <3>2. \A i \in Streamed' : given # None /\ out'[i].id = given
      BY <1>1, <1>5, <1>7, <2>3 DEF EmitInv, Stamps
    <3> QED
      BY <1>1, <2>3, <3>1, <3>2 DEF EmitInv, Stamps
  <2> QED
    BY <2>2, <2>3
<1>10. Flushed'
  BY <1>1 DEF EmitInv, Flushed
<1> QED
  BY <1>1, <1>6, <1>8, <1>9, <1>10, StampedNext DEF EmitInv

(* What waits is written under the id that is known now, and a terminal    *)
(* event, if any, after it.                                                *)
LEMMA EmitEnded ==
  ASSUME TypeInv, EmitInv, Live, NEW sid \in Ids,
         NEW e \in Events, e.attempt = attempt, e.heard = heard, Terminal(e),
         NEW t, t \in {<<>>, <<e>>},
         out' = out \o Partials(buffered, sid) \o t, buffered' = <<>>,
         UNCHANGED <<kind, attempt, given, heard>>
  PROVE  /\ Shape' /\ PartialsAsSaid' /\ Flushed'
         /\ \A i \in Said' : \/ i \in Said /\ out'[i] = out[i]
                             \/ Partial(out'[i]) /\ out'[i].id = sid
                             \/ out'[i] = e
<1>1. /\ attempt \in Nat /\ heard \in Nat /\ given \in Ids
      /\ out \in Seq(Events) /\ buffered \in Seq(Nat)
      /\ \A i \in DOMAIN out : out[i].attempt <= attempt
  BY EmitTyped DEF EmitInv, Shape
<1> DEFINE L == Len(out)
           m == Len(buffered)
           ps == Partials(buffered, sid)
<1>3. /\ L \in Nat /\ m \in Nat /\ DOMAIN out = 1 .. L
      /\ \A j \in 1 .. m : buffered[j] \in Nat
  BY <1>1, LenProperties
<1>4. /\ ps \in Seq(Events) /\ Len(ps) = m
      /\ \A j \in 1 .. m : ps[j] = Event("partial", buffered[j], sid)
  <2>1. ps = [j \in 1 .. m |-> Event("partial", buffered[j], sid)]
    BY <1>1, LenProperties DEF Partials
  <2>2. \A j \in 1 .. m : Event("partial", buffered[j], sid) \in Events
    BY <1>1, <1>3 DEF Event, Events
  <2> QED
    BY <1>3, <2>1, <2>2
<1>5. t \in Seq(Events) /\ Len(t) \in {0, 1} /\ (Len(t) = 1 => t[1] = e)
  <2>1. CASE t = <<>>
    BY <2>1
  <2>2. CASE t = <<e>>
    BY <2>2
  <2> QED
    BY <2>1, <2>2
<1> HIDE DEF ps
<1>6. /\ out \o ps \in Seq(Events) /\ Len(out \o ps) = L + m
      /\ \A i \in 1 .. L : (out \o ps)[i] = out[i]
      /\ \A j \in 1 .. m : (out \o ps)[L + j] = ps[j]
  <2>1. /\ out \o ps \in Seq(Events) /\ Len(out \o ps) = Len(out) + Len(ps)
        /\ \A i \in 1 .. Len(out) + Len(ps) :
             (out \o ps)[i] = IF i <= Len(out) THEN out[i] ELSE ps[i - Len(out)]
    BY <1>1, <1>4, ConcatProperties
  <2> DEFINE op == out \o ps
  <2> HIDE DEF op
  <2>2. op \in Seq(Events) /\ Len(op) = L + m
    BY <1>4, <2>1 DEF op
  <2>3. ASSUME NEW i \in 1 .. L PROVE op[i] = out[i]
    BY <1>3, <1>4, <2>1 DEF op
  <2>4. ASSUME NEW j \in 1 .. m PROVE op[L + j] = ps[j]
    <3>1. L + j \in 1 .. L + m /\ ~ (L + j <= L) /\ (L + j) - L = j
      BY <1>3
    <3> QED
      BY <1>4, <2>1, <3>1 DEF op
  <2> QED
    BY <2>2, <2>3, <2>4 DEF op
<1> DEFINE op == out \o ps
<1> HIDE DEF op
<1>7. out' = op \o t
  BY DEF op, ps
<1>8. /\ out' \in Seq(Events) /\ Len(out') = L + m + Len(t)
      /\ \A i \in 1 .. L + m + Len(t) :
           out'[i] = IF i <= L + m THEN op[i] ELSE t[i - (L + m)]
  <2>1. op \in Seq(Events) /\ Len(op) = L + m
    BY <1>6 DEF op
  <2> HIDE DEF L, m
  <2>2. /\ op \o t \in Seq(Events) /\ Len(op \o t) = Len(op) + Len(t)
        /\ \A i \in 1 .. Len(op) + Len(t) :
             (op \o t)[i] = IF i <= Len(op) THEN op[i] ELSE t[i - Len(op)]
    BY <1>5, <2>1, ConcatProperties
  <2> QED
    BY <1>7, <2>1, <2>2
<1>9. \A i \in 1 .. L : out'[i] = out[i]
  <2> SUFFICES ASSUME NEW i \in 1 .. L PROVE out'[i] = out[i]
    OBVIOUS
  <2>1. i \in 1 .. L + m + Len(t) /\ i <= L + m
    BY <1>3, <1>5
  <2> QED
    BY <1>6, <1>8, <2>1 DEF op
<1>10. \A j \in 1 .. m : out'[L + j] = Event("partial", buffered[j], sid)
  <2> SUFFICES ASSUME NEW j \in 1 .. m PROVE out'[L + j] = ps[j]
    BY <1>4
  <2>1. L + j \in 1 .. L + m + Len(t) /\ L + j <= L + m
    BY <1>3, <1>5
  <2> QED
    BY <1>6, <1>8, <2>1 DEF op
<1>11. Len(t) = 1 => out'[L + m + 1] = e
  <2> SUFFICES ASSUME Len(t) = 1 PROVE out'[L + m + 1] = e
    OBVIOUS
  <2>1. L + m + 1 \in 1 .. L + m + Len(t) /\ ~ (L + m + 1 <= L + m) /\ (L + m + 1) - (L + m) = 1
    BY <1>3
  <2> QED
    BY <1>5, <1>8, <2>1
<1>12. Len(out') = L + m + Len(t) /\ DOMAIN out' = 1 .. L + m + Len(t)
  BY <1>8, LenProperties
<1> HIDE DEF L, m
(* The three parts of the output.                                          *)
<1>13. ASSUME NEW i \in DOMAIN out'
       PROVE  \/ i \in DOMAIN out /\ out'[i] = out[i] /\ i <= L
              \/ \E j \in 1 .. m : i = L + j /\ out'[i] = Event("partial", buffered[j], sid)
              \/ i = L + m + 1 /\ out'[i] = e
  <2>1. i \in 1 .. L + m + Len(t) /\ Len(t) \in {0, 1}
    BY <1>5, <1>12
  <2>2. CASE i <= L
    BY <1>3, <1>9, <2>1, <2>2
  <2>3. CASE L < i /\ i <= L + m
    <3>1. i - L \in 1 .. m /\ i = L + (i - L)
      BY <1>3, <2>1, <2>3
    <3> QED
      BY <1>10, <3>1
  <2>4. CASE L + m < i
    <3>1. i = L + m + 1 /\ Len(t) = 1
      <4>1. i \in Int /\ i <= L + m + Len(t) /\ L + m < i /\ L \in Int /\ m \in Int
        BY <1>3, <2>1, <2>4
      <4>2. CASE Len(t) = 0
        BY <4>1, <4>2
      <4>3. CASE Len(t) = 1
        BY <4>1, <4>3
      <4> QED
        BY <2>1, <4>2, <4>3
    <3> QED
      BY <1>11, <3>1
  <2> QED
    BY <1>3, <2>1, <2>2, <2>3, <2>4
<1>14. \A j \in 1 .. m : /\ Event("partial", buffered[j], sid).attempt = attempt
                        /\ Event("partial", buffered[j], sid).type = "partial"
                        /\ Event("partial", buffered[j], sid).text = buffered[j]
                        /\ Event("partial", buffered[j], sid).id = sid
  BY DEF Event
<1>15. Shape'
  <2> SUFFICES ASSUME NEW i \in DOMAIN out' PROVE out'[i].attempt <= attempt
    BY <1>8, EmptySeq DEF Shape
  <2>1. CASE i \in DOMAIN out /\ out'[i] = out[i]
    BY <1>1, <2>1
  <2>2. CASE out'[i].attempt = attempt
    BY <1>1, <2>2
  <2> QED
    BY <1>13, <1>14, <2>1, <2>2
<1>16. ASSUME NEW i \in Said'
       PROVE  \/ i \in Said /\ out'[i] = out[i] /\ i <= L
              \/ \E j \in 1 .. m : i = L + j /\ out'[i] = Event("partial", buffered[j], sid)
              \/ i = L + m + 1 /\ out'[i] = e
  <2>1. i \in DOMAIN out' /\ out'[i].attempt = attempt
    BY DEF Said
  <2> QED
    BY <1>13, <2>1 DEF Said
<1>17. ASSUME NEW i \in Said PROVE i \in Said' /\ out'[i] = out[i] /\ i \in 1 .. L
  <2>1. i \in 1 .. L /\ out[i].attempt = attempt
    BY <1>3 DEF Said
  <2>2. out'[i] = out[i] /\ i \in DOMAIN out'
    BY <1>3, <1>5, <1>9, <1>12, <2>1
  <2> QED
    BY <2>1, <2>2 DEF Said
<1>18. ASSUME kind # "agy" PROVE PartialsAsSaid'
  <2>1. PICK n \in 0 .. heard : /\ { out[i].text : i \in Streamed } = 1 .. n
                                /\ buffered = [i \in 1 .. heard - n |-> n + i]
    BY <1>18 DEF EmitInv, PartialsAsSaid, Live
  <2>2. /\ n \in Nat /\ n <= heard /\ m = heard - n /\ \A j \in 1 .. m : buffered[j] = n + j
    <3>1. n \in Nat /\ n <= heard /\ heard - n \in Nat
      BY <1>1
    <3> QED
      BY <2>1, <3>1, Texts DEF m
  <2>3. ASSUME NEW i \in Streamed'
        PROVE  \/ i \in Streamed /\ out'[i] = out[i] /\ i \in 1 .. L
               \/ \E j \in 1 .. m : i = L + j /\ out'[i].text = n + j
    <3>1. i \in Said' /\ out'[i].type = "partial"
      BY DEF Streamed
    <3> QED
      BY <1>14, <1>16, <1>17, <2>2, <3>1 DEF Streamed, Terminal
  <2>4. ASSUME NEW i \in Streamed PROVE i \in Streamed' /\ out'[i] = out[i]
    BY <1>17 DEF Streamed
  <2>5. ASSUME NEW j \in 1 .. m PROVE L + j \in Streamed' /\ out'[L + j].text = n + j
    <3>1. L + j \in DOMAIN out'
      BY <1>3, <1>5, <1>12
    <3> QED
      BY <1>10, <1>14, <2>2, <3>1 DEF Streamed, Said
  <2>6. { out'[i].text : i \in Streamed' } = 1 .. heard
    <3>1. ASSUME NEW i \in Streamed' PROVE out'[i].text \in 1 .. heard
      <4>1. CASE i \in Streamed /\ out'[i] = out[i]
        <5>1. out[i].text \in 1 .. n
          BY <2>1, <4>1
        <5> QED
          BY <1>1, <2>2, <4>1, <5>1
      <4>2. ASSUME NEW j \in 1 .. m, out'[i].text = n + j PROVE out'[i].text \in 1 .. heard
        BY <1>1, <2>2, <4>2
      <4> QED
        BY <2>3, <4>1, <4>2
    <3>2. ASSUME NEW v \in 1 .. heard PROVE \E i \in Streamed' : out'[i].text = v
      <4>1. CASE v <= n
        <5>1. v \in 1 .. n
          BY <1>1, <2>2, <4>1
        <5>2. PICK i \in Streamed : out[i].text = v
          BY <2>1, <5>1
        <5> QED
          BY <2>4, <5>2
      <4>2. CASE ~ (v <= n)
        <5>1. v - n \in 1 .. m /\ n + (v - n) = v
          BY <1>1, <2>2, <4>2
        <5> QED
          BY <2>5, <5>1
      <4> QED
        BY <4>1, <4>2
    <3> QED
      BY <3>1, <3>2
  <2>7. ASSUME NEW i \in Streamed', NEW j \in Streamed', i < j
        PROVE  out'[i].text < out'[j].text
    <3>1. CASE i \in Streamed /\ out'[i] = out[i] /\ j \in Streamed /\ out'[j] = out[j]
      BY <1>18, <2>7, <3>1 DEF EmitInv, PartialsAsSaid
    <3>2. ASSUME i \in Streamed, out'[i] = out[i], NEW b \in 1 .. m, out'[j].text = n + b
          PROVE  out'[i].text < out'[j].text
      <4>1. out[i].text \in 1 .. n
        BY <2>1, <3>2
      <4> QED
        BY <2>2, <3>2, <4>1
    <3>3. ASSUME NEW a \in 1 .. m, i = L + a, out'[i].text = n + a,
                 NEW b \in 1 .. m, j = L + b, out'[j].text = n + b
          PROVE  out'[i].text < out'[j].text
      BY <1>3, <2>2, <2>7, <3>3
    <3>4. ASSUME NEW a \in 1 .. m, i = L + a PROVE j \notin 1 .. L
      BY <1>3, <2>7, <3>4
    <3> QED
      BY <2>3, <3>1, <3>2, <3>3, <3>4
  <2>8. ASSUME NEW i \in Said', Terminal(out'[i])
        PROVE  { out'[j].text : j \in { l \in Streamed' : l < i } } = 1 .. out'[i].heard
    <3>1. CASE i \in Said /\ out'[i] = out[i]
      <4>1. PartialsAsSaid /\ Streamed \subseteq Streamed' /\ Terminal(out[i])
        BY <2>4, <2>8, <3>1 DEF EmitInv
      <4>2. \A l \in Streamed' : l \in Streamed \/ (l \in Nat /\ l > L)
        BY <1>3, <2>3
      <4>3. L \in Nat /\ \A l \in Said : l \in 1 .. L /\ out'[l] = out[l]
        BY <1>3, <1>17
      <4> QED
        BY <1>18, <3>1, <4>1, <4>2, <4>3, StillCovered
    <3>2. CASE i = L + m + 1 /\ out'[i] = e
      <4>1. \A l \in Streamed' : l < i
        BY <1>3, <2>3, <3>2
      <4>2. { l \in Streamed' : l < i } = Streamed'
        BY <4>1
      <4> QED
        BY <2>6, <3>2, <4>2
    <3>3. ASSUME NEW j \in 1 .. m, out'[i] = Event("partial", buffered[j], sid) PROVE FALSE
      BY <1>14, <2>8, <3>3 DEF Terminal
    <3> QED
      BY <1>16, <3>1, <3>2, <3>3
  <2>9. \E l \in 0 .. heard' : /\ { out'[i].text : i \in Streamed' } = 1 .. l
                               /\ buffered' = [i \in 1 .. heard' - l |-> l + i]
    <3>1. heard' \in 0 .. heard' /\ heard' - heard' = 0 /\ heard' = heard
      BY <1>1
    <3>2. buffered' = [i \in 1 .. 0 |-> heard' + i]
      BY <1>1, NoTexts
    <3> QED
      BY <2>6, <3>1, <3>2
  <2> QED
    BY <2>7, <2>8, <2>9 DEF PartialsAsSaid
<1>19. PartialsAsSaid' /\ Flushed'
  BY <1>18 DEF PartialsAsSaid, Flushed
<1> QED
  BY <1>14, <1>15, <1>16, <1>19 DEF Partial

(* emit_result_opt and emit_error: all events have the id that they write. *)
LEMMA EmitTerm ==
  ASSUME TypeInv, EmitInv, Live,
         NEW type \in {"result", "error"}, NEW text \in Nat, NEW id \in Ids,
         EmitTerminal(type, text, id), UNCHANGED <<kind, attempt, given, heard>>
  PROVE  /\ Shape' /\ PartialsAsSaid' /\ Flushed'
         /\ ~ failed => \A i \in Said' : ~ Request(out'[i]) =>
                          out'[i].id = CurrentId(given, discovered')
<1> DEFINE sid == CurrentId(given, Discovered(id))
           e == Event(type, text, sid)
           t == IF type = "result" /\ text = 0 /\ sid = None THEN <<>> ELSE <<e>>
<1>1. attempt \in Nat /\ given \in Ids /\ discovered \in Ids /\ heard \in Nat
  BY EmitTyped
<1>2. sid \in Ids /\ sid = CurrentId(given, discovered') /\ (given # None => sid = given)
  BY <1>1 DEF CurrentId, Discovered, EmitTerminal
<1>3. out' = out \o Partials(buffered, sid) \o t /\ buffered' = <<>>
  BY DEF EmitTerminal
<1> HIDE DEF sid
<1>4. e \in Events /\ e.attempt = attempt /\ e.heard = heard /\ Terminal(e) /\ e.id = sid
  BY <1>1, <1>2 DEF Event, Events, Terminal
<1> HIDE DEF e
<1>5. t \in {<<>>, <<e>>}
  OBVIOUS
<1> HIDE DEF t
<1>6. out' = out \o Partials(buffered, sid) \o t
  BY <1>3
<1>7. /\ Shape' /\ PartialsAsSaid' /\ Flushed'
      /\ \A i \in Said' : \/ i \in Said /\ out'[i] = out[i]
                          \/ Partial(out'[i]) /\ out'[i].id = sid
                          \/ out'[i] = e
  BY <1>2, <1>3, <1>4, <1>5, <1>6, EmitEnded
<1>8. ASSUME ~ failed, NEW i \in Said', ~ Request(out'[i]) PROVE out'[i].id = sid
  <2>1. CASE i \in Said /\ out'[i] = out[i]
    <3>1. i \in Streamed
      BY <1>8, <2>1 DEF EmitInv, Stamps, Streamed, Partial
    <3> QED
      BY <1>2, <1>8, <2>1, <3>1 DEF EmitInv, Stamps
  <2> QED
    BY <1>4, <1>7, <2>1
<1> QED
  BY <1>2, <1>7, <1>8

(* So do run and finish_without_session of codebuddy-code and agy.         *)
LEMMA EmitRun ==
  ASSUME TypeInv, EmitInv, Live, kind \in {"codebuddy-code", "agy"},
         NEW text \in Nat, NEW id \in Ids,
         EmitFromRun(text, id) \/ FlushOnly(id),
         UNCHANGED <<kind, attempt, given, heard>>, ~ Live'
  PROVE  EmitInv'
<1> DEFINE sid == CurrentId(given, Discovered(id))
           last == CurrentId(inbound, IF inbound = None THEN id ELSE None)
           e == Event("result", text, last)
           t == IF FlushOnly(id) \/ (text = 0 /\ last = None) THEN <<>> ELSE <<e>>
<1>1. /\ attempt \in Nat /\ given \in Ids /\ inbound \in Ids
      /\ (attempt = 1 /\ given = inbound) \/ attempt = 2
      /\ ~ failed /\ discovered = None /\ heard \in Nat
      /\ out \in Seq(Events) /\ buffered \in Seq(Nat)
  BY EmitTyped DEF EmitInv, Stamps, Shape, TypeInv, Counted
<1>2. /\ sid \in Ids /\ (given # None => sid = given)
      /\ last \in Ids /\ (last = sid \/ attempt = 2)
  BY <1>1 DEF CurrentId, Discovered
<1>3. buffered' = <<>>
  BY DEF EmitFromRun, FlushOnly
<1>4. out' = out \o Partials(buffered, sid) \o t
  <2>1. CASE FlushOnly(id)
    <3> DEFINE op == out \o Partials(buffered, sid)
    <3> HIDE DEF sid, e
    <3>1. t = <<>>
      BY <2>1
    <3>5. out' = op
      BY <2>1 DEF FlushOnly, sid
    <3>2. Partials(buffered, sid) \in Seq(Events)
      <4>1. \A j \in 1 .. Len(buffered) : buffered[j] \in Nat
        BY <1>1
      <4>2. \A j \in 1 .. Len(buffered) : Event("partial", buffered[j], sid) \in Events
        BY <1>1, <1>2, <4>1 DEF Event, Events
      <4>3. Partials(buffered, sid) = [j \in 1 .. Len(buffered) |-> Event("partial", buffered[j], sid)]
        BY <1>1, LenProperties DEF Partials
      <4>4. Len(buffered) \in Nat
        BY <1>1, LenProperties
      <4> QED
        BY <4>2, <4>3, <4>4
    <3>3. op \in Seq(Events)
      BY <1>1, <3>2, ConcatProperties
    <3> HIDE DEF op
    <3>4. op \o <<>> = op
      BY <3>3, ConcatEmptySeq
    <3> QED
      BY <3>1, <3>4, <3>5 DEF op
  <2>2. CASE ~ FlushOnly(id)
    <3>1. EmitFromRun(text, id)
      BY <2>2
    <3> QED
      BY <2>2, <3>1 DEF EmitFromRun
  <2> QED
    BY <2>1, <2>2
<1> HIDE DEF sid, last
<1>5. e \in Events /\ e.attempt = attempt /\ e.heard = heard /\ Terminal(e) /\ e.id = last
  BY <1>1, <1>2 DEF Event, Events, Terminal
<1> HIDE DEF e
<1>6. t \in {<<>>, <<e>>}
  OBVIOUS
<1> HIDE DEF t
<1>7. /\ Shape' /\ PartialsAsSaid' /\ Flushed'
      /\ \A i \in Said' : \/ i \in Said /\ out'[i] = out[i]
                          \/ Partial(out'[i]) /\ out'[i].id = sid
                          \/ out'[i] = e
  BY <1>2, <1>3, <1>4, <1>5, <1>6, EmitEnded
<1>8. OneStamp'
  <2> SUFFICES ASSUME attempt # 2, NEW i \in Said', ~ Request(out'[i])
               PROVE  out'[i].id = sid
    BY <1>2 DEF OneStamp, Request
  <2>1. CASE i \in Said /\ out'[i] = out[i]
    <3>1. i \in Streamed
      BY <1>1, <2>1 DEF EmitInv, Stamps, Streamed, Partial
    <3> QED
      BY <1>1, <1>2, <2>1, <3>1 DEF EmitInv, Stamps
  <2>2. CASE out'[i] = e
    BY <1>2, <1>5, <2>2
  <2> QED
    BY <1>7, <2>1, <2>2
<1> QED
  BY <1>7, <1>8 DEF EmitInv, Stamps

(* Every action keeps the invariant of the events.                         *)
LEMMA EmitNext == TypeInv /\ EmitInv /\ [Next]_vars => EmitInv'
<1> SUFFICES ASSUME TypeInv, EmitInv, [Next]_vars PROVE EmitInv'
  OBVIOUS
<1> USE DEF turnVars
<1>1. /\ attempt \in Nat /\ heard \in Nat /\ reports \in Nat
      /\ given \in Ids /\ found \in Ids
  BY EmitTyped DEF TypeInv, TypeOK
<1>2. CliIds \subseteq Ids
  BY <1>1 DEF CliIds, Ids
<1>3. CASE Spawn \/ SpawnFails \/ DownloadFails
  BY <1>3, EmitFresh DEF Spawn, SpawnFails, DownloadFails
<1>4. CASE Unsupported
  <2> DEFINE e == [attempt |-> attempt + 1, type |-> "error", text |-> 0, id |-> Given,
                heard |-> 0]
  <2>1. /\ attempt' = attempt + 1 /\ given' = Given /\ pc' = "done" /\ out' = Append(out, e)
        /\ buffered' = buffered
    BY <1>4 DEF Unsupported
  <2>2. e \in Events /\ e.attempt = attempt + 1 /\ e.id = Given /\ e.heard = 0
        /\ e.type = "error"
    BY <1>1, EmitTyped DEF Events, Given, Ids
  <2> HIDE DEF e
  <2>3. out \in Seq(Events) /\ buffered \in Seq(Nat) /\ \A i \in DOMAIN out : out[i].attempt <= attempt
    BY DEF EmitInv, Shape
  <2>4. /\ out' \in Seq(Events) /\ Len(out) \in Nat /\ DOMAIN out = 1 .. Len(out)
        /\ Len(out') = Len(out) + 1
        /\ \A i \in 1 .. Len(out) : out'[i] = out[i]
        /\ out'[Len(out) + 1] = e
    BY <2>1, <2>2, <2>3, AppendProperties, LenProperties
  <2>5. DOMAIN out' = DOMAIN out \cup {Len(out) + 1}
    BY <2>4, LenProperties, SMT
  <2>6. ASSUME NEW i \in DOMAIN out
        PROVE  out'[i].attempt <= attempt + 1 /\ out'[i].attempt # attempt + 1
    <3>1. out[i] \in Events
      BY <2>3
    <3>2. out[i].attempt \in Nat /\ out[i].attempt <= attempt /\ out'[i] = out[i]
      BY <2>3, <2>4, <3>1 DEF Events
    <3> QED
      BY <1>1, <3>2
  <2>7. Shape'
    BY <1>1, <2>1, <2>2, <2>3, <2>4, <2>5, <2>6 DEF Shape
  <2>8. \A i \in Said' : i = Len(out) + 1
    BY <2>1, <2>5, <2>6 DEF Said
  <2>9. OneStamp'
    BY <2>1, <2>2, <2>4, <2>8 DEF OneStamp
  <2>10. ~ Live'
    BY <2>1 DEF Live
  <2>11. PartialsAsSaid'
    <3>1. Streamed' = {}
      BY <2>2, <2>4, <2>8 DEF Streamed
    <3>2. 1 .. 0 = {} /\ \A i \in Said' : out'[i].heard = 0
      BY <2>2, <2>4, <2>8
    <3> QED
      BY <2>10, <3>1, <3>2 DEF PartialsAsSaid, Live
  <2> QED
    BY <2>7, <2>9, <2>10, <2>11 DEF EmitInv, Flushed, Stamps
<1>5. CASE ReadAssistant \/ ReadChunk \/ ReadItem
  <2>1. PICK body : Hear(TRUE, body) /\ kind # "agy"
    BY <1>5 DEF ReadAssistant, ReadChunk, ReadItem
  <2>2. /\ pc = "read" /\ heard' = heard + 1 /\ EmitPartial(heard + 1)
        /\ UNCHANGED <<kind, pc, attempt, given, reports, failed>>
    BY <2>1 DEF Hear
  <2> QED
    BY <2>1, <2>2, EmitHear
<1>6. CASE ReadOutput
  <2>1. /\ kind = "agy"
        /\ UNCHANGED <<kind, pc, attempt, given, reports, failed, out, buffered, discovered>>
    BY <1>6 DEF ReadOutput, Hear, emitVars
  <2>2. Said' = Said /\ Streamed' = Streamed /\ Live' = Live
    BY <2>1 DEF Said, Streamed, Live
  <2>3. Shape' /\ OneStamp' /\ Flushed' /\ Stamps'
    BY <2>1, <2>2 DEF EmitInv, Shape, OneStamp, Flushed, Stamps
  <2>4. PartialsAsSaid'
    BY <2>1 DEF PartialsAsSaid
  <2> QED
    BY <2>3, <2>4 DEF EmitInv
<1>7. ASSUME NEW result \in Results, ReadResult(result) PROVE EmitInv'
  <2>1. /\ Live /\ Live' /\ reports' = reports + 1 /\ result.id \in Ids
        /\ kind \in {"claude-code", "recursive"}
        /\ UNCHANGED <<kind, attempt, given, heard>>
    BY <1>2, <1>7 DEF ReadResult, Report, Live, Results
  <2>2. CASE EmitTerminal("error", 1, result.id) /\ failed' = TRUE
    <3>1. /\ Shape' /\ PartialsAsSaid' /\ Flushed'
          /\ ~ failed => \A i \in Said' : ~ Request(out'[i]) =>
                           out'[i].id = CurrentId(given, discovered')
      BY <2>1, <2>2, EmitTerm
    <3>2. failed => reports >= 1
      BY <2>1 DEF EmitInv, Stamps
    <3>3. reports' <= 1 => ~ failed
      BY <1>1, <2>1, <3>2
    <3>4. reports' >= 1
      BY <1>1, <2>1
    <3>5. Stamps'
      BY <2>1, <2>2, <3>1, <3>3, <3>4 DEF Stamps
    <3> QED
      BY <2>1, <3>1, <3>5, StampedNext DEF EmitInv
  <2>3. CASE UNCHANGED <<emitVars, failed>>
    BY <2>1, <2>3, EmitQuiet DEF emitVars
  <2> QED
    BY <1>7, <2>2, <2>3 DEF ReadResult
<1>8. CASE \/ \E id \in CliIds : ReadThreadStarted(id)
           \/ \E result \in Results : ReadPlainResult(result)
           \/ ReadEof
  <2>1. /\ Live /\ reports' \in {reports, reports + 1}
        /\ UNCHANGED <<kind, attempt, given, out, buffered, heard, failed, discovered>>
    BY <1>8 DEF ReadThreadStarted, ReadPlainResult, Report, ReadEof, cliVars, emitVars, Live
  <2> QED
    BY <2>1, EmitQuiet
<1>9. CASE ReadFails
  <2>1. /\ UNCHANGED <<kind, attempt, given, out, reports>> /\ buffered' = <<>> /\ ~ Live'
    BY <1>9 DEF ReadFails, AfterFailure, cliVars, Live
  <2> QED
    BY <2>1, EmitQuiet
<1>10. ASSUME NEW ok, Exit(ok)
       PROVE  Live /\ ~ Live' /\ UNCHANGED <<kind, attempt, given, heard, reports, failed>>
  BY <1>10 DEF Exit, AfterFailure, Live, cliVars
<1>11. ASSUME NEW ok, Exit(ok), UNCHANGED emitVars PROVE EmitInv'
  BY <1>10, <1>11, EmitQuiet DEF emitVars
<1>12. Body \in Nat
  BY DEF Body
<1>13. ASSUME NEW ok, Exit(ok), NEW id \in Ids, EmitResultUnlessFailed(id) PROVE EmitInv'
  <2>1. Live /\ ~ Live' /\ UNCHANGED <<kind, attempt, given, heard, reports, failed>>
    BY <1>10, <1>13
  <2>2. CASE failed
    BY <1>11, <1>13, <2>2 DEF EmitResultUnlessFailed
  <2>3. CASE ~ failed
    <3>1. EmitTerminal("result", Body, id)
      BY <1>13, <2>3 DEF EmitResultUnlessFailed
    <3>2. /\ Shape' /\ PartialsAsSaid' /\ Flushed'
          /\ \A i \in Said' : ~ Request(out'[i]) => out'[i].id = CurrentId(given, discovered')
      BY <1>12, <2>1, <2>3, <3>1, EmitTerm
    <3>3. OneStamp'
      BY <2>1, <3>2 DEF OneStamp, Request, CurrentId
    <3> QED
      BY <2>1, <3>2, <3>3 DEF EmitInv, Stamps
  <2> QED
    BY <2>2, <2>3
<1>14. ASSUME NEW ok, Exit(ok), NEW id \in Ids, kind \in {"codebuddy-code", "agy"},
              EmitFromRun(Body, id) \/ FlushOnly(id)
       PROVE  EmitInv'
  <2>1. Live /\ ~ Live' /\ UNCHANGED <<kind, attempt, given, heard>>
    BY <1>10, <1>14
  <2> QED
    BY <1>12, <1>14, <2>1, EmitRun
<1>15. CASE Exits
  <2> PICK success \in BOOLEAN :
        \/ StreamExits(success) \/ CodebuddyExits(success)
        \/ \E id \in CliIds : RecursiveExits(success, id) \/ AgyExits(success, id)
    BY <1>15 DEF Exits
  <2>1. CASE StreamExits(success)
    BY <1>1, <1>13, <2>1 DEF StreamExits
  <2>2. CASE CodebuddyExits(success)
    BY <1>1, <1>14, <2>2 DEF CodebuddyExits
  <2>3. ASSUME NEW id \in CliIds, RecursiveExits(success, id) PROVE EmitInv'
    <3>1. PreferSessionId(id) \in Ids
      BY <1>1, <1>2 DEF PreferSessionId
    <3>2. EmitResultUnlessFailed(PreferSessionId(id)) /\ \E ok : Exit(ok)
      BY <2>3 DEF RecursiveExits
    <3> QED
      BY <1>13, <3>1, <3>2
  <2>4. ASSUME NEW id \in CliIds, AgyExits(success, id) PROVE EmitInv'
    <3>1. ConversationId(id) \in Ids
      BY <1>1, <1>2 DEF ConversationId
    <3>2. kind = "agy" /\ Exit(Succeeds(success, final))
          /\ (EmitFromRun(Body, ConversationId(id)) \/ UNCHANGED emitVars)
      BY <2>4 DEF AgyExits
    <3>3. CASE EmitFromRun(Body, ConversationId(id))
      BY <1>14, <3>1, <3>2, <3>3
    <3>4. CASE UNCHANGED emitVars
      BY <1>11, <3>2, <3>4
    <3> QED
      BY <3>2, <3>3, <3>4
  <2> QED
    BY <2>1, <2>2, <2>3, <2>4
<1>16. CASE ReadControlRequest
  <2>1. /\ pc = "read" /\ pc' = "ask"
        /\ out' = Append(out, Event("permission_request", asked + 1, None))
        /\ UNCHANGED <<kind, attempt, given, heard, reports, failed, discovered, buffered>>
    BY <1>16 DEF ReadControlRequest, cliVars
  <2> QED
    BY <2>1, EmitAsk
<1>17. CASE TakeResponse \/ GiveUp
  <2>1. /\ Live
        /\ UNCHANGED <<kind, attempt, given, out, buffered, heard, reports, failed, discovered>>
    BY <1>17 DEF TakeResponse, GiveUp, Reply, cliVars, emitVars, Live
  <2> QED
    BY <2>1, EmitQuiet
<1>18. CASE \/ \E t \in threads : LockStdin(t)
            \/ ReadStdin \/ StdinEnds \/ BridgeAnswers \/ BridgeGoes \/ UNCHANGED vars
  <2>1. UNCHANGED <<kind, attempt, given, out, buffered, heard, reports, failed, discovered, pc>>
    BY <1>18 DEF LockStdin, ReadStdin, StdinEnds, BridgeAnswers, BridgeGoes, cliVars, emitVars, vars
  <2>2. Live' = Live
    BY <2>1 DEF Live
  <2> QED
    BY <2>1, <2>2, EmitQuiet
<1> QED
  BY <1>3, <1>4, <1>5, <1>6, <1>7, <1>8, <1>9, <1>15, <1>16, <1>17, <1>18 DEF Next, Reads

(* The emitter streams what the CLI says in its order, once and without a  *)
(* gap, holds back only the texts at the end, and writes a result or an    *)
(* error after all that the CLI had said by then, however many texts and   *)
(* results there are.                                                      *)
THEOREM AllAsSaid == Spec => []PartialsAsSaid
<1>1. Spec => [](TypeInv /\ EmitInv)
  BY TypeInit, TypeNext, EmitInit, EmitNext, PTL DEF Spec
<1>2. EmitInv => PartialsAsSaid
  BY DEF EmitInv
<1> QED
  BY <1>1, <1>2, PTL

(* All events of an attempt in which the CLI reports its session once      *)
(* carry one id, those that waited for it included, and it is the resumed  *)
(* one if there is one.                                                    *)
THEOREM OneId == Spec => []OneStamp
<1>1. Spec => [](TypeInv /\ EmitInv)
  BY TypeInit, TypeNext, EmitInit, EmitNext, PTL DEF Spec
<1>2. EmitInv => OneStamp
  BY DEF EmitInv
<1> QED
  BY <1>1, <1>2, PTL
=============================================================================
