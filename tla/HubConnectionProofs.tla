------------------------ MODULE HubConnectionProofs ------------------------
(***************************************************************************)
(* For any processes, Hubs and command lines, and any number of tokens and *)
(* failures: the connection keeps its types, shows no more codes than      *)
(* allowed, and a bridge runs only with a token that its Hub has accepted. *)
(*                                                                         *)
(* The last is proved of every process that holds credentials it is going  *)
(* to run with (Granted): they are written, or their writing fails, before *)
(* it runs, and meanwhile another process may replace the file and the Hub *)
(* may revoke the token, so that neither says anything of it.              *)
(***************************************************************************)
EXTENDS HubConnection, TLAPS

Settled == {"save", "saving", "rewrite", "rewriting", "running"}

Granted ==
  /\ \A h \in Hub : accepted[h] \subseteq ever[h]
  /\ \A p \in Proc : pc[p] \in Settled => hold[p].token \in ever[hold[p].base]
  /\ \A p \in Proc : pc[p] = "probe" =>
       hold[p].token = opt[p].token /\ hold[p].base = opt[p].hub

(* A code is fetched only by those that may show another one.              *)
BeforeScan == {"load", "validate", "discard", "forced"}
Counted ==
  \A p \in Proc : /\ pc[p] \in BeforeScan => refresh[p] = 0
                  /\ pc[p] = "scan" => refresh[p] < MaxQrRefresh

IInv == TypeOK /\ Granted /\ Counted

-----------------------------------------------------------------------------
(* The parts of the state                                                  *)

LEMMA Constants ==
  /\ MaxQrRefresh \in Nat /\ MaxQrRefresh > 0 /\ 0 \in 0 .. MaxQrRefresh
  /\ MaxTokens \in Nat /\ GivenToken \in Token /\ NoToken \in Token \cup {NoToken}
  /\ Managed \subseteq Proc /\ DefaultName \in Name
  /\ MaxEvents \in Nat
BY ConnectionAssumption DEF Token, GivenToken

LEMMA CommandLineTyped ==
  ASSUME NEW o \in Option
  PROVE  /\ o.hub \in Hub /\ o.token \in {NoToken, GivenToken}
         /\ Blank(o) \in Creds /\ Blank(o).base = o.hub
         /\ [Blank(o) EXCEPT !.token = o.token] \in Creds
         /\ [Blank(o) EXCEPT !.token = o.token].token = o.token
         /\ [Blank(o) EXCEPT !.token = o.token].base = o.hub
BY Constants DEF Option, Blank, Creds

LEMMA Places ==
  ASSUME NEW o \in Option, via \in {"hub", "direct"}
  PROVE  /\ Login(o) \in {"scan", "off"}
         /\ Obtain(o) \in {"register", "scan", "off"}
         /\ Begin(o) \in {"probe", "scan", "off", "load"}
BY DEF Login, Obtain, Begin

LEMMA NewCreds ==
  ASSUME NEW t \in Token, NEW h \in Hub, NEW n \in Name \cup {NoName}
  PROVE  [token |-> t, base |-> h, name |-> n] \in Creds
BY DEF Creds

LEMMA FilesTyped ==
  /\ MissingFile \in File /\ UnusableFile \in File
  /\ \A c \in Creds : ValidFile(c) \in File
BY DEF File, MissingFile, UnusableFile, ValidFile

LEMMA EventTyped ==
  ASSUME events \in 0 .. MaxEvents, Event
  PROVE  events' \in 0 .. MaxEvents
BY Constants DEF Event

-----------------------------------------------------------------------------
LEMMA InitIInv == Init => IInv
<1> SUFFICES ASSUME Init PROVE IInv
  OBVIOUS
<1>1. opt \in [Proc -> Option]
  BY ConnectionAssumption DEF Init
<1>2. hold \in [Proc -> Creds]
  BY <1>1, CommandLineTyped DEF Init
<1>3. accepted \in [Hub -> SUBSET Token] /\ ever = accepted
  BY Constants DEF Init
<1>4. TypeOK
  BY <1>1, <1>2, <1>3, Constants, FilesTyped DEF Init, TypeOK, Resolving, Place, Token, GivenToken
<1>5. Granted /\ Counted
  BY <1>3 DEF Init, Granted, Counted, Settled, BeforeScan
<1> QED
  BY <1>4, <1>5 DEF IInv

(* A step of p that issues no token keeps the invariant if it keeps the    *)
(* types and leaves p's place, credentials and count in agreement.         *)
LEMMA OneGoes ==
  ASSUME IInv, NEW p \in Proc, TypeOK', UNCHANGED hubVars,
         \A q \in Proc \ {p} : /\ pc'[q] = pc[q] /\ opt'[q] = opt[q]
                               /\ hold'[q] = hold[q] /\ refresh'[q] = refresh[q],
         pc'[p] \in Settled => hold'[p].token \in ever[hold'[p].base],
         pc'[p] = "probe" => hold'[p].token = opt'[p].token /\ hold'[p].base = opt'[p].hub,
         pc'[p] \in BeforeScan => refresh'[p] = 0,
         pc'[p] = "scan" => refresh'[p] < MaxQrRefresh
  PROVE  IInv'
<1>1. Granted'
  BY DEF IInv, Granted, hubVars
<1>2. Counted'
  BY DEF IInv, Counted
<1> QED
  BY <1>1, <1>2 DEF IInv

(* The same, of a step that only moves p.                                  *)
LEMMA OneMoves ==
  ASSUME IInv, NEW p \in Proc, UNCHANGED <<via, opt, hold, refresh, hubVars>>,
         file' \in File, events' \in 0 .. MaxEvents,
         pc' = [pc EXCEPT ![p] = pc'[p]], pc'[p] \in Place,
         pc'[p] \in Settled => hold[p].token \in ever[hold[p].base],
         pc'[p] # "probe",
         pc'[p] \in BeforeScan => refresh[p] = 0,
         pc'[p] = "scan" => refresh[p] < MaxQrRefresh
  PROVE  IInv'
<1>1. TypeOK'
  BY DEF IInv, TypeOK, hubVars
<1> QED
  BY <1>1, OneGoes DEF IInv, TypeOK

(* What leaves a function as it is leaves it as it is at p.                *)
LEMMA Same ==
  ASSUME IInv, NEW p \in Proc
  PROVE  /\ opt = [opt EXCEPT ![p] = opt[p]] /\ opt[p] \in Option
         /\ hold = [hold EXCEPT ![p] = hold[p]] /\ hold[p] \in Creds
         /\ refresh = [refresh EXCEPT ![p] = refresh[p]]
         /\ refresh[p] \in 0 .. MaxQrRefresh
         /\ via \in {"hub", "direct"} /\ file \in File /\ events \in 0 .. MaxEvents
BY DEF IInv, TypeOK

(* A new token is accepted by the Hub that issues it and by its peers.     *)
LEMMA Issued ==
  ASSUME IInv, NEW h \in Hub, NEW peers \in SUBSET Hub, Issue(h, peers)
  PROVE  /\ issued' \in Token /\ issued' = issued + 1
         /\ accepted' \in [Hub -> SUBSET Token] /\ ever' \in [Hub -> SUBSET Token]
         /\ \A g \in Hub : accepted'[g] \subseteq ever'[g] /\ ever[g] \subseteq ever'[g]
         /\ \A g \in peers : issued + 1 \in ever'[g]
         /\ h \in peers
<1>1. issued' \in Token /\ issued' = issued + 1 /\ h \in peers
  BY Constants DEF Issue, IInv, TypeOK, Token
<1>2. \A g \in Hub : accepted'[g] \in SUBSET Token
  BY <1>1 DEF Issue, IInv, TypeOK
<1>3. accepted' \in [Hub -> SUBSET Token]
  BY <1>2 DEF Issue
<1>4. \A g \in Hub : ever'[g] = ever[g] \cup accepted'[g]
  BY DEF Issue
<1>5. ever' \in [Hub -> SUBSET Token]
  BY <1>2, <1>4 DEF Issue, IInv, TypeOK
<1>6. \A g \in peers : issued + 1 \in accepted'[g]
  BY DEF Issue
<1> QED
  BY <1>1, <1>3, <1>4, <1>5, <1>6

(* So does the step in which p gets it, and goes to write it.              *)
LEMMA OneIsGranted ==
  ASSUME IInv, NEW p \in Proc, NEW h \in Hub, NEW peers \in SUBSET Hub,
         Issue(h, peers), NEW base \in peers, NEW n \in Name \cup {NoName},
         pc' = [pc EXCEPT ![p] = "save"],
         hold' = [hold EXCEPT ![p] = [token |-> issued + 1, base |-> base, name |-> n]],
         UNCHANGED <<via, file, opt, refresh, events>>
  PROVE  IInv'
<1> DEFINE c == [token |-> issued + 1, base |-> base, name |-> n]
<1>1. c \in Creds /\ c.token = issued + 1 /\ c.base = base
  BY Issued, NewCreds
<1>2. hold' \in [Proc -> Creds]
  BY <1>1 DEF IInv, TypeOK
<1>3. TypeOK'
  BY <1>2, Issued DEF IInv, TypeOK, Resolving, Place
<1>4. Granted'
  <2>1. \A q \in Proc : hold'[q].base \in Hub
    BY <1>2 DEF Creds
  <2>2. ASSUME NEW q \in Proc, pc'[q] \in Settled
        PROVE  hold'[q].token \in ever'[hold'[q].base]
    <3>1. CASE q = p
      BY <1>1, <3>1, Issued DEF IInv, TypeOK
    <3>2. CASE q # p
      <4>1. hold'[q] = hold[q] /\ pc'[q] = pc[q]
        BY <3>2 DEF IInv, TypeOK
      <4> QED
        BY <4>1, <2>1, <2>2, Issued DEF IInv, Granted
    <3> QED
      BY <3>1, <3>2
  <2>3. ASSUME NEW q \in Proc, pc'[q] = "probe"
        PROVE  hold'[q].token = opt'[q].token /\ hold'[q].base = opt'[q].hub
    BY <2>3 DEF IInv, TypeOK, Granted
  <2> QED
    BY <2>2, <2>3, Issued DEF Granted
<1>5. Counted'
  BY DEF IInv, TypeOK, Counted, BeforeScan
<1> QED
  BY <1>3, <1>4, <1>5 DEF IInv

(* A resolution begins, with the command line o.                           *)
Enters(p, o) == Enter(p, o) /\ UNCHANGED <<via, hubVars>>

LEMMA OneEnters ==
  ASSUME IInv, NEW p \in Proc, NEW o \in Option, Enters(p, o),
         opt' = [opt EXCEPT ![p] = o], file' \in File, events' \in 0 .. MaxEvents
  PROVE  IInv'
<1> DEFINE c == [Blank(o) EXCEPT !.token = o.token]
<1>1. Begin(o) \in {"probe", "scan", "off", "load"}
  BY Places, Same
<1>2. c \in Creds /\ c.token = o.token /\ c.base = o.hub
  BY CommandLineTyped
<1>3. /\ pc' = [pc EXCEPT ![p] = Begin(o)]
      /\ hold' = [hold EXCEPT ![p] = c]
      /\ refresh' = [refresh EXCEPT ![p] = 0]
  BY DEF Enters, Enter, Goes, Holds
<1> HIDE DEF c
<1>4. TypeOK'
  BY <1>1, <1>2, <1>3, Constants DEF IInv, TypeOK, Enters, Resolving, Place, hubVars
<1>5. /\ pc'[p] = Begin(o) /\ hold'[p] = c /\ refresh'[p] = 0 /\ opt'[p] = o
      /\ \A q \in Proc \ {p} : /\ pc'[q] = pc[q] /\ opt'[q] = opt[q]
                               /\ hold'[q] = hold[q] /\ refresh'[q] = refresh[q]
  BY <1>3 DEF IInv, TypeOK
<1> QED
  BY <1>1, <1>2, <1>4, <1>5, Constants, OneGoes DEF Enters, Settled, BeforeScan

-----------------------------------------------------------------------------
(* The actions                                                             *)

LEMMA Starts ==
  ASSUME IInv, NEW p \in Proc, NEW o \in Option, Start(p, o)
  PROVE  IInv'
<1>1. events' \in 0 .. MaxEvents
  BY EventTyped, Same DEF Start
<1>2. Enters(p, o)
  BY DEF Start, Enters
<1>3. opt' = [opt EXCEPT ![p] = o]
  BY DEF Start
<1> QED
  BY <1>1, <1>2, <1>3, Same, OneEnters DEF Start

LEMMA Loads ==
  ASSUME IInv, NEW p \in Proc, Load(p)
  PROVE  IInv'
<1>1. Obtain(opt[p]) \in {"register", "scan", "off"} /\ refresh[p] = 0
  BY Places, Same DEF IInv, Counted, Load, BeforeScan
<1>2. CASE Usable /\ Goes(p, "validate") /\ Holds(p, file.creds)
  <2>1. file.creds \in Creds
    BY <1>2, Same DEF Usable, File
  <2>2. TypeOK'
    BY <1>2, <2>1 DEF Load, Goes, Holds, IInv, TypeOK, Resolving, Place, hubVars
  <2>3. pc'[p] = "validate" /\ refresh' = refresh /\ opt' = opt
    BY <1>2 DEF Load, Goes, IInv, TypeOK
  <2>4. \A q \in Proc \ {p} : pc'[q] = pc[q] /\ hold'[q] = hold[q]
    BY <1>2 DEF Goes, Holds, IInv, TypeOK
  <2> QED
    BY <1>1, <2>2, <2>3, <2>4, OneGoes DEF Load, Settled
<1>3. CASE UNCHANGED hold /\ Goes(p, Obtain(opt[p]))
  BY <1>1, <1>3, Same, Constants, OneMoves DEF Load, Goes, Settled, BeforeScan, Resolving, Place, IInv, TypeOK
<1>4. CASE UNCHANGED hold /\ Goes(p, IF opt[p].force THEN "forced" ELSE "off")
  BY <1>1, <1>4, Same, Constants, OneMoves DEF Load, Goes, Settled, BeforeScan, Resolving, Place, IInv, TypeOK
<1> QED
  BY <1>2, <1>3, <1>4 DEF Load

LEMMA Validates ==
  ASSUME IInv, NEW p \in Proc, Validated(p)
  PROVE  IInv'
<1> DEFINE c == [hold[p] EXCEPT !.base = opt[p].hub]
<1>1. opt[p].hub \in Hub
  BY Same, CommandLineTyped
<1>2. c \in Creds /\ c.token = hold[p].token /\ c.base = opt[p].hub
  BY <1>1, Same DEF Creds
<1>3. c.token \in ever[c.base]
  BY <1>1, <1>2 DEF Validated, Accepts, IInv, Granted
<1>4. hold' = [hold EXCEPT ![p] = c]
  BY DEF Validated, Holds
<1> HIDE DEF c
<1>5. TypeOK'
  BY <1>2, <1>4 DEF Validated, Goes, IInv, TypeOK, Resolving, Place, hubVars
<1>6. pc'[p] \in {"running", "rewrite"} /\ hold'[p] = c
  BY <1>4 DEF Validated, Goes, IInv, TypeOK
<1>7. \A q \in Proc \ {p} : pc'[q] = pc[q] /\ hold'[q] = hold[q]
  BY <1>4 DEF Validated, Goes, IInv, TypeOK
<1> QED
  BY <1>3, <1>5, <1>6, <1>7, OneGoes DEF Validated, BeforeScan

LEMMA Discards ==
  ASSUME IInv, NEW p \in Proc, Discard(p)
  PROVE  IInv'
<1>1. Obtain(opt[p]) \in {"register", "scan", "off"}
  BY Places, Same
<1>2. CASE pc[p] = "rejected"
  <2>1. Enters(p, opt[p])
    BY <1>2 DEF Discard, Enters
  <2> QED
    BY <2>1, Same, FilesTyped, OneEnters DEF Discard
<1>3. CASE pc[p] # "rejected"
  <2>1. refresh[p] = 0
    BY <1>3 DEF Discard, IInv, Counted, BeforeScan
  <2> QED
    BY <1>1, <1>3, <2>1, Same, Constants, FilesTyped, OneMoves
       DEF Discard, Goes, Settled, BeforeScan, Resolving, Place, IInv, TypeOK
<1> QED
  BY <1>2, <1>3

LEMMA Registers ==
  ASSUME IInv, NEW p \in Proc, Register(p)
  PROVE  IInv'
<1>1. AutoClientName(p) \in Name \cup {NoName}
  BY Same, Constants DEF AutoClientName, Option, Creds
<1>2. opt[p].hub \in Hub
  BY Same, CommandLineTyped
<1>3. PICK peers \in SUBSET Hub : Issue(opt[p].hub, peers)
  BY DEF Register
<1>4. opt[p].hub \in peers
  BY <1>2, <1>3, Issued
<1> QED
  BY <1>1, <1>2, <1>3, <1>4, OneIsGranted DEF Register, Holds, Goes

LEMMA Confirms ==
  ASSUME IInv, NEW p \in Proc, Confirmed(p)
  PROVE  IInv'
<1>1. opt[p].hub \in Hub
  BY Same, CommandLineTyped
<1> DEFINE name == IF via = "hub" THEN NoName ELSE DefaultName
<1>2. name \in Name \cup {NoName}
  BY Constants
<1>3. PICK peers \in SUBSET Hub :
        /\ Issue(opt[p].hub, peers)
        /\ \E base \in IF via = "hub" THEN peers ELSE {opt[p].hub} :
             Holds(p, [token |-> issued + 1, base |-> base, name |-> name])
  BY DEF Confirmed
<1>4. opt[p].hub \in peers
  BY <1>1, <1>3, Issued
<1>5. PICK base \in peers :
        Holds(p, [token |-> issued + 1, base |-> base, name |-> name])
  BY <1>3, <1>4
<1> HIDE DEF name
<1> QED
  BY <1>1, <1>2, <1>3, <1>5, OneIsGranted DEF Confirmed, Holds, Goes

(* The steps that move p and leave the tokens alone.                       *)
LEMMA Moves ==
  ASSUME IInv, NEW p \in Proc,
         \/ Probe(p) \/ Refused(p) \/ QrExpires(p) \/ PollEnds(p)
         \/ Truncate(p) \/ Write(p) \/ TokenRejected(p)
         \/ Unreachable(p) \/ RegisterHangs(p) \/ WriteFails(p) \/ Ends(p)
  PROVE  IInv'
<1>1. CASE Probe(p)
  <2>1. opt[p].hub \in Hub
    BY Same, CommandLineTyped
  <2> QED
    BY <1>1, <2>1, Same, OneMoves
       DEF Probe, Accepts, Goes, Settled, BeforeScan, Resolving, Place, IInv, TypeOK, Granted
<1>2. CASE Refused(p)
  BY <1>2, Same, OneMoves DEF Refused, Goes, Settled, BeforeScan, Resolving, Place, IInv, TypeOK, Counted
<1>3. CASE QrExpires(p)
  BY <1>3, Same, OneMoves DEF QrExpires, Goes, Settled, BeforeScan, Resolving, Place, IInv, TypeOK
<1>4. CASE PollEnds(p)
  BY <1>4, Same, OneMoves DEF PollEnds, Goes, Settled, BeforeScan, Resolving, Place, IInv, TypeOK
<1>5. CASE Truncate(p)
  BY <1>5, Same, FilesTyped, OneMoves
     DEF Truncate, Goes, Settled, BeforeScan, Resolving, Place, IInv, TypeOK, Granted
<1>6. CASE Write(p)
  BY <1>6, Same, FilesTyped, OneMoves
     DEF Write, Goes, Settled, BeforeScan, Resolving, Place, IInv, TypeOK, Granted
<1>7. CASE TokenRejected(p)
  BY <1>7, Same, OneMoves DEF TokenRejected, Goes, Settled, BeforeScan, Resolving, Place, IInv, TypeOK
<1>8. CASE Unreachable(p)
  BY <1>8, Same, EventTyped, OneMoves
     DEF Unreachable, Goes, Settled, BeforeScan, Resolving, Place, IInv, TypeOK, Counted
<1>9. CASE WriteFails(p)
  BY <1>9, Same, EventTyped, OneMoves
     DEF WriteFails, Goes, Settled, BeforeScan, Resolving, Place, IInv, TypeOK, Granted
<1>10. CASE Ends(p)
  BY <1>10, Same, EventTyped, OneMoves DEF Ends, Goes, Settled, BeforeScan, Resolving, Place, IInv, TypeOK
<1>11. CASE RegisterHangs(p)
  BY <1>11, Same, EventTyped, OneMoves
     DEF RegisterHangs, Goes, Settled, BeforeScan, Resolving, Place, IInv, TypeOK
<1> QED
  BY <1>1, <1>2, <1>3, <1>4, <1>5, <1>6, <1>7, <1>8, <1>9, <1>10, <1>11

LEMMA Fetches ==
  ASSUME IInv, NEW p \in Proc, FetchQrcode(p)
  PROVE  IInv'
<1>1. refresh[p] + 1 \in 0 .. MaxQrRefresh
  BY Same, Constants DEF FetchQrcode, IInv, Counted
<1>2. TypeOK'
  BY <1>1 DEF FetchQrcode, Goes, IInv, TypeOK, Resolving, Place, hubVars
<1>3. pc'[p] = "poll" /\ \A q \in Proc \ {p} : pc'[q] = pc[q] /\ refresh'[q] = refresh[q]
  BY DEF FetchQrcode, Goes, IInv, TypeOK
<1> QED
  BY <1>2, <1>3, OneGoes DEF FetchQrcode, Settled, BeforeScan

LEMMA Revokes ==
  ASSUME IInv, NEW h \in Hub, NEW t \in Token, Revoke(h, t)
  PROVE  IInv'
<1>1. accepted' \in [Hub -> SUBSET Token]
  BY DEF Revoke, IInv, TypeOK
<1>2. \A g \in Hub : accepted'[g] \subseteq accepted[g]
  BY DEF Revoke, IInv, TypeOK
<1>3. TypeOK'
  BY <1>1, EventTyped DEF Revoke, IInv, TypeOK
<1>4. Granted' /\ Counted'
  BY <1>2 DEF Revoke, IInv, Granted, Counted
<1> QED
  BY <1>3, <1>4 DEF IInv

LEMMA IInvStep == IInv /\ [Next]_vars => IInv'
<1> SUFFICES ASSUME IInv, [Next]_vars PROVE IInv'
  OBVIOUS
<1>1. ASSUME NEW p \in Proc, Step(p) PROVE IInv'
  BY <1>1, Loads, Validates, Discards, Registers, Fetches, Confirms, Moves DEF Step
<1>2. ASSUME NEW p \in Proc,
             Unreachable(p) \/ RegisterHangs(p) \/ WriteFails(p) \/ Ends(p)
      PROVE  IInv'
  BY <1>2, Moves
<1>3. CASE UNCHANGED vars
  BY <1>3 DEF IInv, TypeOK, Granted, Counted, vars, hubVars
<1> QED
  BY <1>1, <1>2, <1>3, Starts, Revokes DEF Next

THEOREM Invariant == Spec => []IInv
BY InitIInv, IInvStep, PTL DEF Spec

(* Every reachable state of the connection has its type; no pairing shows  *)
(* more than MAX_QR_REFRESH codes.                                         *)
THEOREM TypeCorrect == Spec => []TypeOK
<1>1. IInv => TypeOK
  BY DEF IInv
<1> QED
  BY <1>1, Invariant, PTL

(* A bridge polls a Hub only with a token that this Hub has accepted or    *)
(* issued, whoever writes the credential file meanwhile and whichever Hub  *)
(* it names.                                                               *)
THEOREM OnlyAccepted == Spec => []RunsWhereAccepted
<1>1. IInv => RunsWhereAccepted
  BY DEF IInv, Granted, RunsWhereAccepted, Settled
<1> QED
  BY <1>1, Invariant, PTL
=============================================================================
