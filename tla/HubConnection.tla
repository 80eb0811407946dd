--------------------------- MODULE HubConnection ---------------------------
(***************************************************************************)
(* How a bridge gets the token it polls with: transport/connection.rs,     *)
(* client/pairing.rs and ilink/login.rs, with what run_loop.rs does when   *)
(* the token is refused at run time.  Each step ends where the code awaits *)
(* the network or the file system, so that another process, or a kill, may *)
(* come between any two.                                                   *)
(*                                                                         *)
(* Several processes may use one credential file: the bridge the manager   *)
(* keeps alive, and the one a user starts in a terminal with --pair.  The  *)
(* Hubs (or, via direct, the real upstream) are external: they issue       *)
(* tokens, which several of them may share, and may revoke one.            *)
(***************************************************************************)
EXTENDS Naturals, FiniteSets

CONSTANTS
  Proc,          \* processes that use the credential file
  Managed,       \* those that the manager starts again when they end
  Hub,           \* base URLs a process may be given
  Name,          \* client names
  NoName,        \* no --register-name, no name in the file
  DefaultName,   \* default_auto_client_name: host and profile
  Options,       \* the command lines of each process
  MaxQrRefresh,  \* MAX_QR_REFRESH, 3 in the code
  MaxTokens,     \* bound: tokens ever issued
  MaxEvents      \* bound: kills, revocations, failed requests and writes,
                 \* and starts by the user

NoToken == 0
GivenToken == 1   \* registered by hand, for --token
Token == 1 .. MaxTokens
Creds == [token : Token \cup {NoToken}, base : Hub, name : Name \cup {NoName}]
File == [kind : {"missing", "unusable"}] \cup [kind : {"valid"}, creds : Creds]
Option == [hub : Hub, token : {NoToken, GivenToken}, pair : BOOLEAN,
           force : BOOLEAN, interactive : BOOLEAN, name : Name \cup {NoName}]

ASSUME ConnectionAssumption ==
  /\ Managed \subseteq Proc
  /\ DefaultName \in Name /\ NoName \notin Name
  /\ Options \in [Proc -> (SUBSET Option) \ {{}}]
  /\ {MaxQrRefresh, MaxTokens} \subseteq Nat \ {0}
  /\ MaxEvents \in Nat

VARIABLES
  via,       \* "hub" or "direct", from the profile
  file,      \* the credential file
  pc,        \* where each process stands
  opt,       \* its command line
  hold,      \* the credentials it read, was issued or runs with
  refresh,   \* QR codes it has shown
  accepted,  \* tokens each Hub accepts
  ever,      \* tokens each Hub ever accepted
  issued,    \* the last token issued
  events     \* bound: events left

hubVars == <<accepted, ever, issued>>
vars == <<via, file, pc, opt, hold, refresh, hubVars, events>>

Resolving == {"probe", "load", "validate", "discard", "forced", "rejected",
              "register", "scan", "poll", "save", "saving", "rewrite",
              "rewriting"}
Place == Resolving \cup {"off", "running", "unanswered"}

MissingFile == [kind |-> "missing"]
UnusableFile == [kind |-> "unusable"]
ValidFile(c) == [kind |-> "valid", creds |-> c]

(* local_credential_state takes an empty token for unusable.               *)
Usable == file.kind = "valid"
Accepts(h, t) == t \in accepted[h]
Blank(o) == [token |-> NoToken, base |-> o.hub, name |-> NoName]

Init ==
  /\ via \in {"hub", "direct"}
  /\ file \in {MissingFile, UnusableFile}
  /\ pc = [p \in Proc |-> "off"]
  /\ opt = [p \in Proc |-> CHOOSE o \in Options[p] : TRUE]
  /\ hold = [p \in Proc |-> Blank(opt[p])]
  /\ refresh = [p \in Proc |-> 0]
  /\ accepted = [h \in Hub |-> {GivenToken}]
  /\ ever = accepted
  /\ issued = GivenToken
  /\ events = MaxEvents

Event == events > 0 /\ events' = events - 1

Goes(p, place) == pc' = [pc EXCEPT ![p] = place]
Holds(p, c) == hold' = [hold EXCEPT ![p] = c]

-----------------------------------------------------------------------------
(* Which way to a token                                                    *)

(* qr_login_and_save_direct bails before the QR code if nobody is there to *)
(* scan it; the pairing with a Hub does not ask.                           *)
Login(o) == IF via = "hub" \/ o.interactive THEN "scan" ELSE "off"

(* Without usable credentials: /hub/register, or a QR login upstream.      *)
Obtain(o) == IF via = "hub" THEN "register" ELSE Login(o)

Begin(o) == IF o.token # NoToken THEN "probe" ELSE IF o.pair THEN Login(o) ELSE "load"

Enter(p, o) ==
  /\ Goes(p, Begin(o))
  /\ Holds(p, [Blank(o) EXCEPT !.token = o.token])
  /\ refresh' = [refresh EXCEPT ![p] = 0]

Start(p, o) ==
  /\ pc[p] = "off"
  /\ o \in Options[p]
  /\ opt' = [opt EXCEPT ![p] = o]
  /\ Enter(p, o)
  /\ IF p \in Managed THEN UNCHANGED events ELSE Event
  /\ UNCHANGED <<via, file, hubVars>>

(* --token: accepted as it stands, or the process ends.                    *)
Probe(p) ==
  /\ pc[p] = "probe"
  /\ Goes(p, IF Accepts(opt[p].hub, opt[p].token) THEN "running" ELSE "off")
  /\ UNCHANGED <<via, file, opt, hold, refresh, hubVars, events>>

Load(p) ==
  /\ pc[p] = "load"
  /\ \/ Usable /\ Goes(p, "validate") /\ Holds(p, file.creds)
     \/ file = MissingFile /\ Goes(p, Obtain(opt[p])) /\ UNCHANGED hold
     \/ /\ file = UnusableFile
        /\ Goes(p, IF opt[p].force THEN "forced" ELSE "off")
        /\ UNCHANGED hold
  /\ UNCHANGED <<via, file, opt, refresh, hubVars, events>>

(* Mutant: the token is tried at the Hub of the file.                      *)
ValidatedByFile(p) ==
  /\ pc[p] = "validate" /\ Accepts(hold[p].base, hold[p].token)
  /\ Goes(p, IF hold[p].base = opt[p].hub THEN "running" ELSE "rewrite")
  /\ Holds(p, [hold[p] EXCEPT !.base = opt[p].hub])
  /\ UNCHANGED <<via, file, opt, refresh, hubVars, events>>

(* Against the Hub of the command line, whatever the file says; then the   *)
(* file is rewritten for the next start if it names another one.           *)
Validated(p) ==
  /\ pc[p] = "validate" /\ Accepts(opt[p].hub, hold[p].token)
  /\ Goes(p, IF hold[p].base = opt[p].hub THEN "running" ELSE "rewrite")
  /\ Holds(p, [hold[p] EXCEPT !.base = opt[p].hub])
  /\ UNCHANGED <<via, file, opt, refresh, hubVars, events>>

(* Mutant: a refused token ends the start, as --token does.                *)
RefusedForGood(p) ==
  /\ pc[p] = "validate" /\ ~ Accepts(opt[p].hub, hold[p].token)
  /\ Goes(p, "off")
  /\ UNCHANGED <<via, file, opt, hold, refresh, hubVars, events>>

(* validate_hub_token returns an error: a refusal, ...                     *)
Refused(p) ==
  /\ pc[p] = "validate" /\ ~ Accepts(opt[p].hub, hold[p].token)
  /\ Goes(p, "discard")
  /\ UNCHANGED <<via, file, opt, hold, refresh, hubVars, events>>

(* ... a request that failed, an answer that does not parse or ret # 0.    *)
Unreachable(p) ==
  /\ pc[p] = "validate" /\ Event
  /\ Goes(p, "discard")
  /\ UNCHANGED <<via, file, opt, hold, refresh, hubVars>>

(* The file is removed, whatever it holds by now: refused at the start     *)
(* (the name is kept), unusable and forced, or refused at run time, after  *)
(* which the whole resolution is done again.                               *)
Discard(p) ==
  /\ pc[p] \in {"discard", "forced", "rejected"}
  /\ file' = MissingFile
  /\ IF pc[p] = "rejected" THEN Enter(p, opt[p])
     ELSE Goes(p, Obtain(opt[p])) /\ UNCHANGED <<hold, refresh>>
  /\ UNCHANGED <<via, opt, hubVars, events>>

-----------------------------------------------------------------------------
(* New tokens                                                              *)

(* h issues a token, which the Hubs with the same database accept too.     *)
Issue(h, peers) ==
  /\ issued < MaxTokens /\ h \in peers
  /\ issued' = issued + 1
  /\ accepted' = [g \in Hub |-> IF g \in peers THEN accepted[g] \cup {issued + 1}
                                ELSE accepted[g]]
  /\ ever' = [g \in Hub |-> ever[g] \cup accepted'[g]]

AutoClientName(p) ==
  IF opt[p].name # NoName THEN opt[p].name
  ELSE IF hold[p].name # NoName THEN hold[p].name ELSE DefaultName

Register(p) ==
  /\ pc[p] = "register"
  /\ \E peers \in SUBSET Hub : Issue(opt[p].hub, peers)
  /\ Holds(p, [token |-> issued + 1, base |-> opt[p].hub, name |-> AutoClientName(p)])
  /\ Goes(p, "save")
  /\ UNCHANGED <<via, file, opt, refresh, events>>

(* A Hub that takes the registration and never answers: the only request   *)
(* that has no limit (reqwest::Client::new), for which the start waits     *)
(* until the process is killed.                                            *)
RegisterHangs(p) ==
  /\ pc[p] = "register" /\ Event
  /\ Goes(p, "unanswered")
  /\ UNCHANGED <<via, file, opt, hold, refresh, hubVars>>

(* Mutant: the counter of codes is not kept across the loop.               *)
FetchQrcodeUncounted(p) ==
  /\ pc[p] = "scan"
  /\ refresh' = [refresh EXCEPT ![p] = 1]
  /\ Goes(p, "poll")
  /\ UNCHANGED <<via, file, opt, hold, hubVars, events>>

FetchQrcode(p) ==
  /\ pc[p] = "scan"
  /\ refresh' = [refresh EXCEPT ![p] = @ + 1]
  /\ Goes(p, "poll")
  /\ UNCHANGED <<via, file, opt, hold, hubVars, events>>

(* The Hub's answer may name another of its URLs, which the bridge then    *)
(* uses; the upstream's is not asked.                                      *)
Confirmed(p) ==
  /\ pc[p] = "poll"
  /\ \E peers \in SUBSET Hub :
       /\ Issue(opt[p].hub, peers)
       /\ \E base \in IF via = "hub" THEN peers ELSE {opt[p].hub} :
            Holds(p, [token |-> issued + 1, base |-> base,
                      name |-> IF via = "hub" THEN NoName ELSE DefaultName])
  /\ Goes(p, "save")
  /\ UNCHANGED <<via, file, opt, refresh, events>>

(* Pairing shows a new code, MaxQrRefresh in all; the login gives up.      *)
QrExpires(p) ==
  /\ pc[p] = "poll"
  /\ Goes(p, IF via = "hub" /\ refresh[p] < MaxQrRefresh THEN "scan" ELSE "off")
  /\ UNCHANGED <<via, file, opt, hold, refresh, hubVars, events>>

(* The deadline, the last attempt, or a confirmation without a token.      *)
PollEnds(p) ==
  /\ pc[p] = "poll"
  /\ Goes(p, "off")
  /\ UNCHANGED <<via, file, opt, hold, refresh, hubVars, events>>

-----------------------------------------------------------------------------
(* Writing the file, and running                                           *)

(* tokio::fs::write empties the file before it writes it.                  *)
Truncate(p) ==
  /\ pc[p] \in {"save", "rewrite"}
  /\ file' = UnusableFile
  /\ Goes(p, IF pc[p] = "save" THEN "saving" ELSE "rewriting")
  /\ UNCHANGED <<via, opt, hold, refresh, hubVars, events>>

Write(p) ==
  /\ pc[p] \in {"saving", "rewriting"}
  /\ file' = ValidFile(hold[p])
  /\ Goes(p, "running")
  /\ UNCHANGED <<via, opt, hold, refresh, hubVars, events>>

(* A failed rewrite is ignored.                                            *)
WriteFails(p) ==
  /\ pc[p] \in {"save", "saving", "rewrite", "rewriting"} /\ Event
  /\ Goes(p, IF pc[p] \in {"save", "saving"} THEN "off" ELSE "running")
  /\ UNCHANGED <<via, file, opt, hold, refresh, hubVars>>

(* TokenRejected reaches run_bridge_reconnecting.                          *)
TokenRejected(p) ==
  /\ pc[p] = "running" /\ ~ Accepts(hold[p].base, hold[p].token)
  /\ Goes(p, IF opt[p].token # NoToken THEN "off" ELSE "rejected")
  /\ UNCHANGED <<via, file, opt, hold, refresh, hubVars, events>>

(* A request or a read fails for which the resolution gives up, the        *)
(* process is killed or the user ends it.                                  *)
Ends(p) ==
  /\ pc[p] # "off" /\ Event
  /\ Goes(p, "off")
  /\ UNCHANGED <<via, file, opt, hold, refresh, hubVars>>

Revoke(h, t) ==
  /\ Accepts(h, t) /\ Event
  /\ accepted' = [accepted EXCEPT ![h] = @ \ {t}]
  /\ UNCHANGED <<via, file, pc, opt, hold, refresh, ever, issued>>

Step(p) ==
  \/ Probe(p) \/ Load(p) \/ Validated(p) \/ Refused(p) \/ Discard(p)
  \/ Register(p) \/ FetchQrcode(p) \/ Confirmed(p) \/ QrExpires(p)
  \/ PollEnds(p) \/ Truncate(p) \/ Write(p) \/ TokenRejected(p)

Next ==
  \/ \E p \in Proc :
       Step(p) \/ Unreachable(p) \/ RegisterHangs(p) \/ WriteFails(p) \/ Ends(p)
  \/ \E p \in Proc, o \in Option : Start(p, o)
  \/ \E h \in Hub, t \in Token : Revoke(h, t)

(* The runtime polls the task and the manager starts its bridges again.    *)
(* Every request that Step makes ends, since the client gives it a limit,  *)
(* except a registration: RegisterHangs is the one that does not.  Nothing *)
(* is assumed of the user, nor that a process left waiting is ended.       *)
Fairness ==
  /\ \A p \in Proc : WF_vars(Step(p))
  /\ \A p \in Managed : WF_vars(\E o \in Option : Start(p, o))

Spec == Init /\ [][Next]_vars /\ Fairness

-----------------------------------------------------------------------------
(* Properties                                                              *)

(* Every variable has its type, and no more codes are shown than allowed.  *)
TypeOK ==
  /\ via \in {"hub", "direct"}
  /\ file \in File
  /\ pc \in [Proc -> Place]
  /\ opt \in [Proc -> Option]
  /\ hold \in [Proc -> Creds]
  /\ refresh \in [Proc -> 0 .. MaxQrRefresh]
  /\ accepted \in [Hub -> SUBSET Token] /\ ever \in [Hub -> SUBSET Token]
  /\ issued \in Token
  /\ events \in 0 .. MaxEvents

(* A bridge polls a Hub with a token that this Hub has accepted or issued, *)
(* although the file may name another Hub and another process may write it *)
(* meanwhile (connection.rs, "Always validate against the explicitly       *)
(* provided hub URL").                                                     *)
RunsWhereAccepted ==
  \A p \in Proc : pc[p] = "running" => hold[p].token \in ever[hold[p].base]

(* However the user and the Hub behave, a process that looks for a token   *)
(* comes to run with one, to end, or to wait for an answer to its          *)
(* registration: MAX_QR_REFRESH, the deadlines of the polls and the limits *)
(* of the other requests leave no other place to stay for ever.            *)
EveryStartEnds ==
  \A p \in Proc : pc[p] \in Resolving ~> pc[p] \in {"off", "running", "unanswered"}

(* When Hub and disk stop failing, a managed bridge runs again and again,  *)
(* with no help by a user: via hub unless the file is unusable, via direct *)
(* as long as there are credentials, and unless a registration is left     *)
(* unanswered, which nothing but a kill ends.                              *)
ComesBack ==
  \A p \in Managed :
    []<>(\/ pc[p] \in {"running", "unanswered"}
        \/ file.kind \in IF via = "hub" THEN {"unusable"}
                         ELSE {"missing", "unusable"})

(* "There is no automatic fallback to QR or register when the Hub is       *)
(* unreachable" (connection.rs): saved credentials whose token every Hub   *)
(* accepts are not removed.                                                *)
GoodCredentialsSurvive ==
  [][\A h \in Hub : Usable /\ file' = MissingFile => ~ Accepts(h, file.creds.token)]_vars
=============================================================================
