--------------------------- MODULE PollingAdapter ---------------------------
(***************************************************************************)
(* The two adapters that fetch their messages, transport/ilink.rs and      *)
(* transport/telegram.rs: each call of next_inbound asks for what follows  *)
(* a cursor that the pump keeps in its buf, and which a new run of the     *)
(* bridge starts empty.  Asking for what follows a cursor confirms all up  *)
(* to it, and an empty cursor asks for what is not confirmed; the platform *)
(* is external.                                                            *)
(*                                                                         *)
(* Messages are numbered in the order of their arrival.  A cursor is the   *)
(* number of the last message it has passed; 0 stands for the empty buf.   *)
(***************************************************************************)
EXTENDS Naturals, Sequences, FiniteSets, FiniteSetsExt, SequencesExt, Functions

CONSTANTS
  Arrivals,   \* bound: messages that arrive
  MaxRuns     \* bound: runs of the bridge with this adapter

Msg == 1 .. Arrivals

(* "text" may have attachments; "media" is an attachment without text, and *)
(* "other" has neither, or is from a bot.                                  *)
Class == {"text", "media", "other"}

(* What is assumed of the constants; module Transports has it checked.     *)
PollingAssumption == Arrivals \in Nat /\ MaxRuns \in Nat \ {0}

VARIABLES
  kind,       \* the adapter: "ilink" or "telegram"
  class,      \* what each message is
  arrived,    \* messages that arrived
  confirmed,  \* messages the platform need not keep any more
  buf,        \* the cursor of this run
  seen,       \* the last message an answer of this run contained
  inbox,      \* messages given to the pump in this run
  handed,     \* messages given to the pump in any run
  runs        \* bound: runs so far

pollVars == <<confirmed, buf, seen, inbox, handed, runs>>
vars == <<kind, class, arrived, pollVars>>

PollInit ==
  /\ confirmed = 0
  /\ buf = 0
  /\ seen = 0
  /\ inbox = <<>>
  /\ handed = {}
  /\ runs = 1

Init ==
  /\ kind \in {"ilink", "telegram"}
  /\ class \in [Msg -> Class]
  /\ arrived = 0
  /\ PollInit

Arrive ==
  /\ arrived < Arrivals
  /\ arrived' = arrived + 1
  /\ UNCHANGED <<kind, class, pollVars>>

Confirmed == Max({confirmed, buf})

(* The attachments without a text that could be downloaded.                *)
Downloads(batch) == SUBSET { m \in batch : class[m] = "media" }

(* What becomes of an answer with these messages: ilink passes all on, ... *)
IlinkKept(batch) == {batch}

(* Mutant: a message is dropped when its file cannot be downloaded.        *)
TelegramKeptLosingText(batch) ==
  { S \in SUBSET batch : \A m \in S : class[m] # "other" }

(* ... telegram drops those of bots and those with neither a text nor a    *)
(* file that could be downloaded.                                          *)
TelegramKept(batch) ==
  { { m \in batch : class[m] = "text" } \cup files : files \in Downloads(batch) }

Conversions(batch) == IF kind = "ilink" THEN IlinkKept(batch) ELSE TelegramKept(batch)

(* ilink takes the cursor of an answer that has one, and otherwise keeps   *)
(* its own.  That an answer with messages has one is assumed of the Hub.   *)
IlinkCursors(last) == IF last = Confirmed THEN {buf, last} ELSE {last}

(* Mutant: the offset is the last update_id, not the one after it.         *)
NextCursorsOffByOne(last, kept) ==
  IF kind = "ilink" THEN IlinkCursors(last)
  ELSE {IF kept = {} THEN buf ELSE Max({buf, Max(kept) - 1})}

(* telegram counts from the messages it kept.                              *)
NextCursors(last, kept) ==
  IF kind = "ilink" THEN IlinkCursors(last)
  ELSE {IF kept = {} THEN buf ELSE Max({buf, Max(kept)})}

(* The messages as the adapter's loop hands them on: in their order.       *)
InOrder(batch) ==
  CHOOSE s \in SetToSeqs(batch) : \A i, j \in DOMAIN s : i < j => s[i] < s[j]

(* An answer holds the messages up to some point: more may arrive, and the *)
(* platform limits its length.                                             *)
Poll ==
  /\ \E last \in Confirmed .. arrived :
       LET batch == Confirmed + 1 .. last
       IN \E kept \in Conversions(batch) :
            /\ buf' \in NextCursors(last, kept)
            /\ seen' = Max({seen, last})
            /\ inbox' = inbox \o InOrder(kept)
            /\ handed' = handed \cup kept
  /\ confirmed' = Confirmed
  /\ UNCHANGED <<kind, class, arrived, runs>>

(* The request reached the platform, but its answer was lost, an error, or *)
(* could not be parsed; or the pump dropped the call to shut down.         *)
PollFails ==
  /\ confirmed' = Confirmed
  /\ UNCHANGED <<kind, class, arrived, buf, seen, inbox, handed, runs>>

(* The process ends, or the token was rejected and the run loop builds the *)
(* next transport: run_bridge_with_shutdown starts with an empty buf.      *)
NextRun ==
  /\ runs < MaxRuns
  /\ runs' = runs + 1
  /\ buf' = 0
  /\ seen' = 0
  /\ inbox' = <<>>
  /\ UNCHANGED <<kind, class, arrived, confirmed, handed>>

PollNext == Poll \/ PollFails \/ NextRun

Next == Arrive \/ PollNext

Spec == Init /\ [][Next]_vars

-----------------------------------------------------------------------------
(* Properties                                                              *)

TypeOK ==
  /\ kind \in {"ilink", "telegram"}
  /\ class \in [Msg -> Class]
  /\ arrived \in 0 .. Arrivals
  /\ {confirmed, buf, seen} \subseteq 0 .. arrived
  /\ inbox \in Seq(Msg) /\ Len(inbox) <= Arrivals
  /\ handed \subseteq 1 .. arrived
  /\ runs \in 1 .. MaxRuns

(* Within a run the pump gets messages in their order and none twice, lost *)
(* answers and repeated requests notwithstanding.                          *)
InOrderOnce == \A i, j \in DOMAIN inbox : i < j => inbox[i] < inbox[j]

(* The cursor never passes a message with a text that no run was given:    *)
(* neither a lost answer nor a new run makes one disappear.                *)
TextNeverSkipped ==
  \A m \in 1 .. Confirmed : class[m] = "text" => m \in handed
=============================================================================
