---------------------------- MODULE SessionStore ----------------------------
(***************************************************************************)
(* transport/session_store.rs: the table from conversation to the agent's  *)
(* session id that the adapters without a Hub keep, and its file.  Every   *)
(* transport opens a store of its own on the profile's file, and after a   *)
(* reconnect two of them may be in use at once.                            *)
(* The replacement of the file (write_atomically) is one step.             *)
(***************************************************************************)
EXTENDS Naturals, FiniteSets

CONSTANTS
  Store,      \* the stores opened in the life of the file
  Conv,       \* conversation keys
  Session,    \* session ids
  NoSession,  \* no entry
  NoStore     \* nobody

VARIABLES
  file,       \* the entries in the file
  mem,        \* the entries of each store
  opened,     \* stores in use
  dirty,      \* those of them with changes not written, or written in vain
  throttled,  \* those that tried to write within FLUSH_INTERVAL
  writer      \* the store that last replaced the file

Entries == [Conv -> Session \cup {NoSession}]
Cold == [c \in Conv |-> NoSession]

StoreInit ==
  /\ file = Cold
  /\ mem = [s \in Store |-> Cold]
  /\ opened = {} /\ dirty = {} /\ throttled = {}
  /\ writer = NoStore

(* Loading fails softly: a store that cannot read its file starts cold.    *)
OpenStore(s) ==
  /\ opened' = opened \cup {s}
  /\ \E m \in {file, Cold} : mem' = [mem EXCEPT ![s] = m]
  /\ UNCHANGED <<file, dirty, throttled, writer>>

Lookup(s, c) == mem[s][c]

(* Broken form: the mark is cleared before the write.                      *)
FlushForgets(s, m) ==
  /\ throttled' = throttled \cup {s}
  /\ dirty' = dirty \ {s}
  /\ \/ file' = m /\ writer' = s
     \/ UNCHANGED <<file, writer>>

(* flush_locked: the attempt is noted first, so that a failure is not      *)
(* retried within the interval either; only success clears the mark.       *)
Flush(s, m) ==
  /\ throttled' = throttled \cup {s}
  /\ \/ file' = m /\ writer' = s /\ dirty' = dirty \ {s}
     \/ UNCHANGED <<file, writer>> /\ dirty' = dirty \cup {s}

(* Broken form: within the interval nothing is remembered at all.          *)
RememberThrottled(s, c, id) ==
  LET m == [mem[s] EXCEPT ![c] = id] IN
  /\ \/ s \in throttled /\ UNCHANGED <<mem, file, dirty, throttled, writer>>
     \/ s \notin throttled /\ mem' = [mem EXCEPT ![s] = m] /\ Flush(s, m)
  /\ UNCHANGED opened

(* remember: the first write goes to disk at once, later ones at most once *)
(* per interval.                                                           *)
Remember(s, c, id) ==
  LET m == [mem[s] EXCEPT ![c] = id] IN
  /\ mem' = [mem EXCEPT ![s] = m]
  /\ \/ s \in throttled /\ dirty' = dirty \cup {s}
        /\ UNCHANGED <<file, throttled, writer>>
     \/ s \notin throttled /\ Flush(s, m)
  /\ UNCHANGED opened

IntervalEnds(s) ==
  /\ s \in throttled
  /\ throttled' = throttled \ {s}
  /\ UNCHANGED <<file, mem, opened, dirty, writer>>

(* Drop tries once more to write what is still marked.                     *)
DropStore(s) ==
  /\ s \in opened
  /\ opened' = opened \ {s}
  /\ dirty' = dirty \ {s}
  /\ throttled' = throttled \ {s}
  /\ \/ s \in dirty /\ file' = mem[s] /\ writer' = s
     \/ UNCHANGED <<file, writer>>
  /\ UNCHANGED mem

(* The process is killed: no Drop runs.                                    *)
Killed ==
  /\ opened' = {} /\ dirty' = {} /\ throttled' = {}
  /\ UNCHANGED <<file, mem, writer>>

-----------------------------------------------------------------------------
StoreTypeOK ==
  /\ file \in Entries
  /\ mem \in [Store -> Entries]
  /\ opened \subseteq Store
  /\ dirty \subseteq opened /\ throttled \subseteq opened
  /\ writer \in Store \cup {NoStore}

(* A store that is not marked dirty and was the last to replace the file   *)
(* has all its entries in it: throttled and failed writes stay marked, so  *)
(* that the next remember or the Drop makes up for them.                   *)
CleanMeansSaved ==
  \A s \in opened \ dirty : writer = s => file = mem[s]
=============================================================================
