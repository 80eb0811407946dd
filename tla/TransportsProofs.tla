-------------------------- MODULE TransportsProofs --------------------------
(***************************************************************************)
(* For any number of messages, runs, sessions, tasks and ticks, any bounds *)
(* and any limits and token lifetimes that satisfy the assumptions: the    *)
(* five invariants of Transports hold, whichever adapter the profile chose.*)
(*                                                                         *)
(* None is inductive.  The order of what a polling adapter hands on needs  *)
(* that all of it is at or before the cursor (GivenPassed), and that the   *)
(* messages kept of an answer can be put in order at all (Sortable).  The  *)
(* order behind Discord's gateway needs that a session's log is in order   *)
(* (LogsSound), that what it holds past the worker's sequence number is    *)
(* later than all that was read, over a connection as well as in what is   *)
(* kept to resume one (LinkSound), and that a download blocks the reading  *)
(* (PumpSound).  Feishu's token cache may overstate the age it gives a     *)
(* token by the duration of the token request (CacheHonest); what is left  *)
(* of the buffer is longer than a use, so that a token just taken outlives *)
(* its use (InTime).                                                       *)
(*                                                                         *)
(* Sorting takes an induction.  Its hypothesis is a set of numbers, so     *)
(* that the least element of the numbers outside it will do (WFMin).       *)
(***************************************************************************)
EXTENDS Transports, FiniteSets, FiniteSetTheorems, SequenceTheorems, WellFoundedInduction,
        TLAPS

-----------------------------------------------------------------------------
(* Numbers, sets of numbers, increasing sequences                          *)

LEMMA LeastNumber ==
  ASSUME NEW T \in SUBSET Nat, T # {} PROVE \E n \in T : \A k \in T : n <= k
<1>1. IsWellFoundedOn(OpToRel(<, Nat), Nat)
  BY NatLessThanWellFounded
<1>2. PICK n \in T : \A k \in T : ~ (<<k, n>> \in OpToRel(<, Nat))
  BY <1>1, WFMin
<1>3. \A k \in T : ~ (k < n)
  BY <1>2 DEF OpToRel
<1> QED
  BY <1>3

(* Induction, with a set in the place of a predicate.                      *)
LEMMA NumberInduction ==
  ASSUME NEW S, 0 \in S, \A n \in Nat : n \in S => n + 1 \in S PROVE Nat \subseteq S
<1> SUFFICES ASSUME Nat \ S # {} PROVE FALSE
  OBVIOUS
<1>1. PICK n \in Nat \ S : \A k \in Nat \ S : n <= k
  BY LeastNumber
<1>2. n # 0 /\ n - 1 \in Nat /\ n - 1 \in S
  BY <1>1
<1> QED
  BY <1>1, <1>2

LEMMA Greatest ==
  ASSUME NEW S \in SUBSET Nat, S # {}, NEW b \in Nat, \A k \in S : k <= b
  PROVE  \E n \in S : \A k \in S : k <= n
<1> DEFINE Bounds == { n \in Nat : \A k \in S : k <= n }
<1>1. PICK n \in Bounds : \A k \in Bounds : n <= k
  BY LeastNumber
<1>2. CASE n \in S
  BY <1>1, <1>2
<1>3. CASE n \notin S
  <2>0. n \in Nat
    BY <1>1
  <2>1. ASSUME NEW k \in S PROVE k \in Nat /\ k < n
    <3>1. k \in Nat /\ k <= n /\ k # n
      BY <1>1, <1>3
    <3> QED
      BY <2>0, <3>1
  <2>2. n # 0
    <3>1. PICK k \in S : TRUE
      OBVIOUS
    <3> QED
      BY <2>1, <3>1
  <2>3. n - 1 \in Nat /\ \A k \in S : k <= n - 1
    BY <2>0, <2>1, <2>2
  <2>4. n - 1 \in Bounds
    BY <2>3
  <2>5. n <= n - 1
    BY <1>1, <2>4
  <2> QED
    BY <1>1, <2>5
<1> QED
  BY <1>2, <1>3

LEMMA MaxIs ==
  ASSUME NEW S \in SUBSET Nat, S # {}, NEW b \in Nat, \A k \in S : k <= b
  PROVE  Poll!Max(S) \in S /\ Poll!Max(S) \in Nat /\ \A k \in S : k <= Poll!Max(S)
<1>1. PICK n \in S : \A k \in S : n >= k
  BY Greatest
<1> QED
  BY <1>1 DEF Poll!Max

LEMMA MaxOfTwo ==
  ASSUME NEW a \in Nat, NEW b \in Nat
  PROVE  /\ Poll!Max({a, b}) \in {a, b} /\ Poll!Max({a, b}) \in Nat
         /\ a <= Poll!Max({a, b}) /\ b <= Poll!Max({a, b})
<1>1. \A k \in {a, b} : k <= a + b
  OBVIOUS
<1>2. {a, b} \in SUBSET Nat /\ {a, b} # {} /\ a + b \in Nat
  OBVIOUS
<1> QED
  BY <1>1, <1>2, MaxIs

Increasing(s) == \A i, j \in DOMAIN s : i < j => s[i] < s[j]

(* A bounded set of numbers can be put in order.                           *)
LEMMA Sortable ==
  ASSUME NEW b \in Nat, NEW S \in SUBSET (1 .. b)
  PROVE  \E s \in [1 .. Cardinality(S) -> S] : Increasing(s)
<1> DEFINE Good == { n \in Nat : \A T \in SUBSET (1 .. b) :
                       Cardinality(T) = n => \E s \in [1 .. n -> T] : Increasing(s) }
<1>1. \A T \in SUBSET (1 .. b) : IsFiniteSet(T) /\ Cardinality(T) \in Nat
  <2>1. IsFiniteSet(1 .. b)
    BY FS_Interval
  <2> QED
    BY <2>1, FS_Subset, FS_CardinalityType
<1>2. 0 \in Good
  <2> SUFFICES ASSUME NEW T \in SUBSET (1 .. b), Cardinality(T) = 0
               PROVE  \E s \in [1 .. 0 -> T] : Increasing(s)
    OBVIOUS
  <2>1. [i \in 1 .. 0 |-> i] \in [1 .. 0 -> T] /\ Increasing([i \in 1 .. 0 |-> i])
    BY DEF Increasing
  <2> QED
    BY <2>1
<1>3. ASSUME NEW n \in Nat, n \in Good PROVE n + 1 \in Good
  <2> SUFFICES ASSUME NEW T \in SUBSET (1 .. b), Cardinality(T) = n + 1
               PROVE  \E s \in [1 .. n + 1 -> T] : Increasing(s)
    OBVIOUS
  <2>1. T # {}
    BY FS_EmptySet, <1>1
  <2>2. PICK m \in T : \A k \in T : k <= m
    <3>1. T \in SUBSET Nat /\ \A k \in T : k <= b
      OBVIOUS
    <3> QED
      BY <2>1, <3>1, Greatest
  <2>3. Cardinality(T \ {m}) = n
    BY <1>1, FS_RemoveElement
  <2>4. PICK s \in [1 .. n -> T \ {m}] : Increasing(s)
    BY <1>3, <2>3
  <2> DEFINE t == [i \in 1 .. n + 1 |-> IF i = n + 1 THEN m ELSE s[i]]
  <2>5. \A i \in 1 .. n : s[i] \in T /\ s[i] < m
    <3> SUFFICES ASSUME NEW i \in 1 .. n PROVE s[i] \in T /\ s[i] < m
      OBVIOUS
    <3>1. s[i] \in T /\ s[i] # m /\ s[i] <= m
      BY <2>2
    <3>2. T \subseteq Nat
      OBVIOUS
    <3>3. s[i] \in Nat /\ m \in Nat
      BY <2>2, <3>1, <3>2
    <3> HIDE DEF Good
    <3> QED
      BY <3>1, <3>3
  <2>6. t \in [1 .. n + 1 -> T]
    BY <2>5
  <2>7. Increasing(t)
    <3> SUFFICES ASSUME NEW i \in 1 .. n + 1, NEW j \in 1 .. n + 1, i < j
                 PROVE  t[i] < t[j]
      BY DEF Increasing
    <3>1. i \in 1 .. n /\ t[i] = s[i] /\ i # n + 1
      BY <1>3
    <3>2. CASE j = n + 1
      BY <2>5, <3>1, <3>2
    <3>3. CASE j \in 1 .. n
      BY <2>4, <3>1, <3>3 DEF Increasing
    <3> QED
      BY <3>2, <3>3
  <2> QED
    BY <2>6, <2>7
<1> HIDE DEF Good
<1>4. Nat \subseteq Good
  BY <1>2, <1>3, NumberInduction
<1> QED
  BY <1>1, <1>4 DEF Good

LEMMA SameCardinality == \A S : Poll!Cardinality(S) = Cardinality(S)
BY DEF Poll!Cardinality, Cardinality, Poll!IsFiniteSet, IsFiniteSet

LEMMA InOrderIs ==
  ASSUME NEW b \in Nat, NEW S \in SUBSET (1 .. b)
  PROVE  /\ Poll!InOrder(S) \in Seq(S)
         /\ Increasing(Poll!InOrder(S))
<1>1. PICK s \in [1 .. Cardinality(S) -> S] : Increasing(s)
  BY Sortable
<1>2. Cardinality(S) \in Nat
  <2>1. IsFiniteSet(1 .. b)
    BY FS_Interval
  <2> QED
    BY <2>1, FS_Subset, FS_CardinalityType
<1>3. \A i, j \in 1 .. Cardinality(S) : i # j => s[i] # s[j]
  <2> SUFFICES ASSUME NEW i \in 1 .. Cardinality(S), NEW j \in 1 .. Cardinality(S), i # j
               PROVE  s[i] # s[j]
    OBVIOUS
  <2>0. DOMAIN s = 1 .. Cardinality(S) /\ s[i] \in S /\ s[j] \in S
    BY <1>1
  <2>1. DOMAIN s = 1 .. Cardinality(S) /\ s[i] \in Nat /\ s[j] \in Nat
    <3>1. S \subseteq Nat
      OBVIOUS
    <3> QED
      BY <2>0, <3>1
  <2>2. i < j \/ j < i
    BY <1>2
  <2>3. s[i] < s[j] \/ s[j] < s[i]
    BY <1>1, <2>1, <2>2 DEF Increasing
  <2> QED
    BY <2>1, <2>3
<1>4. s \in Poll!SetToSeqs(S)
  BY <1>1, <1>3, SameCardinality DEF Poll!SetToSeqs
<1>5. Poll!InOrder(S) \in Poll!SetToSeqs(S) /\ Increasing(Poll!InOrder(S))
  BY <1>1, <1>4 DEF Poll!InOrder, Increasing
<1>6. Poll!InOrder(S) \in [1 .. Cardinality(S) -> S]
  BY <1>5, SameCardinality DEF Poll!SetToSeqs
<1> QED
  BY <1>2, <1>5, <1>6

(* An increasing sequence of positive numbers is no longer than its bound. *)
LEMMA IncreasingLen ==
  ASSUME NEW b \in Nat, NEW s \in Seq(1 .. b), Increasing(s) PROVE Len(s) <= b
<1>1. Len(s) \in Nat /\ DOMAIN s = 1 .. Len(s) /\ \A i \in 1 .. Len(s) : s[i] \in 1 .. b
  BY LenProperties, ElementOfSeq
<1> DEFINE Low == { i \in 1 .. Len(s) : s[i] < i }
<1>2. Low = {}
  <2> SUFFICES ASSUME Low # {} PROVE FALSE
    OBVIOUS
  <2>1. Low \in SUBSET Nat
    OBVIOUS
  <2>2. PICK i \in Low : \A k \in Low : i <= k
    BY <2>1, LeastNumber
  <2>3. i \in 1 .. Len(s) /\ s[i] < i /\ s[i] \in Nat /\ s[i] >= 1
    BY <1>1, <2>2
  <2>4. i - 1 \in 1 .. Len(s) /\ i - 1 \notin Low
    BY <1>1, <2>2, <2>3
  <2> DEFINE j == i - 1
  <2>5. j \in 1 .. Len(s) /\ j < i /\ s[j] \in Nat
    BY <1>1, <2>3, <2>4
  <2>6. ~ (s[j] < j)
    BY <2>4, <2>5
  <2>7. s[j] < s[i]
    BY <1>1, <2>3, <2>5 DEF Increasing
  <2> QED
    BY <1>1, <2>3, <2>5, <2>6, <2>7
<1>3. Len(s) # 0 => s[Len(s)] >= Len(s) /\ s[Len(s)] <= b
  BY <1>1, <1>2
<1> QED
  BY <1>1, <1>3

-----------------------------------------------------------------------------
(* PollingAdapter                                                          *)

(* What the pump was given in this run is not past the cursor.             *)
GivenPassed == \A i \in DOMAIN inbox : inbox[i] <= buf

PollInv ==
  Poll!TypeOK /\ Increasing(inbox) /\ GivenPassed /\ Poll!TextNeverSkipped

LEMMA PollParts ==
  ASSUME PollInv
  PROVE  /\ confirmed \in Nat /\ buf \in Nat /\ seen \in Nat /\ arrived \in Nat
         /\ confirmed <= arrived /\ buf <= arrived /\ seen <= arrived
         /\ arrived <= Arrivals
         /\ inbox \in Seq(1 .. Arrivals) /\ handed \subseteq 1 .. arrived
         /\ DOMAIN inbox = 1 .. Len(inbox) /\ Len(inbox) \in Nat
         /\ \A i \in 1 .. Len(inbox) : inbox[i] \in Nat
         /\ kind \in {"ilink", "telegram"}
<1>1. {confirmed, buf, seen} \subseteq 0 .. arrived /\ arrived \in 0 .. Arrivals
      /\ inbox \in Seq(1 .. Arrivals) /\ handed \subseteq 1 .. arrived
      /\ kind \in {"ilink", "telegram"}
  BY DEF PollInv, Poll!TypeOK, Poll!Msg
<1>2. Len(inbox) \in Nat /\ DOMAIN inbox = 1 .. Len(inbox)
      /\ \A i \in 1 .. Len(inbox) : inbox[i] \in 1 .. Arrivals
  BY <1>1, LenProperties, ElementOfSeq
<1> QED
  BY <1>1, <1>2

LEMMA PollConstants == Arrivals \in Nat /\ MaxRuns \in Nat \ {0}
BY TransportsAssumption DEF Poll!PollingAssumption

LEMMA ConfirmedIs ==
  ASSUME PollInv
  PROVE  /\ Poll!Confirmed \in Nat /\ Poll!Confirmed <= arrived
         /\ confirmed <= Poll!Confirmed /\ buf <= Poll!Confirmed
<1>1. confirmed \in Nat /\ buf \in Nat /\ confirmed <= arrived /\ buf <= arrived
  BY PollParts
<1> QED
  BY <1>1, MaxOfTwo DEF Poll!Confirmed

(* An answer: its messages are those after the cursor, all with a text are *)
(* kept, and the next cursor passes the kept ones and no other.            *)
LEMMA KeptIs ==
  ASSUME PollInv, NEW last \in Poll!Confirmed .. arrived,
         NEW kept \in Poll!Conversions(Poll!Confirmed + 1 .. last),
         NEW next \in Poll!NextCursors(last, kept)
  PROVE  /\ kept \subseteq Poll!Confirmed + 1 .. last
         /\ \A m \in Poll!Confirmed + 1 .. last : class[m] = "text" => m \in kept
         /\ next \in Nat /\ buf <= next /\ next <= last
         /\ \A m \in kept : m <= next
<1> DEFINE c == Poll!Confirmed
           batch == c + 1 .. last
<1>1. c \in Nat /\ last \in Nat /\ c <= last /\ buf <= c /\ buf \in Nat
  BY PollParts, ConfirmedIs
<1>2. kept \subseteq batch /\ \A m \in batch : class[m] = "text" => m \in kept
  <2>1. CASE kind = "ilink"
    BY <2>1 DEF Poll!Conversions, Poll!IlinkKept
  <2>2. CASE kind # "ilink"
    BY <2>2 DEF Poll!Conversions, Poll!TelegramKept, Poll!Downloads
  <2> QED
    BY <2>1, <2>2
<1> HIDE DEF c
<1>3. kept \in SUBSET Nat /\ \A m \in kept : m <= last /\ m \in Nat
  BY <1>1, <1>2
<1>4. CASE kind = "ilink"
  <2>1. next = last \/ (next = buf /\ last = c)
    BY <1>4 DEF Poll!NextCursors, Poll!IlinkCursors, c
  <2>2. CASE next = last
    BY <1>1, <1>2, <1>3, <2>2 DEF c
  <2>3. CASE next = buf /\ last = c
    <3>1. kept = {}
      BY <1>1, <1>2, <2>3
    <3> QED
      BY <1>1, <1>2, <2>3, <3>1 DEF c
  <2> QED
    BY <2>1, <2>2, <2>3
<1>5. CASE kind # "ilink" /\ kept = {}
  BY <1>1, <1>2, <1>5 DEF Poll!NextCursors, c
<1>6. CASE kind # "ilink" /\ kept # {}
  <2> DEFINE top == Poll!Max(kept)
  <2>1. top \in kept /\ top \in Nat /\ \A m \in kept : m <= top
    BY <1>1, <1>3, <1>6, MaxIs
  <2>2. top <= last
    BY <1>3, <2>1
  <2>3. next = Poll!Max({buf, top})
    BY <1>6 DEF Poll!NextCursors
  <2> HIDE DEF top
  <2>4. next \in {buf, top} /\ next \in Nat /\ buf <= next /\ top <= next
    BY <1>1, <2>1, <2>3, MaxOfTwo
  <2>5. ASSUME NEW m \in kept PROVE m <= next
    BY <1>3, <2>1, <2>4
  <2>6. next <= last
    BY <1>1, <2>2, <2>4
  <2> QED
    BY <1>2, <2>4, <2>5, <2>6 DEF c
<1> QED
  BY <1>4, <1>5, <1>6

LEMMA Longer ==
  ASSUME NEW b \in Nat, NEW s \in Seq(1 .. b), NEW t \in Seq(1 .. b), NEW n \in Nat,
         Increasing(s), Increasing(t),
         \A i \in DOMAIN s : s[i] <= n, \A i \in DOMAIN t : n < t[i]
  PROVE  /\ s \o t \in Seq(1 .. b) /\ Increasing(s \o t)
         /\ \A i \in DOMAIN (s \o t) : \/ \E j \in DOMAIN s : (s \o t)[i] = s[j]
                                       \/ \E j \in DOMAIN t : (s \o t)[i] = t[j]
<1> DEFINE u == s \o t
<1>1. /\ Len(s) \in Nat /\ DOMAIN s = 1 .. Len(s) /\ \A i \in 1 .. Len(s) : s[i] \in Nat
      /\ Len(t) \in Nat /\ DOMAIN t = 1 .. Len(t) /\ \A i \in 1 .. Len(t) : t[i] \in Nat
  <2>1. /\ Len(s) \in Nat /\ DOMAIN s = 1 .. Len(s) /\ \A i \in 1 .. Len(s) : s[i] \in 1 .. b
        /\ Len(t) \in Nat /\ DOMAIN t = 1 .. Len(t) /\ \A i \in 1 .. Len(t) : t[i] \in 1 .. b
    BY LenProperties, ElementOfSeq
  <2> QED
    BY <2>1
<1>2. /\ u \in Seq(1 .. b) /\ Len(u) = Len(s) + Len(t) /\ DOMAIN u = 1 .. Len(u)
      /\ \A i \in 1 .. Len(u) : u[i] = IF i <= Len(s) THEN s[i] ELSE t[i - Len(s)]
  <2>1. /\ u \in Seq(1 .. b) /\ Len(u) = Len(s) + Len(t)
        /\ \A i \in 1 .. Len(s) + Len(t) : u[i] = IF i <= Len(s) THEN s[i] ELSE t[i - Len(s)]
    BY ConcatProperties
  <2> HIDE DEF u
  <2>2. DOMAIN u = 1 .. Len(u)
    BY <2>1, LenProperties
  <2> QED
    BY <2>1, <2>2
<1> HIDE DEF u
<1>3. ASSUME NEW i \in DOMAIN u
      PROVE  IF i <= Len(s) THEN i \in DOMAIN s /\ u[i] = s[i]
             ELSE i - Len(s) \in DOMAIN t /\ u[i] = t[i - Len(s)]
  BY <1>1, <1>2
<1>4. ASSUME NEW i \in DOMAIN u, NEW j \in DOMAIN u, i < j PROVE u[i] < u[j]
  <2>0. i \in Nat /\ j \in Nat
    BY <1>1, <1>2
  <2>1. CASE j <= Len(s)
    <3>1. i \in DOMAIN s /\ j \in DOMAIN s /\ u[i] = s[i] /\ u[j] = s[j]
      BY <1>1, <1>3, <1>4, <2>0, <2>1
    <3> QED
      BY <1>4, <3>1 DEF Increasing
  <2>2. CASE ~ (i <= Len(s))
    <3>1. /\ i - Len(s) \in DOMAIN t /\ j - Len(s) \in DOMAIN t
          /\ u[i] = t[i - Len(s)] /\ u[j] = t[j - Len(s)]
          /\ i - Len(s) < j - Len(s)
      BY <1>1, <1>3, <1>4, <2>0, <2>2
    <3> QED
      BY <3>1 DEF Increasing
  <2>3. CASE i <= Len(s) /\ ~ (j <= Len(s))
    <3>1. /\ i \in DOMAIN s /\ u[i] = s[i] /\ s[i] \in Nat /\ s[i] <= n
          /\ u[j] \in Nat /\ n < u[j]
      BY <1>1, <1>3, <2>3
    <3> QED
      BY <3>1
  <2> QED
    BY <2>1, <2>2, <2>3
<1>5. Increasing(u)
  BY <1>4 DEF Increasing
<1>6. ASSUME NEW i \in DOMAIN u
      PROVE  (\E j \in DOMAIN s : u[i] = s[j]) \/ (\E j \in DOMAIN t : u[i] = t[j])
  BY <1>3
<1> QED
  BY <1>2, <1>5, <1>6 DEF u

LEMMA PollStep == ASSUME PollInv, Poll!Poll PROVE PollInv'
<1> DEFINE c == Poll!Confirmed
<1>0. PICK last \in c .. arrived : \E kept \in Poll!Conversions(c + 1 .. last) :
        /\ buf' \in Poll!NextCursors(last, kept) /\ seen' = Poll!Max({seen, last})
        /\ inbox' = inbox \o Poll!InOrder(kept) /\ handed' = handed \cup kept
  BY DEF Poll!Poll
<1>1. PICK kept \in Poll!Conversions(c + 1 .. last) :
        /\ buf' \in Poll!NextCursors(last, kept) /\ seen' = Poll!Max({seen, last})
        /\ inbox' = inbox \o Poll!InOrder(kept) /\ handed' = handed \cup kept
  BY <1>0
<1>2. confirmed' = c /\ runs' = runs /\ class' = class /\ kind' = kind /\ arrived' = arrived
  BY DEF Poll!Poll
<1>3. c \in Nat /\ c <= arrived /\ confirmed <= c /\ buf <= c
  BY ConfirmedIs
<1>4. /\ kept \subseteq c + 1 .. last
      /\ \A m \in c + 1 .. last : class[m] = "text" => m \in kept
      /\ buf' \in Nat /\ buf <= buf' /\ buf' <= last
      /\ \A m \in kept : m <= buf'
  BY <1>1, KeptIs
<1>t. \A m \in 1 .. c : class[m] = "text" => m \in handed
  BY DEF PollInv, Poll!TextNeverSkipped
<1> HIDE DEF c
<1>5. last \in Nat /\ c <= last /\ last <= arrived /\ arrived \in Nat /\ arrived <= Arrivals
      /\ Arrivals \in Nat /\ buf \in Nat
  BY <1>1, <1>3, PollParts, PollConstants
<1> DEFINE t == Poll!InOrder(kept)
<1>6. t \in Seq(kept) /\ Increasing(t)
  <2>1. kept \in SUBSET (1 .. Arrivals)
    BY <1>3, <1>4, <1>5
  <2> QED
    BY <1>5, <2>1, InOrderIs
<1> HIDE DEF t
<1>7. /\ t \in Seq(1 .. Arrivals)
      /\ \A i \in DOMAIN t : t[i] \in kept /\ t[i] \in Nat /\ c < t[i]
  <2>1. Len(t) \in Nat /\ DOMAIN t = 1 .. Len(t) /\ \A i \in 1 .. Len(t) : t[i] \in kept
    BY <1>6, LenProperties, ElementOfSeq
  <2>2. ASSUME NEW m \in kept PROVE m \in 1 .. Arrivals /\ c < m
    BY <1>3, <1>4, <1>5
  <2>3. kept \subseteq 1 .. Arrivals
    BY <2>2
  <2>4. t \in Seq(1 .. Arrivals)
    <3>1. t \in [1 .. Len(t) -> 1 .. Arrivals]
      BY <1>6, <2>1, <2>3, LenProperties
    <3> QED
      BY <2>1, <3>1, SeqDef
  <2> QED
    BY <2>1, <2>2, <2>4
<1>8. inbox \in Seq(1 .. Arrivals) /\ Increasing(inbox)
      /\ \A i \in DOMAIN inbox : inbox[i] <= c
  <2>1. ASSUME NEW i \in DOMAIN inbox PROVE inbox[i] <= c
    <3>1. inbox[i] \in Nat /\ inbox[i] <= buf
      BY PollParts DEF PollInv, GivenPassed
    <3> QED
      BY <1>3, <1>5, <3>1
  <2> QED
    BY <2>1, PollParts DEF PollInv
<1>9. /\ inbox' \in Seq(1 .. Arrivals) /\ Increasing(inbox')
      /\ \A i \in DOMAIN inbox' : \/ \E j \in DOMAIN inbox : inbox'[i] = inbox[j]
                                  \/ \E j \in DOMAIN t : inbox'[i] = t[j]
  <2>1. \A i \in DOMAIN t : c < t[i]
    BY <1>7
  <2>2. inbox' = inbox \o t
    BY <1>1 DEF t
  <2> QED
    BY <1>3, <1>5, <1>6, <1>7, <1>8, <2>1, <2>2, Longer
<1>10. GivenPassed'
  <2> SUFFICES ASSUME NEW i \in DOMAIN inbox' PROVE inbox'[i] <= buf'
    BY DEF GivenPassed
  <2>1. CASE \E j \in DOMAIN inbox : inbox'[i] = inbox[j]
    <3>1. PICK j \in DOMAIN inbox : inbox'[i] = inbox[j]
      BY <2>1
    <3>2. inbox[j] \in Nat /\ inbox[j] <= buf
      BY PollParts DEF PollInv, GivenPassed
    <3> QED
      BY <1>4, <1>5, <3>1, <3>2
  <2>2. CASE \E j \in DOMAIN t : inbox'[i] = t[j]
    BY <1>4, <1>7, <2>2
  <2> QED
    BY <1>9, <2>1, <2>2
<1>11. Len(inbox') <= Arrivals
  BY <1>5, <1>9, IncreasingLen
<1>12. seen' \in 0 .. arrived
  <2>1. seen \in Nat /\ seen <= arrived
    BY PollParts
  <2> QED
    BY <1>1, <1>5, <2>1, MaxOfTwo
<1>13. handed' \subseteq 1 .. arrived
  <2>1. ASSUME NEW m \in kept PROVE m \in 1 .. arrived
    <3>1. m \in c + 1 .. last
      BY <1>4
    <3> QED
      BY <1>3, <1>5, <3>1
  <2>2. kept \subseteq 1 .. arrived
    BY <2>1
  <2> QED
    BY <1>1, <2>2, PollParts
<1>14. Poll!TypeOK'
  BY <1>2, <1>3, <1>4, <1>5, <1>9, <1>11, <1>12, <1>13 DEF PollInv, Poll!TypeOK, Poll!Msg
<1>15. Poll!TextNeverSkipped'
  <2>1. Poll!Confirmed' \in {c, buf'}
    BY <1>2, <1>3, <1>4, MaxOfTwo DEF Poll!Confirmed
  <2>2. ASSUME NEW m \in 1 .. Poll!Confirmed', class[m] = "text" PROVE m \in handed'
    <3>1. m \in Nat /\ 1 <= m /\ m <= last
      BY <1>3, <1>4, <1>5, <2>1
    <3>2. CASE m <= c
      BY <1>1, <1>t, <1>3, <2>2, <3>1, <3>2
    <3>3. CASE ~ (m <= c)
      <4>1. m \in c + 1 .. last
        BY <1>3, <1>5, <3>1, <3>3
      <4> QED
        BY <1>1, <1>4, <2>2, <4>1
    <3> QED
      BY <3>2, <3>3
  <2> QED
    BY <1>2, <2>2 DEF Poll!TextNeverSkipped
<1> QED
  BY <1>9, <1>10, <1>14, <1>15 DEF PollInv

LEMMA PollFailsStep ==
  ASSUME PollInv, Poll!PollFails PROVE PollInv'
<1> DEFINE c == Poll!Confirmed
<1>1. /\ confirmed' = c /\ buf' = buf /\ seen' = seen /\ inbox' = inbox /\ handed' = handed
      /\ runs' = runs /\ kind' = kind /\ class' = class /\ arrived' = arrived
  BY DEF Poll!PollFails
<1>2. c \in Nat /\ c <= arrived /\ buf <= c /\ buf \in Nat /\ arrived \in Nat
  BY ConfirmedIs, PollParts
<1>t. \A m \in 1 .. c : class[m] = "text" => m \in handed
  BY DEF PollInv, Poll!TextNeverSkipped
<1> HIDE DEF c
<1>3. Poll!Confirmed' \in Nat /\ Poll!Confirmed' <= c
  BY <1>1, <1>2, MaxOfTwo DEF Poll!Confirmed
<1>4. Poll!TextNeverSkipped'
  <2>1. \A m \in 1 .. Poll!Confirmed' : m \in 1 .. c
    BY <1>2, <1>3
  <2> QED
    BY <1>1, <1>t, <2>1 DEF Poll!TextNeverSkipped
<1> QED
  BY <1>1, <1>2, <1>4 DEF PollInv, Poll!TypeOK, Increasing, GivenPassed

LEMMA NextRunStep ==
  ASSUME PollInv, Poll!NextRun PROVE PollInv'
<1>1. /\ confirmed' = confirmed /\ buf' = 0 /\ seen' = 0 /\ inbox' = <<>> /\ handed' = handed
      /\ runs' = runs + 1 /\ runs < MaxRuns /\ kind' = kind /\ class' = class
      /\ arrived' = arrived
  BY DEF Poll!NextRun
<1>2. Poll!TextNeverSkipped'
  <2>1. confirmed \in Nat
    BY PollParts
  <2>2. Poll!Confirmed' \in Nat /\ Poll!Confirmed' <= confirmed
    BY <1>1, <2>1, MaxOfTwo DEF Poll!Confirmed
  <2>3. Poll!Confirmed \in Nat /\ confirmed <= Poll!Confirmed
    BY ConfirmedIs
  <2>4. \A m \in 1 .. Poll!Confirmed' : m \in 1 .. Poll!Confirmed
    BY <2>1, <2>2, <2>3
  <2> QED
    BY <1>1, <2>4 DEF PollInv, Poll!TextNeverSkipped
<1>3. Increasing(inbox') /\ GivenPassed'
  BY <1>1 DEF Increasing, GivenPassed
<1>4. runs' \in 1 .. MaxRuns
  BY <1>1, PollConstants DEF PollInv, Poll!TypeOK
<1>5. inbox' \in Seq(1 .. Arrivals) /\ Len(inbox') = 0
  BY <1>1, EmptySeq
<1>6. 0 \in 0 .. arrived /\ 0 <= Arrivals
  <2>1. arrived \in Nat /\ Arrivals \in Nat
    BY PollParts, PollConstants
  <2> QED
    BY <2>1
<1>7. Poll!TypeOK'
  BY <1>1, <1>4, <1>5, <1>6 DEF PollInv, Poll!TypeOK, Poll!Msg
<1> QED
  BY <1>2, <1>3, <1>7 DEF PollInv

LEMMA PollArriveStep ==
  ASSUME PollInv, Poll!Arrive, UNCHANGED kind PROVE PollInv'
<1>1. /\ arrived' = arrived + 1 /\ arrived < Arrivals /\ kind' = kind /\ class' = class
      /\ confirmed' = confirmed /\ buf' = buf /\ seen' = seen /\ inbox' = inbox
      /\ handed' = handed /\ runs' = runs
  BY DEF Poll!Arrive, Poll!pollVars
<1>2. arrived \in Nat /\ Arrivals \in Nat
  BY PollParts, PollConstants
<1>3. 0 .. arrived \subseteq 0 .. arrived' /\ 1 .. arrived \subseteq 1 .. arrived'
      /\ arrived' \in 0 .. Arrivals
  BY <1>1, <1>2
<1>4. Poll!TypeOK'
  BY <1>1, <1>3 DEF PollInv, Poll!TypeOK
<1>5. Poll!TextNeverSkipped'
  BY <1>1 DEF PollInv, Poll!TextNeverSkipped, Poll!Confirmed
<1> QED
  BY <1>1, <1>4, <1>5 DEF PollInv, Increasing, GivenPassed

-----------------------------------------------------------------------------
(* DiscordGateway                                                          *)

(* The gateway logs the messages of a session as they arrive.              *)
LogsSound ==
  \A s \in Discord!Session : \A i \in DOMAIN log[s] :
    /\ log[s][i] <= arrived
    /\ \A j \in DOMAIN log[s] : i < j => log[s][i] < log[s][j]

(* The message being downloaded is later than those the pump was given.    *)
PumpSound ==
  /\ working <= arrived
  /\ \A i \in DOMAIN inbox : /\ inbox[i] <= arrived
                             /\ working # Discord!Nothing => inbox[i] < working

(* All that the session logged past n is later than what was read.         *)
Ahead(s, n) ==
  /\ s \in Discord!Session /\ n <= Len(log[s])
  /\ \A i \in DOMAIN log[s] : i > n /\ log[s][i] # Discord!Ready =>
       working < log[s][i] /\ \A j \in DOMAIN inbox : inbox[j] < log[s][i]

LinkSound ==
  /\ current # Discord!NoSession => conn = "open" /\ Ahead(current, seq)
  /\ resume # Discord!NoResume => conn = "down" /\ Ahead(resume.session, resume.seq)
  /\ conn # "open" => working = Discord!Nothing

DiscordInv ==
  /\ Discord!TypeOK /\ LogsSound /\ PumpSound /\ LinkSound
  /\ Increasing(inbox) /\ Discord!NoGapInSession

LEMMA DiscordConstants ==
  /\ Arrivals \in Nat /\ MaxTicks \in Nat /\ MaxBreaks \in Nat
  /\ MaxSessions \in Nat \ {0}
BY TransportsAssumption DEF Discord!DiscordAssumption

LEMMA DiscordParts ==
  ASSUME DiscordInv
  PROVE  /\ arrived \in Nat /\ arrived <= Arrivals /\ begun \in Nat /\ begun <= MaxSessions
         /\ current \in Nat /\ seq \in Nat /\ working \in Nat
         /\ inbox \in Seq(1 .. Arrivals) /\ Len(inbox) \in Nat /\ DOMAIN inbox = 1 .. Len(inbox)
         /\ \A i \in DOMAIN inbox : inbox[i] \in Nat /\ inbox[i] > 0
         /\ \A s \in Discord!Session :
              /\ Len(log[s]) \in Nat /\ DOMAIN log[s] = 1 .. Len(log[s])
              /\ \A i \in DOMAIN log[s] : log[s][i] \in Nat /\ log[s][i] \in 0 .. Arrivals
<1>0. Arrivals \in Nat /\ MaxSessions \in Nat
  BY DiscordConstants
<1>1. /\ arrived \in 0 .. Arrivals /\ begun \in 0 .. MaxSessions /\ current \in 0 .. begun
      /\ seq \in Nat /\ working \in (1 .. Arrivals) \cup {0}
      /\ inbox \in Seq(1 .. Arrivals)
      /\ log \in [Discord!Session -> Seq((1 .. Arrivals) \cup {0})]
  BY DEF DiscordInv, Discord!TypeOK, Discord!Msg, Discord!Nothing, Discord!Ready
<1>2. /\ Len(inbox) \in Nat /\ DOMAIN inbox = 1 .. Len(inbox)
      /\ \A i \in 1 .. Len(inbox) : inbox[i] \in 1 .. Arrivals
  BY <1>1, LenProperties, ElementOfSeq
<1>3. ASSUME NEW s \in Discord!Session
      PROVE  /\ Len(log[s]) \in Nat /\ DOMAIN log[s] = 1 .. Len(log[s])
             /\ \A i \in DOMAIN log[s] : log[s][i] \in Nat /\ log[s][i] \in 0 .. Arrivals
  <2>1. log[s] \in Seq((1 .. Arrivals) \cup {0})
    BY <1>1
  <2>2. /\ Len(log[s]) \in Nat /\ DOMAIN log[s] = 1 .. Len(log[s])
        /\ \A i \in 1 .. Len(log[s]) : log[s][i] \in (1 .. Arrivals) \cup {0}
    BY <2>1, LenProperties, ElementOfSeq
  <2> QED
    BY <1>0, <2>2
<1>4. /\ arrived \in Nat /\ arrived <= Arrivals /\ begun \in Nat /\ begun <= MaxSessions
      /\ current \in Nat /\ working \in Nat
  BY <1>0, <1>1
<1>5. \A i \in DOMAIN inbox : inbox[i] \in Nat /\ inbox[i] > 0
  BY <1>2
<1> QED
  BY <1>1, <1>2, <1>3, <1>4, <1>5

LEMMA DiscordTypes ==
  ASSUME DiscordInv
  PROVE  /\ class \in [Discord!Msg -> Discord!Class] /\ arrived \in 0 .. Arrivals
         /\ begun \in 0 .. MaxSessions
         /\ log \in [Discord!Session -> Seq(Discord!Msg \cup {Discord!Ready})]
         /\ over \subseteq 1 .. begun /\ conn \in {"down", "open", "hung"}
         /\ resume \in [session : 0 .. begun, seq : Nat]
         /\ current \in 0 .. begun /\ session \in {Discord!NoSession, current} /\ seq \in Nat
         /\ ticks \in 0 .. MaxTicks /\ ack \in BOOLEAN /\ acks \in Nat
         /\ working \in Discord!Msg \cup {Discord!Nothing} /\ inbox \in Seq(Discord!Msg)
         /\ rejected \in BOOLEAN /\ breaks \in 0 .. MaxBreaks
BY DEF DiscordInv, Discord!TypeOK

(* A step that neither logs, reads nor connects.                           *)
LEMMA QuietStep ==
  ASSUME DiscordInv, Discord!TypeOK',
         UNCHANGED <<class, arrived, log, conn, resume, current, seq, working, inbox>>
  PROVE  DiscordInv'
<1>1. LogsSound' /\ PumpSound' /\ Increasing(inbox')
  BY DEF DiscordInv, LogsSound, PumpSound
<1>2. LinkSound'
  BY DEF DiscordInv, LinkSound, Ahead
<1>3. Discord!NoGapInSession'
  BY DEF DiscordInv, Discord!NoGapInSession, Discord!ReadUpTo, Discord!Range
<1> QED
  BY <1>1, <1>2, <1>3 DEF DiscordInv

LEMMA QuietSteps ==
  ASSUME DiscordInv,
         \/ Discord!Tick \/ Discord!Heartbeat \/ Discord!ReadAck
         \/ \E s \in Discord!Session : Discord!SessionExpires(s)
  PROVE  DiscordInv'
<1>1. UNCHANGED <<class, arrived, log, conn, resume, current, seq, working, inbox, begun,
                  session, rejected>>
  BY DEF Discord!Tick, Discord!Heartbeat, Discord!ReadAck, Discord!SessionExpires,
         Discord!gatewayVars, Discord!linkVars, Discord!beatVars
<1>2. /\ over' \subseteq 1 .. begun /\ ticks' \in 0 .. MaxTicks /\ ack' \in BOOLEAN
      /\ acks' \in Nat /\ breaks' \in 0 .. MaxBreaks
  <2>1. /\ over \subseteq 1 .. begun /\ ticks \in 0 .. MaxTicks /\ ack \in BOOLEAN
        /\ acks \in Nat /\ breaks \in 0 .. MaxBreaks
    BY DiscordTypes
  <2>2. MaxTicks \in Nat /\ MaxBreaks \in Nat
    BY DiscordConstants
  <2>3. CASE Discord!Tick
    BY <2>1, <2>2, <2>3 DEF Discord!Tick, Discord!gatewayVars
  <2>4. CASE Discord!Heartbeat
    <3>1. ticks > 0 /\ ticks' = ticks - 1 /\ ack' = FALSE /\ acks' = acks + 1
          /\ over' = over /\ breaks' = breaks
      BY <2>4 DEF Discord!Heartbeat, Discord!gatewayVars
    <3>2. ack' \in BOOLEAN
      BY <3>1
    <3>3. ticks' \in 0 .. MaxTicks /\ acks' \in Nat
      BY <2>1, <2>2, <3>1
    <3> QED
      BY <2>1, <3>1, <3>2, <3>3
  <2>5. CASE Discord!ReadAck
    BY <2>1, <2>2, <2>5 DEF Discord!ReadAck, Discord!gatewayVars
  <2>6. CASE \E s \in Discord!Session : Discord!SessionExpires(s)
    BY <2>1, <2>2, <2>6 DEF Discord!SessionExpires, Discord!Break, Discord!beatVars
  <2> QED
    BY <2>3, <2>4, <2>5, <2>6
<1>3. Discord!TypeOK'
  BY <1>1, <1>2 DEF DiscordInv, Discord!TypeOK
<1> QED
  BY <1>1, <1>3, QuietStep

LEMMA BreaksFewer == ASSUME DiscordInv, Discord!Break PROVE breaks' \in 0 .. MaxBreaks
<1>1. breaks \in 0 .. MaxBreaks /\ MaxBreaks \in Nat
  BY DiscordTypes, DiscordConstants
<1> QED
  BY <1>1 DEF Discord!Break

LEMMA NoResumeTyped ==
  ASSUME DiscordInv PROVE Discord!NoResume \in [session : 0 .. begun, seq : Nat]
<1>1. begun \in Nat
  BY DiscordParts
<1> QED
  BY <1>1 DEF Discord!NoResume, Discord!NoSession

LEMMA ConnectFailsStep ==
  ASSUME DiscordInv, Discord!ConnectFails PROVE DiscordInv'
<1>1. /\ resume' = Discord!NoResume /\ conn = "down" /\ Discord!Break
      /\ UNCHANGED <<class, arrived, begun, log, over, conn, current, session, seq, ticks,
                     ack, acks, working, inbox, rejected>>
  BY DEF Discord!ConnectFails, Discord!gatewayVars, Discord!beatVars
<1>2. Discord!TypeOK'
  BY <1>1, BreaksFewer, NoResumeTyped DEF DiscordInv, Discord!TypeOK
<1>3. LogsSound' /\ PumpSound' /\ Increasing(inbox')
  BY <1>1 DEF DiscordInv, LogsSound, PumpSound
<1>4. LinkSound'
  BY <1>1 DEF DiscordInv, LinkSound, Ahead, Discord!NoResume
<1>5. Discord!NoGapInSession'
  BY <1>1 DEF DiscordInv, Discord!NoGapInSession, Discord!ReadUpTo, Discord!Range,
              Discord!NoResume
<1> QED
  BY <1>2, <1>3, <1>4, <1>5 DEF DiscordInv

(* A connection ends with nothing to resume, or between two frames with    *)
(* the session and the number of the last frame.                           *)
LEMMA HandshakeHangsStep ==
  ASSUME DiscordInv, Discord!HandshakeHangs PROVE DiscordInv'
<1>1. /\ resume' = Discord!NoResume /\ conn = "down" /\ conn' = "hung"
      /\ UNCHANGED <<class, arrived, begun, log, over, current, session, seq, ticks,
                     ack, acks, working, inbox, rejected, breaks>>
  BY DEF Discord!HandshakeHangs, Discord!gatewayVars, Discord!beatVars
<1>2. Discord!TypeOK'
  BY <1>1, NoResumeTyped DEF DiscordInv, Discord!TypeOK
<1>3. LogsSound' /\ PumpSound' /\ Increasing(inbox')
  BY <1>1 DEF DiscordInv, LogsSound, PumpSound
<1>4. LinkSound'
  BY <1>1 DEF DiscordInv, LinkSound, Discord!NoResume
<1>5. Discord!NoGapInSession'
  BY <1>1 DEF DiscordInv, Discord!NoGapInSession, Discord!ReadUpTo, Discord!Range,
              Discord!NoResume
<1> QED
  BY <1>2, <1>3, <1>4, <1>5 DEF DiscordInv

LEMMA EndStep ==
  ASSUME DiscordInv, NEW info, Discord!End(info), rejected' \in BOOLEAN,
         \/ info = Discord!NoResume
         \/ /\ info = [session |-> current, seq |-> seq]
            /\ current # Discord!NoSession /\ working = Discord!Nothing
  PROVE  DiscordInv'
<1>1. /\ conn' = "down" /\ resume' = info /\ current' = 0 /\ session' = 0 /\ seq' = 0
      /\ working' = 0 /\ ticks' = 0 /\ ack' = TRUE /\ acks' = 0 /\ Discord!Break
      /\ UNCHANGED <<class, arrived, begun, log, over, inbox>>
  BY DEF Discord!End, Discord!NoSession, Discord!Nothing, Discord!gatewayVars
<1>2. Discord!TypeOK'
  <2>1. info \in [session : 0 .. begun, seq : Nat]
    BY NoResumeTyped, DiscordTypes
  <2>2. 0 \in 0 .. begun /\ 0 \in 0 .. MaxTicks
    BY DiscordParts, DiscordConstants
  <2> HIDE DEF Discord!TypeOK
  <2>3. class' \in [Discord!Msg -> Discord!Class] /\ arrived' \in 0 .. Arrivals
        /\ begun' \in 0 .. MaxSessions /\ over' \subseteq 1 .. begun'
        /\ log' \in [Discord!Session -> Seq(Discord!Msg \cup {Discord!Ready})]
        /\ inbox' \in Seq(Discord!Msg)
    BY <1>1, DiscordTypes
  <2> QED
    BY <1>1, <2>1, <2>2, <2>3, BreaksFewer
       DEF Discord!TypeOK, Discord!NoSession, Discord!Nothing
<1>3. LogsSound' /\ Increasing(inbox')
  BY <1>1 DEF DiscordInv, LogsSound
<1>4. PumpSound'
  <2>1. 0 <= arrived
    BY DiscordParts
  <2> QED
    BY <1>1, <2>1 DEF DiscordInv, PumpSound, Discord!Nothing
<1>5. CASE info = Discord!NoResume
  <2>1. LinkSound'
    BY <1>1, <1>5 DEF LinkSound, Discord!NoSession, Discord!Nothing, Discord!NoResume
  <2>2. Discord!NoGapInSession'
    BY <1>1, <1>5 DEF Discord!NoGapInSession, Discord!NoSession, Discord!NoResume
  <2> QED
    BY <1>2, <1>3, <1>4, <2>1, <2>2 DEF DiscordInv
<1>6. CASE /\ info = [session |-> current, seq |-> seq]
           /\ current # Discord!NoSession /\ working = Discord!Nothing
  <2>1. resume'.session = current /\ resume'.seq = seq /\ working' = working
    BY <1>1, <1>6 DEF Discord!Nothing
  <2>2. Ahead(current, seq) /\ Discord!ReadUpTo(current, seq)
    BY <1>6 DEF DiscordInv, LinkSound, Discord!NoGapInSession
  <2>3. LinkSound'
    BY <1>1, <2>1, <2>2 DEF LinkSound, Ahead, Discord!NoSession, Discord!Nothing
  <2>4. Discord!NoGapInSession'
    BY <1>1, <2>1, <2>2 DEF Discord!NoGapInSession, Discord!ReadUpTo, Discord!Range,
                            Discord!NoSession
  <2> QED
    BY <1>2, <1>3, <1>4, <2>3, <2>4 DEF DiscordInv
<1> QED
  BY <1>5, <1>6

LEMMA EndingSteps ==
  ASSUME DiscordInv,
         \/ Discord!MissedAck \/ Discord!AskedToResume \/ Discord!InvalidSession
         \/ Discord!ConnectionLost \/ Discord!FatalClose
  PROVE  DiscordInv'
<1>1. rejected \in BOOLEAN
  BY DiscordTypes
<1>2. CASE Discord!AskedToResume
  <2>1. /\ current # Discord!NoSession /\ working = Discord!Nothing /\ rejected' = rejected
        /\ Discord!End(Discord!ResumeInfo)
    BY <1>2 DEF Discord!AskedToResume, Discord!Reading, Discord!Selecting
  <2>2. CASE session = Discord!NoSession
    <3>1. Discord!ResumeInfo = Discord!NoResume
      BY <2>2 DEF Discord!ResumeInfo
    <3> QED
      BY <1>1, <2>1, <3>1, EndStep
  <2>3. CASE session # Discord!NoSession
    <3>1. session = current
      BY <2>3, DiscordTypes
    <3>2. Discord!ResumeInfo = [session |-> current, seq |-> seq]
      BY <2>3, <3>1 DEF Discord!ResumeInfo
    <3> QED
      BY <1>1, <2>1, <3>2, EndStep
  <2> QED
    BY <2>2, <2>3
<1>3. CASE \/ Discord!MissedAck \/ Discord!InvalidSession \/ Discord!ConnectionLost
           \/ Discord!FatalClose
  <2>1. Discord!End(Discord!NoResume) /\ rejected' \in BOOLEAN
    BY <1>1, <1>3 DEF Discord!MissedAck, Discord!InvalidSession, Discord!ConnectionLost,
                      Discord!FatalClose
  <2> QED
    BY <2>1, EndStep
<1> QED
  BY <1>2, <1>3

(* A connection begins: IDENTIFY gets a new session, RESUME the old one.   *)
LEMMA NewConnectionTyped ==
  ASSUME DiscordInv, Discord!NewConnection
  PROVE  /\ resume' \in [session : 0 .. begun, seq : Nat] /\ conn' = "open"
         /\ resume' = Discord!NoResume
         /\ session' = 0 /\ ticks' \in 0 .. MaxTicks /\ ack' \in BOOLEAN /\ acks' \in Nat
         /\ conn = "down" /\ working = Discord!Nothing
<1>1. /\ resume' = Discord!NoResume /\ conn' = "open" /\ session' = 0 /\ ticks' = 0
      /\ ack' = TRUE /\ acks' = 0 /\ conn = "down"
  BY DEF Discord!NewConnection, Discord!NoSession
<1>2. working = Discord!Nothing
  BY <1>1 DEF DiscordInv, LinkSound
<1>3. 0 \in 0 .. MaxTicks
  BY DiscordConstants
<1>4. ack' \in BOOLEAN
  BY <1>1
<1> QED
  BY <1>1, <1>2, <1>3, <1>4, NoResumeTyped

LEMMA IdentifyStep == ASSUME DiscordInv, Discord!Identify PROVE DiscordInv'
<1> DEFINE b == begun + 1
<1>1. /\ begun < MaxSessions /\ begun' = b /\ log' = [log EXCEPT ![b] = <<Discord!Ready>>]
      /\ over' = 1 .. begun /\ current' = b /\ seq' = 0
      /\ UNCHANGED <<class, arrived, working, inbox, rejected, breaks>>
      /\ Discord!NewConnection
  BY DEF Discord!Identify
<1>2. begun \in Nat /\ MaxSessions \in Nat /\ arrived \in Nat
  BY DiscordParts, DiscordConstants
<1>3. b \in Discord!Session /\ b \in 0 .. MaxSessions /\ b # 0 /\ b \in Nat
  BY <1>1, <1>2 DEF Discord!Session
<1>4. 1 .. begun \subseteq 1 .. b /\ b \in 0 .. b /\ 0 .. begun \subseteq 0 .. b
  BY <1>2
<1> HIDE DEF b
<1> DEFINE first == <<Discord!Ready>>
<1>5. /\ first \in Seq(Discord!Msg \cup {Discord!Ready})
      /\ Len(first) = 1 /\ DOMAIN first = 1 .. 1 /\ first[1] = 0
  BY DEF Discord!Ready
<1>6. log \in [Discord!Session -> Seq(Discord!Msg \cup {Discord!Ready})]
  BY DiscordTypes
<1> HIDE DEF first
<1>7. /\ log' \in [Discord!Session -> Seq(Discord!Msg \cup {Discord!Ready})]
      /\ log'[b] = first
      /\ \A s \in Discord!Session : s # b => log'[s] = log[s]
  BY <1>1, <1>3, <1>5, <1>6 DEF first
<1>8. Discord!TypeOK'
  <2>1. /\ resume' \in [session : 0 .. b, seq : Nat] /\ conn' = "open"
        /\ session' = 0 /\ ticks' \in 0 .. MaxTicks /\ ack' \in BOOLEAN /\ acks' \in Nat
    <3>1. /\ resume' \in [session : 0 .. begun, seq : Nat] /\ conn' = "open"
          /\ session' = 0 /\ ticks' \in 0 .. MaxTicks /\ ack' \in BOOLEAN /\ acks' \in Nat
      BY <1>1, NewConnectionTyped
    <3> QED
      BY <1>4, <3>1
  <2>2. 0 \in Nat
    OBVIOUS
  <2> QED
    BY <1>1, <1>3, <1>4, <1>7, <2>1, <2>2, DiscordTypes
       DEF Discord!TypeOK, Discord!NoSession
<1>9. LogsSound'
  <2> SUFFICES ASSUME NEW s \in Discord!Session, NEW i \in DOMAIN log'[s]
               PROVE  /\ log'[s][i] <= arrived'
                      /\ \A j \in DOMAIN log'[s] : i < j => log'[s][i] < log'[s][j]
    BY DEF LogsSound
  <2>1. CASE s = b
    <3>1. i = 1 /\ log'[s][i] = 0 /\ DOMAIN log'[s] = 1 .. 1
      BY <1>5, <1>7, <2>1
    <3> QED
      BY <1>1, <1>2, <3>1
  <2>2. CASE s # b
    BY <1>1, <1>7, <2>2 DEF DiscordInv, LogsSound
  <2> QED
    BY <2>1, <2>2
<1>10. PumpSound' /\ Increasing(inbox')
  BY <1>1 DEF DiscordInv, PumpSound
<1>11. resume' = Discord!NoResume /\ conn' = "open"
  BY <1>1, NewConnectionTyped
<1>12. Ahead(current, seq)'
  <2>1. 0 <= Len(log'[b])
    BY <1>5, <1>7
  <2>2. \A i \in DOMAIN log'[b] : log'[b][i] = Discord!Ready
    BY <1>5, <1>7 DEF Discord!Ready
  <2> QED
    BY <1>1, <1>3, <2>1, <2>2 DEF Ahead
<1>13. LinkSound'
  BY <1>11, <1>12 DEF LinkSound
<1>14. Discord!ReadUpTo(current, seq)'
  <2>1. DOMAIN log'[b] = 1 .. 1
    BY <1>5, <1>7
  <2> QED
    BY <1>1, <2>1 DEF Discord!ReadUpTo
<1>15. Discord!NoGapInSession'
  BY <1>11, <1>14 DEF Discord!NoGapInSession
<1> QED
  BY <1>8, <1>9, <1>10, <1>13, <1>15 DEF DiscordInv

LEMMA ResumeStep == ASSUME DiscordInv, Discord!Resume PROVE DiscordInv'
<1>1. /\ resume # Discord!NoResume /\ seq' = resume.seq
      /\ current' = IF resume.session \in over THEN Discord!NoSession ELSE resume.session
      /\ UNCHANGED <<class, arrived, begun, log, over, working, inbox, rejected, breaks>>
      /\ Discord!NewConnection
  BY DEF Discord!Resume, Discord!gatewayVars
<1>2. resume.session \in 0 .. begun /\ resume.seq \in Nat
  BY DiscordTypes
<1>3. /\ resume' \in [session : 0 .. begun, seq : Nat] /\ conn' = "open"
      /\ resume' = Discord!NoResume
      /\ session' = 0 /\ ticks' \in 0 .. MaxTicks /\ ack' \in BOOLEAN /\ acks' \in Nat
  BY <1>1, NewConnectionTyped
<1>4. current' \in 0 .. begun
  BY <1>1, <1>2, DiscordParts DEF Discord!NoSession
<1>5. Discord!TypeOK'
  BY <1>1, <1>2, <1>3, <1>4, DiscordTypes DEF Discord!TypeOK, Discord!NoSession
<1>6. LogsSound' /\ PumpSound' /\ Increasing(inbox')
  BY <1>1 DEF DiscordInv, LogsSound, PumpSound
<1>7. Ahead(resume.session, resume.seq) /\ Discord!ReadUpTo(resume.session, resume.seq)
  BY <1>1 DEF DiscordInv, LinkSound, Discord!NoGapInSession
<1>8. LinkSound'
  <2>1. current' # Discord!NoSession => Ahead(current, seq)'
    BY <1>1, <1>7 DEF Ahead
  <2> QED
    BY <1>3, <2>1 DEF LinkSound
<1>9. Discord!NoGapInSession'
  <2>1. current' # Discord!NoSession => Discord!ReadUpTo(current, seq)'
    BY <1>1, <1>7 DEF Discord!ReadUpTo, Discord!Range
  <2> QED
    BY <1>3, <2>1 DEF Discord!NoGapInSession
<1> QED
  BY <1>5, <1>6, <1>8, <1>9 DEF DiscordInv

LEMMA DiscordArriveStep ==
  ASSUME DiscordInv, Discord!Arrive PROVE DiscordInv'
<1> DEFINE m == arrived + 1
           grows(s) == s <= begun /\ s \notin over
<1>1. /\ arrived < Arrivals /\ arrived' = m
      /\ log' = [s \in Discord!Session |-> IF grows(s) THEN Append(log[s], m) ELSE log[s]]
      /\ UNCHANGED <<class, begun, over, conn, resume, current, session, seq, ticks, ack, acks,
                     working, inbox, rejected, breaks>>
  BY DEF Discord!Arrive, Discord!linkVars, Discord!beatVars
<1>2. /\ arrived \in Nat /\ Arrivals \in Nat /\ m \in Nat /\ m \in 1 .. Arrivals
      /\ m \in 0 .. Arrivals /\ arrived < m /\ m # 0
  BY <1>1, DiscordParts, DiscordConstants
<1>3. m \in Discord!Msg \cup {Discord!Ready}
  BY <1>2 DEF Discord!Msg
<1> HIDE DEF m
<1>4. ASSUME NEW s \in Discord!Session
      PROVE  /\ log'[s] \in Seq(Discord!Msg \cup {Discord!Ready})
             /\ \/ log'[s] = log[s]
                \/ /\ Len(log'[s]) = Len(log[s]) + 1 /\ DOMAIN log'[s] = 1 .. Len(log[s]) + 1
                   /\ \A i \in 1 .. Len(log[s]) : log'[s][i] = log[s][i]
                   /\ log'[s][Len(log[s]) + 1] = m
  <2>1. log[s] \in Seq(Discord!Msg \cup {Discord!Ready})
    BY DiscordTypes
  <2> DEFINE a == Append(log[s], m)
  <2>2. /\ a \in Seq(Discord!Msg \cup {Discord!Ready}) /\ Len(a) = Len(log[s]) + 1
        /\ \A i \in 1 .. Len(log[s]) : a[i] = log[s][i]
        /\ a[Len(log[s]) + 1] = m
    BY <1>3, <2>1, AppendProperties
  <2>3. DOMAIN a = 1 .. Len(log[s]) + 1
    BY <2>2, LenProperties
  <2>4. log'[s] = IF grows(s) THEN a ELSE log[s]
    BY <1>1
  <2> HIDE DEF a, grows
  <2> QED
    BY <2>1, <2>2, <2>3, <2>4
<1>5. log' \in [Discord!Session -> Seq(Discord!Msg \cup {Discord!Ready})]
  BY <1>1, <1>4
<1> HIDE DEF grows
<1>6. Discord!TypeOK'
  BY <1>1, <1>2, <1>5, DiscordTypes DEF Discord!TypeOK
<1>7. ASSUME NEW s \in Discord!Session, NEW i \in DOMAIN log'[s]
      PROVE  /\ i \in Nat
             /\ \/ i \in DOMAIN log[s] /\ log'[s][i] = log[s][i] /\ log[s][i] \in Nat
                   /\ log[s][i] <= arrived
                \/ i = Len(log[s]) + 1 /\ log'[s][i] = m
  <2>1. /\ Len(log[s]) \in Nat /\ DOMAIN log[s] = 1 .. Len(log[s])
        /\ \A k \in DOMAIN log[s] : log[s][k] \in Nat /\ log[s][k] <= arrived
    BY DiscordParts DEF DiscordInv, LogsSound
  <2> QED
    BY <1>4, <2>1
<1>8. LogsSound'
  <2> SUFFICES ASSUME NEW s \in Discord!Session, NEW i \in DOMAIN log'[s]
               PROVE  /\ log'[s][i] <= arrived'
                      /\ \A j \in DOMAIN log'[s] : i < j => log'[s][i] < log'[s][j]
    BY DEF LogsSound
  <2>1. Len(log[s]) \in Nat /\ DOMAIN log[s] = 1 .. Len(log[s])
    BY DiscordParts
  <2>2. log'[s][i] <= arrived'
    BY <1>1, <1>2, <1>7
  <2>3. ASSUME NEW j \in DOMAIN log'[s], i < j PROVE log'[s][i] < log'[s][j]
    <3>1. CASE j \in DOMAIN log[s] /\ log'[s][j] = log[s][j]
      <4>1. i \in DOMAIN log[s] /\ log'[s][i] = log[s][i]
        BY <1>7, <2>1, <2>3, <3>1
      <4> QED
        BY <2>3, <3>1, <4>1 DEF DiscordInv, LogsSound
    <3>2. CASE j = Len(log[s]) + 1 /\ log'[s][j] = m
      <4>1. i \in DOMAIN log[s] /\ log'[s][i] = log[s][i] /\ log[s][i] \in Nat
            /\ log[s][i] <= arrived
        BY <1>7, <2>1, <2>3, <3>2
      <4> QED
        BY <1>2, <3>2, <4>1
    <3> QED
      BY <1>7, <3>1, <3>2
  <2> QED
    BY <2>2, <2>3
<1>9. PumpSound' /\ Increasing(inbox')
  <2>1. working <= arrived => working <= m
    BY <1>2, DiscordParts
  <2>2. ASSUME NEW i \in DOMAIN inbox PROVE inbox[i] <= m
    <3>1. inbox[i] \in Nat /\ inbox[i] <= arrived
      BY DiscordParts DEF DiscordInv, PumpSound
    <3> QED
      BY <1>2, <3>1
  <2> QED
    BY <1>1, <2>1, <2>2 DEF DiscordInv, PumpSound
<1>10. ASSUME NEW s, NEW n \in Nat, Ahead(s, n)
       PROVE  Ahead(s, n)' /\ (Discord!ReadUpTo(s, n) => Discord!ReadUpTo(s, n)')
  <2>1. s \in Discord!Session /\ n <= Len(log[s])
    BY <1>10 DEF Ahead
  <2>2. Len(log[s]) \in Nat /\ DOMAIN log[s] = 1 .. Len(log[s])
    BY <2>1, DiscordParts
  <2>3. n <= Len(log'[s])
    BY <1>4, <2>1, <2>2
  <2>4. ASSUME NEW i \in DOMAIN log'[s], i > n, log'[s][i] # Discord!Ready
        PROVE  working < log'[s][i] /\ \A j \in DOMAIN inbox : inbox[j] < log'[s][i]
    <3>1. CASE i \in DOMAIN log[s] /\ log'[s][i] = log[s][i]
      BY <1>10, <2>4, <3>1 DEF Ahead
    <3>2. CASE log'[s][i] = m
      <4>1. working \in Nat /\ working <= arrived
        BY DiscordParts DEF DiscordInv, PumpSound
      <4>2. ASSUME NEW j \in DOMAIN inbox PROVE inbox[j] < m
        <5>1. inbox[j] \in Nat /\ inbox[j] <= arrived
          BY DiscordParts DEF DiscordInv, PumpSound
        <5> QED
          BY <1>2, <5>1
      <4> QED
        BY <1>2, <3>2, <4>1, <4>2
    <3> QED
      BY <1>7, <2>1, <3>1, <3>2
  <2>5. Ahead(s, n)'
    BY <1>1, <2>1, <2>3, <2>4 DEF Ahead
  <2>6. ASSUME Discord!ReadUpTo(s, n), NEW i \in DOMAIN log'[s], i <= n
        PROVE  i \in DOMAIN log[s] /\ log'[s][i] = log[s][i]
    BY <1>7, <2>1, <2>2, <2>6
  <2>7. ASSUME Discord!ReadUpTo(s, n) PROVE Discord!ReadUpTo(s, n)'
    <3>1. ASSUME NEW i \in DOMAIN log'[s], i <= n,
                 log'[s][i] # Discord!Ready, class[log'[s][i]] = "text"
          PROVE  log'[s][i] \in Discord!Range(inbox) \cup {working}
      <4>1. i \in DOMAIN log[s] /\ log'[s][i] = log[s][i]
        BY <2>6, <2>7, <3>1
      <4> QED
        BY <2>7, <3>1, <4>1 DEF Discord!ReadUpTo
    <3>2. class' = class /\ inbox' = inbox /\ working' = working
      BY <1>1
    <3> QED
      BY <3>1, <3>2 DEF Discord!ReadUpTo, Discord!Range
  <2> QED
    BY <2>5, <2>7
<1>11. seq \in Nat /\ resume.seq \in Nat
  BY DiscordTypes
<1>12. LinkSound'
  BY <1>1, <1>10, <1>11 DEF DiscordInv, LinkSound
<1>13. Discord!NoGapInSession'
  BY <1>1, <1>10, <1>11 DEF DiscordInv, LinkSound, Discord!NoGapInSession
<1> QED
  BY <1>6, <1>8, <1>9, <1>12, <1>13 DEF DiscordInv

(* One event of the session is read: later than all that was read before.  *)
LEMMA NextEventIs ==
  ASSUME DiscordInv, Discord!HasEvent
  PROVE  /\ current \in Discord!Session /\ current # Discord!NoSession
         /\ conn = "open" /\ working = 0 /\ seq + 1 \in DOMAIN log[current]
         /\ seq \in Nat /\ Len(log[current]) \in Nat
         /\ DOMAIN log[current] = 1 .. Len(log[current])
         /\ Discord!NextEvent = log[current][seq + 1]
         /\ Discord!NextEvent \in Discord!Msg \cup {Discord!Ready}
         /\ Discord!NextEvent \in Nat /\ Discord!NextEvent <= arrived
         /\ Discord!NextEvent # Discord!Ready =>
              \A j \in DOMAIN inbox : inbox[j] < Discord!NextEvent
<1>1. /\ conn = "open" /\ working = 0 /\ current # Discord!NoSession
      /\ seq < Len(log[current])
  BY DEF Discord!HasEvent, Discord!Reading, Discord!Selecting, Discord!Nothing
<1>2. Ahead(current, seq) /\ current \in Discord!Session
  BY <1>1 DEF DiscordInv, LinkSound, Ahead
<1>3. /\ seq \in Nat /\ Len(log[current]) \in Nat
      /\ DOMAIN log[current] = 1 .. Len(log[current])
  BY <1>2, DiscordParts
<1>4. seq + 1 \in DOMAIN log[current] /\ seq + 1 > seq
  BY <1>1, <1>3
<1>5. log[current][seq + 1] \in Nat /\ log[current][seq + 1] <= arrived
  BY <1>2, <1>4, DiscordParts DEF DiscordInv, LogsSound
<1>6. log[current][seq + 1] # Discord!Ready =>
        \A j \in DOMAIN inbox : inbox[j] < log[current][seq + 1]
  BY <1>2, <1>4 DEF Ahead
<1>7. log[current][seq + 1] \in Discord!Msg \cup {Discord!Ready}
  <2>1. log[current] \in Seq(Discord!Msg \cup {Discord!Ready})
    BY <1>2, DiscordTypes
  <2> QED
    BY <1>3, <1>4, <2>1, ElementOfSeq
<1> QED
  BY <1>1, <1>2, <1>3, <1>4, <1>5, <1>6, <1>7 DEF Discord!NextEvent

(* All the session logged past the next event is later than that event.    *)
LEMMA PastNextEvent ==
  ASSUME DiscordInv, Discord!HasEvent, NEW i \in DOMAIN log[current], i > seq + 1
  PROVE  /\ i > seq /\ log[current][i] \in Nat /\ Discord!NextEvent < log[current][i]
         /\ log[current][i] # Discord!Ready =>
              working < log[current][i] /\ \A j \in DOMAIN inbox : inbox[j] < log[current][i]
<1>1. /\ seq \in Nat /\ i \in Nat /\ seq + 1 \in DOMAIN log[current]
      /\ current \in Discord!Session
  BY NextEventIs
<1>2. i > seq
  BY <1>1
<1>3. log[current][i] \in Nat
  BY <1>1, DiscordParts
<1>4. Discord!NextEvent < log[current][i]
  BY <1>1, NextEventIs DEF DiscordInv, LogsSound
<1>5. Ahead(current, seq)
  BY NextEventIs DEF DiscordInv, LinkSound
<1> QED
  BY <1>2, <1>3, <1>4, <1>5 DEF Ahead

LEMMA ReadReadyStep == ASSUME DiscordInv, Discord!ReadReady PROVE DiscordInv'
<1>1. /\ Discord!HasEvent /\ Discord!NextEvent = Discord!Ready /\ seq' = seq + 1
      /\ session' = current
      /\ UNCHANGED <<class, arrived, begun, log, over, conn, resume, current, ticks, ack, acks,
                     working, inbox, rejected, breaks>>
  BY DEF Discord!ReadReady, Discord!gatewayVars, Discord!beatVars
<1>2. /\ current \in Discord!Session /\ seq + 1 \in DOMAIN log[current] /\ seq \in Nat
      /\ Len(log[current]) \in Nat /\ DOMAIN log[current] = 1 .. Len(log[current])
      /\ Discord!NextEvent = log[current][seq + 1] /\ conn = "open"
      /\ current # Discord!NoSession
  BY <1>1, NextEventIs
<1>3. Discord!TypeOK'
  <2>1. seq' \in Nat
    BY <1>1, <1>2
  <2> QED
    BY <1>1, <2>1 DEF DiscordInv, Discord!TypeOK
<1>4. LogsSound' /\ PumpSound' /\ Increasing(inbox')
  BY <1>1 DEF DiscordInv, LogsSound, PumpSound
<1>5. seq' <= Len(log[current])
  BY <1>1, <1>2
<1>6. Ahead(current, seq)'
  BY <1>1, <1>2, <1>5, PastNextEvent DEF Ahead
<1>7. resume' = Discord!NoResume /\ conn' = "open"
  BY <1>1, <1>2 DEF DiscordInv, LinkSound
<1>8. LinkSound'
  BY <1>6, <1>7 DEF LinkSound
<1>9. Discord!NoGapInSession'
  <2>1. Discord!ReadUpTo(current, seq)
    BY <1>2 DEF DiscordInv, Discord!NoGapInSession
  <2> SUFFICES ASSUME NEW i \in DOMAIN log[current], i <= seq + 1,
                      log[current][i] # Discord!Ready, class[log[current][i]] = "text"
               PROVE  log[current][i] \in Discord!Range(inbox) \cup {working}
    BY <1>1, <1>7 DEF Discord!NoGapInSession, Discord!ReadUpTo, Discord!Range
  <2>2. i # seq + 1
    BY <1>1, <1>2
  <2>3. i <= seq
    BY <1>2, <2>2
  <2> QED
    BY <2>1, <2>3 DEF Discord!ReadUpTo
<1> QED
  BY <1>3, <1>4, <1>8, <1>9 DEF DiscordInv

(* The pump gets one message more, later than all before.                  *)
LEMMA InboxGrows ==
  ASSUME DiscordInv, NEW m \in Discord!Msg, inbox' = Append(inbox, m),
         \A j \in DOMAIN inbox : inbox[j] < m
  PROVE  /\ inbox' \in Seq(Discord!Msg) /\ Increasing(inbox')
         /\ Discord!Range(inbox)' = Discord!Range(inbox) \cup {m}
         /\ \A i \in DOMAIN inbox' :
              inbox'[i] = m \/ \E j \in DOMAIN inbox : inbox'[i] = inbox[j]
<1> DEFINE t == Append(inbox, m)
           n == Len(inbox)
<1>1. inbox \in Seq(Discord!Msg) /\ n \in Nat /\ DOMAIN inbox = 1 .. n
  BY DiscordTypes, DiscordParts
<1>2. /\ t \in Seq(Discord!Msg) /\ Len(t) = n + 1
      /\ \A i \in 1 .. n : t[i] = inbox[i]
      /\ t[n + 1] = m
  BY <1>1, AppendProperties
<1>3. inbox' = t
  OBVIOUS
<1> HIDE DEF t, n
<1>4. DOMAIN t = 1 .. n + 1
  BY <1>2, LenProperties
<1>5. ASSUME NEW i \in DOMAIN t
      PROVE  (i \in DOMAIN inbox /\ t[i] = inbox[i]) \/ (i = n + 1 /\ t[i] = m)
  BY <1>1, <1>2, <1>4
<1>6. ASSUME NEW i \in DOMAIN t, NEW j \in DOMAIN t, i < j PROVE t[i] < t[j]
  <2>1. i \in DOMAIN inbox /\ t[i] = inbox[i]
    BY <1>1, <1>4, <1>5, <1>6
  <2>2. CASE j \in DOMAIN inbox /\ t[j] = inbox[j]
    BY <1>6, <2>1, <2>2 DEF DiscordInv, Increasing
  <2>3. CASE t[j] = m
    BY <2>1, <2>3
  <2> QED
    BY <1>5, <2>2, <2>3
<1>7. DOMAIN inbox \subseteq DOMAIN t /\ n + 1 \in DOMAIN t
  BY <1>1, <1>4
<1>8. Discord!Range(inbox)' = Discord!Range(inbox) \cup {m}
  BY <1>1, <1>2, <1>3, <1>5, <1>7 DEF Discord!Range
<1> QED
  BY <1>2, <1>3, <1>5, <1>6, <1>8 DEF Increasing

LEMMA DiscordReadStep == ASSUME DiscordInv, Discord!ReadMessage PROVE DiscordInv'
<1> DEFINE m == Discord!NextEvent
<1>1. /\ Discord!HasEvent /\ m # Discord!Ready /\ seq' = seq + 1
      /\ UNCHANGED <<class, arrived, begun, log, over, conn, resume, current, session, ticks,
                     ack, acks, rejected, breaks>>
  BY DEF Discord!ReadMessage, Discord!gatewayVars, Discord!beatVars
<1>2. \/ class[m] = "other" /\ UNCHANGED <<working, inbox>>
      \/ class[m] = "text" /\ inbox' = Append(inbox, m) /\ UNCHANGED working
      \/ class[m] # "other" /\ working' = m /\ UNCHANGED inbox
  BY DEF Discord!ReadMessage
<1>3. /\ current \in Discord!Session /\ seq + 1 \in DOMAIN log[current] /\ seq \in Nat
      /\ Len(log[current]) \in Nat /\ DOMAIN log[current] = 1 .. Len(log[current])
      /\ m = log[current][seq + 1] /\ conn = "open" /\ current # Discord!NoSession
      /\ working = 0 /\ m \in Nat /\ m <= arrived /\ \A j \in DOMAIN inbox : inbox[j] < m
  BY <1>1, NextEventIs
<1>4. m \in Discord!Msg
  BY <1>1, NextEventIs
<1>5. ASSUME NEW i \in DOMAIN log[current], i > seq + 1
      PROVE  /\ log[current][i] \in Nat /\ m < log[current][i]
             /\ log[current][i] # Discord!Ready =>
                  /\ working < log[current][i]
                  /\ \A j \in DOMAIN inbox : inbox[j] < log[current][i]
  BY <1>1, <1>5, PastNextEvent
<1> HIDE DEF m
(* What became of m: nothing, it is in the inbox, or it is at work.        *)
<1>6. /\ inbox' \in Seq(Discord!Msg) /\ Increasing(inbox')
      /\ working' \in Discord!Msg \cup {Discord!Nothing} /\ working' \in {0, m}
      /\ \A i \in DOMAIN inbox' :
           (inbox'[i] = m /\ working' = 0) \/ \E j \in DOMAIN inbox : inbox'[i] = inbox[j]
      /\ Discord!Range(inbox) \cup {working} \subseteq
           Discord!Range(inbox)' \cup {working', 0}
      /\ class[m] = "text" => m \in Discord!Range(inbox)' \cup {working'}
  <2>0. inbox \in Seq(Discord!Msg) /\ Increasing(inbox)
    BY DiscordTypes DEF DiscordInv
  <2>1. CASE class[m] = "other" /\ UNCHANGED <<working, inbox>>
    BY <1>3, <2>0, <2>1 DEF Discord!Range, Discord!Nothing
  <2>2. CASE class[m] = "text" /\ inbox' = Append(inbox, m) /\ UNCHANGED working
    <3>1. /\ inbox' \in Seq(Discord!Msg) /\ Increasing(inbox')
          /\ Discord!Range(inbox)' = Discord!Range(inbox) \cup {m}
          /\ \A i \in DOMAIN inbox' :
               inbox'[i] = m \/ \E j \in DOMAIN inbox : inbox'[i] = inbox[j]
      BY <1>3, <1>4, <2>2, InboxGrows
    <3> QED
      BY <1>3, <2>2, <3>1 DEF Discord!Nothing
  <2>3. CASE class[m] # "other" /\ working' = m /\ UNCHANGED inbox
    BY <1>3, <1>4, <2>0, <2>3 DEF Discord!Range
  <2> QED
    BY <1>2, <2>1, <2>2, <2>3
<1>7. Discord!TypeOK'
  <2>1. seq' \in Nat
    BY <1>1, <1>3
  <2> QED
    BY <1>1, <1>6, <2>1 DEF DiscordInv, Discord!TypeOK
<1>8. LogsSound'
  BY <1>1 DEF DiscordInv, LogsSound
<1>9. PumpSound'
  <2>1. working' <= arrived
    BY <1>3, <1>6, DiscordParts
  <2>2. ASSUME NEW i \in DOMAIN inbox'
        PROVE  inbox'[i] <= arrived /\ (working' # Discord!Nothing => inbox'[i] < working')
    <3>1. CASE inbox'[i] = m /\ working' = 0
      BY <1>3, <3>1 DEF Discord!Nothing
    <3>2. CASE \E j \in DOMAIN inbox : inbox'[i] = inbox[j]
      <4>1. PICK j \in DOMAIN inbox : inbox'[i] = inbox[j]
        BY <3>2
      <4> QED
        BY <1>3, <1>6, <4>1 DEF DiscordInv, PumpSound, Discord!Nothing
    <3> QED
      BY <1>6, <3>1, <3>2
  <2> QED
    BY <1>1, <2>1, <2>2 DEF PumpSound
<1>10. Ahead(current, seq)'
  <2>1. seq' <= Len(log[current])
    BY <1>1, <1>3
  <2>2. ASSUME NEW i \in DOMAIN log[current], i > seq + 1, log[current][i] # Discord!Ready
        PROVE  /\ working' < log[current][i]
               /\ \A j \in DOMAIN inbox' : inbox'[j] < log[current][i]
    <3>1. /\ log[current][i] \in Nat /\ m < log[current][i] /\ 0 < log[current][i]
          /\ \A j \in DOMAIN inbox : inbox[j] < log[current][i]
      BY <1>3, <1>5, <2>2
    <3> QED
      BY <1>6, <3>1
  <2> QED
    BY <1>1, <1>3, <2>1, <2>2 DEF Ahead
<1>11. resume' = Discord!NoResume /\ conn' = "open"
  BY <1>1, <1>3 DEF DiscordInv, LinkSound
<1>12. LinkSound'
  BY <1>10, <1>11 DEF LinkSound
<1>13. Discord!NoGapInSession'
  <2>1. Discord!ReadUpTo(current, seq)
    BY <1>3 DEF DiscordInv, Discord!NoGapInSession
  <2>2. ASSUME NEW i \in DOMAIN log[current], i <= seq + 1,
               log[current][i] # Discord!Ready, class[log[current][i]] = "text"
        PROVE  log[current][i] \in Discord!Range(inbox)' \cup {working'}
    <3>1. CASE i = seq + 1
      BY <1>3, <1>6, <2>2, <3>1
    <3>2. CASE i # seq + 1
      <4>1. i <= seq
        BY <1>3, <2>2, <3>2
      <4>2. log[current][i] \in Discord!Range(inbox) \cup {working}
        BY <2>1, <2>2, <4>1 DEF Discord!ReadUpTo
      <4>3. log[current][i] # 0
        BY <2>2 DEF Discord!Ready
      <4> QED
        BY <1>6, <4>2, <4>3
    <3> QED
      BY <3>1, <3>2
  <2>3. Discord!ReadUpTo(current, seq)'
    BY <1>1, <2>2 DEF Discord!ReadUpTo, Discord!Range
  <2> QED
    BY <1>11, <2>3 DEF Discord!NoGapInSession
<1> QED
  BY <1>6, <1>7, <1>8, <1>9, <1>12, <1>13 DEF DiscordInv

LEMMA DownloadedStep == ASSUME DiscordInv, Discord!Downloaded PROVE DiscordInv'
<1>1. /\ working # 0 /\ working' = 0
      /\ UNCHANGED <<class, arrived, begun, log, over, conn, resume, current, session, seq,
                     ticks, ack, acks, rejected, breaks>>
      /\ inbox' = Append(inbox, working) \/ (class[working] = "media" /\ inbox' = inbox)
  BY DEF Discord!Downloaded, Discord!gatewayVars, Discord!linkVars, Discord!beatVars,
         Discord!Nothing
<1>2. /\ working \in Discord!Msg /\ working \in Nat /\ working <= arrived /\ arrived \in Nat
      /\ \A j \in DOMAIN inbox : inbox[j] < working
  BY <1>1, DiscordTypes, DiscordParts DEF DiscordInv, PumpSound, Discord!Nothing
<1>3. /\ inbox' \in Seq(Discord!Msg) /\ Increasing(inbox')
      /\ \A i \in DOMAIN inbox' :
           inbox'[i] = working \/ \E j \in DOMAIN inbox : inbox'[i] = inbox[j]
      /\ Discord!Range(inbox) \subseteq Discord!Range(inbox)'
      /\ class[working] = "text" => working \in Discord!Range(inbox)'
  <2>0. inbox \in Seq(Discord!Msg) /\ Increasing(inbox)
    BY DiscordTypes DEF DiscordInv
  <2>1. CASE inbox' = Append(inbox, working)
    <3>1. /\ inbox' \in Seq(Discord!Msg) /\ Increasing(inbox')
          /\ Discord!Range(inbox)' = Discord!Range(inbox) \cup {working}
          /\ \A i \in DOMAIN inbox' :
               inbox'[i] = working \/ \E j \in DOMAIN inbox : inbox'[i] = inbox[j]
      BY <1>2, <2>1, InboxGrows
    <3> QED
      BY <3>1
  <2>2. CASE class[working] = "media" /\ inbox' = inbox
    BY <2>0, <2>2 DEF Discord!Range
  <2> QED
    BY <1>1, <2>1, <2>2
<1>4. Discord!TypeOK'
  BY <1>1, <1>3 DEF DiscordInv, Discord!TypeOK, Discord!Nothing
<1>5. LogsSound'
  BY <1>1 DEF DiscordInv, LogsSound
<1>6. PumpSound'
  <2>1. ASSUME NEW i \in DOMAIN inbox' PROVE inbox'[i] <= arrived
    BY <1>2, <1>3 DEF DiscordInv, PumpSound
  <2> QED
    BY <1>1, <1>2, <2>1 DEF PumpSound, Discord!Nothing
<1>7. resume' = Discord!NoResume /\ conn = "open" /\ conn' = "open"
  <2>1. conn = "open"
    BY <1>1, DiscordTypes DEF DiscordInv, LinkSound, Discord!Nothing
  <2> QED
    BY <1>1, <2>1 DEF DiscordInv, LinkSound
<1>8. ASSUME current # Discord!NoSession PROVE Ahead(current, seq)'
  <2>1. Ahead(current, seq)
    BY <1>8 DEF DiscordInv, LinkSound
  <2>2. ASSUME NEW i \in DOMAIN log[current], i > seq, log[current][i] # Discord!Ready
        PROVE  /\ working' < log[current][i]
               /\ \A j \in DOMAIN inbox' : inbox'[j] < log[current][i]
    <3>1. /\ working < log[current][i]
          /\ \A j \in DOMAIN inbox : inbox[j] < log[current][i]
      BY <2>1, <2>2 DEF Ahead
    <3>2. log[current][i] \in Nat
      BY <2>1, DiscordParts DEF Ahead
    <3> QED
      BY <1>1, <1>2, <1>3, <3>1, <3>2
  <2> QED
    BY <1>1, <2>1, <2>2 DEF Ahead
<1>9. LinkSound'
  BY <1>1, <1>7, <1>8 DEF LinkSound
<1>10. ASSUME current # Discord!NoSession PROVE Discord!ReadUpTo(current, seq)'
  <2>1. Discord!ReadUpTo(current, seq)
    BY <1>10 DEF DiscordInv, Discord!NoGapInSession
  <2>2. ASSUME NEW i \in DOMAIN log[current], i <= seq,
               log[current][i] # Discord!Ready, class[log[current][i]] = "text"
        PROVE  log[current][i] \in Discord!Range(inbox)' \cup {working'}
    <3>1. log[current][i] \in Discord!Range(inbox) \cup {working}
      BY <2>1, <2>2 DEF Discord!ReadUpTo
    <3> QED
      BY <1>3, <2>2, <3>1
  <2> QED
    BY <1>1, <2>2 DEF Discord!ReadUpTo, Discord!Range
<1>11. Discord!NoGapInSession'
  BY <1>1, <1>7, <1>10 DEF Discord!NoGapInSession
<1> QED
  BY <1>3, <1>4, <1>5, <1>6, <1>9, <1>11 DEF DiscordInv

LEMMA DiscordInitInv ==
  ASSUME Discord!DiscordInit, class \in [Discord!Msg -> Discord!Class], arrived = 0
  PROVE  DiscordInv
<1>1. /\ begun = 0 /\ log = [s \in Discord!Session |-> <<>>] /\ over = {} /\ conn = "down"
      /\ resume = Discord!NoResume /\ current = 0 /\ session = 0 /\ seq = 0 /\ ticks = 0
      /\ ack = TRUE /\ acks = 0 /\ working = 0 /\ inbox = <<>> /\ rejected = FALSE
      /\ breaks = MaxBreaks
  BY DEF Discord!DiscordInit, Discord!NoSession, Discord!Nothing
<1>2. Discord!TypeOK
  <2>1. 0 \in 0 .. MaxTicks /\ 0 \in 0 .. MaxSessions /\ 0 \in 0 .. Arrivals /\ 0 \in 0 .. 0
        /\ MaxBreaks \in 0 .. MaxBreaks /\ 0 \in Nat
    BY DiscordConstants
  <2>2. <<>> \in Seq(Discord!Msg) /\ <<>> \in Seq(Discord!Msg \cup {Discord!Ready})
    BY EmptySeq
  <2>3. log \in [Discord!Session -> Seq(Discord!Msg \cup {Discord!Ready})]
    BY <1>1, <2>2
  <2>4. ack \in BOOLEAN /\ rejected \in BOOLEAN
    BY <1>1
  <2>5. resume \in [session : 0 .. begun, seq : Nat]
    BY <1>1, <2>1 DEF Discord!NoResume, Discord!NoSession
  <2> QED
    BY <1>1, <2>1, <2>2, <2>3, <2>4, <2>5
       DEF Discord!TypeOK, Discord!NoSession, Discord!Nothing
<1>3. LogsSound
  BY <1>1 DEF LogsSound
<1>4. PumpSound /\ Increasing(inbox)
  BY <1>1 DEF PumpSound, Increasing
<1>5. LinkSound /\ Discord!NoGapInSession
  BY <1>1 DEF LinkSound, Discord!NoGapInSession, Discord!NoSession, Discord!Nothing
<1> QED
  BY <1>2, <1>3, <1>4, <1>5 DEF DiscordInv

LEMMA DiscordStep == ASSUME DiscordInv, Discord!DiscordNext PROVE DiscordInv'
BY QuietSteps, ConnectFailsStep, HandshakeHangsStep, EndingSteps, IdentifyStep, ResumeStep,
   ReadReadyStep, DiscordReadStep, DownloadedStep DEF Discord!DiscordNext, Discord!Run

-----------------------------------------------------------------------------
(* FeishuEvents                                                            *)

Task == [job : Feishu!Msg \cup {Feishu!Reply}, pc : {"lock", "refresh", "use", "done"},
         since : 0 .. MaxNow, dies : Nat]
Cache == [dies : Nat, created : 0 .. MaxNow, expire : Nat]

CacheHonest == cache.created + cache.expire <= cache.dies + MaxRefresh

InTime ==
  \A t \in DOMAIN tasks :
    /\ tasks[t].pc # "done" => tasks[t].since <= now
    /\ tasks[t].pc = "refresh" => now <= tasks[t].since + MaxRefresh
    /\ tasks[t].pc = "use" => /\ now <= tasks[t].since + MaxUse
                              /\ tasks[t].since + MaxUse < tasks[t].dies

FeishuInv == Feishu!TypeOK /\ CacheHonest /\ InTime

LEMMA FeishuConstants ==
  /\ Arrivals \in Nat /\ MaxTasks \in Nat /\ MaxNow \in Nat
  /\ Buffer \in Nat /\ MaxRefresh \in Nat /\ MaxUse \in Nat
  /\ \A life \in Lives : life \in Nat /\ life > MaxRefresh + MaxUse
  /\ Buffer >= MaxRefresh + MaxUse
BY TransportsAssumption DEF Feishu!FeishuAssumption

LEMMA FeishuParts ==
  ASSUME Feishu!TypeOK
  PROVE  /\ tasks \in Seq(Task) /\ cache \in Cache /\ inbox \in Seq(Feishu!Msg)
         /\ now \in 0 .. MaxNow
         /\ \A t \in DOMAIN tasks : tasks[t] \in Task
<1>1. tasks \in Seq(Task)
  BY DEF Feishu!TypeOK, Task
<1>2. \A t \in DOMAIN tasks : tasks[t] \in Task
  BY <1>1
<1> QED
  BY <1>1, <1>2 DEF Feishu!TypeOK, Cache

LEMMA FeishuInitInv == Feishu!Init => FeishuInv
<1> SUFFICES ASSUME Feishu!Init PROVE FeishuInv
  OBVIOUS
<1>1. Feishu!TypeOK
  BY FeishuConstants, EmptySeq DEF Feishu!Init, Feishu!FeishuInit, Feishu!TypeOK, Feishu!NoToken
<1>2. CacheHonest /\ InTime
  BY FeishuConstants DEF Feishu!Init, Feishu!FeishuInit, CacheHonest, InTime, Feishu!NoToken
<1> QED
  BY <1>1, <1>2 DEF FeishuInv

(* A step that leaves the clock and the cache alone and one task in order. *)
LEMMA OneTask ==
  ASSUME FeishuInv, NEW t \in DOMAIN tasks, NEW k \in Task,
         tasks' = [tasks EXCEPT ![t] = k], now' = now,
         k.pc # "done" => k.since <= now,
         k.pc = "refresh" => now <= k.since + MaxRefresh,
         k.pc = "use" => now <= k.since + MaxUse /\ k.since + MaxUse < k.dies
  PROVE  tasks' \in Seq(Task) /\ Len(tasks') = Len(tasks) /\ InTime'
<1>1. tasks \in Seq(Task)
  BY FeishuParts DEF FeishuInv
<1>2. tasks' \in Seq(Task) /\ Len(tasks') = Len(tasks)
  BY <1>1, ExceptSeq
<1>3. DOMAIN tasks' = DOMAIN tasks /\ tasks'[t] = k
      /\ \A u \in DOMAIN tasks : u # t => tasks'[u] = tasks[u]
  BY <1>1
<1> QED
  BY <1>2, <1>3 DEF FeishuInv, InTime

LEMMA MovesIs ==
  ASSUME FeishuInv, NEW t \in DOMAIN tasks, NEW pc \in {"lock", "refresh", "use", "done"},
         NEW dies \in Nat, Feishu!Moves(t, pc, dies)
  PROVE  \E k \in Task : /\ tasks' = [tasks EXCEPT ![t] = k]
                         /\ k.pc = pc /\ k.since = now /\ k.dies = dies
<1> DEFINE k == [job |-> tasks[t].job, pc |-> pc, since |-> now, dies |-> dies]
<1>1. tasks[t] \in Task /\ now \in 0 .. MaxNow
  BY FeishuParts DEF FeishuInv
<1>2. k \in Task
  BY <1>1 DEF Task
<1>3. tasks' = [tasks EXCEPT ![t] = k]
  BY DEF Feishu!Moves
<1> QED
  BY <1>2, <1>3

LEMMA EndsIs ==
  ASSUME FeishuInv, NEW t \in DOMAIN tasks, Feishu!Ends(t), now' = now
  PROVE  tasks' \in Seq(Task) /\ Len(tasks') = Len(tasks) /\ InTime'
<1>1. [job |-> Feishu!Reply, pc |-> "done", since |-> 0, dies |-> 0] \in Task
  BY FeishuConstants DEF Task, Feishu!Reply
<1> QED
  BY <1>1, OneTask DEF Feishu!Ends

LEMMA Begins ==
  ASSUME FeishuInv, NEW job \in Feishu!Msg \cup {Feishu!Reply}, Feishu!Begin(job), now' = now
  PROVE  tasks' \in Seq(Task) /\ Len(tasks') = Len(tasks) + 1 /\ InTime'
<1> DEFINE k == [job |-> job, pc |-> "lock", since |-> now, dies |-> 0]
<1>1. tasks \in Seq(Task) /\ now \in 0 .. MaxNow
  BY FeishuParts DEF FeishuInv
<1>2. k \in Task /\ k.pc = "lock" /\ k.since = now
  BY <1>1 DEF Task
<1>3. tasks' = Append(tasks, k)
  BY DEF Feishu!Begin
<1> HIDE DEF k
<1>4. /\ tasks' \in Seq(Task) /\ Len(tasks') = Len(tasks) + 1
      /\ DOMAIN tasks' = DOMAIN tasks \cup {Len(tasks) + 1}
      /\ tasks'[Len(tasks) + 1] = k
      /\ \A u \in DOMAIN tasks : tasks'[u] = tasks[u]
  BY <1>1, <1>2, <1>3
<1>5. now \in Nat
  BY <1>1, FeishuConstants
<1> QED
  BY <1>2, <1>4, <1>5 DEF FeishuInv, InTime

-----------------------------------------------------------------------------
(* The actions                                                             *)

(* What remains to be shown of a step that keeps the cache.                *)
LEMMA KeepsCache ==
  ASSUME FeishuInv, cache' = cache, tasks' \in Seq(Task),
         now' \in 0 .. MaxNow, InTime', UNCHANGED class, arrived' \in 0 .. Arrivals,
         listens' \in BOOLEAN, mutex' \in 0 .. Len(tasks'), inbox' \in Seq(Feishu!Msg)
  PROVE  FeishuInv'
<1>1. Feishu!TypeOK'
  BY DEF FeishuInv, Feishu!TypeOK, Task
<1> QED
  BY <1>1 DEF FeishuInv, CacheHonest

LEMMA LenGrows ==
  ASSUME FeishuInv, tasks' \in Seq(Task), Len(tasks') >= Len(tasks)
  PROVE  mutex \in 0 .. Len(tasks') /\ 0 \in 0 .. Len(tasks')
<1>1. Len(tasks) \in Nat /\ Len(tasks') \in Nat /\ mutex \in 0 .. Len(tasks)
  BY FeishuParts DEF FeishuInv, Feishu!TypeOK
<1> QED
  BY <1>1

LEMMA EventStep ==
  ASSUME FeishuInv, NEW m \in Feishu!Msg, Feishu!Event(m)
  PROVE  FeishuInv'
<1>1. /\ class' = class /\ arrived' = arrived /\ now' = now /\ listens' = listens
      /\ mutex' = mutex /\ cache' = cache
  BY DEF Feishu!Event
<1>2. /\ tasks \in Seq(Task) /\ inbox \in Seq(Feishu!Msg)
      /\ now \in 0 .. MaxNow /\ Len(tasks) \in Nat
  BY FeishuParts DEF FeishuInv
<1>3. \/ tasks' = tasks /\ inbox' \in {inbox, Append(inbox, m)}
      \/ Feishu!Begin(m) /\ inbox' = inbox
  BY DEF Feishu!Event
<1>4. inbox' \in Seq(Feishu!Msg)
  <2>1. Append(inbox, m) \in Seq(Feishu!Msg)
    BY <1>2
  <2> QED
    BY <1>2, <1>3, <2>1
<1>5. tasks' \in Seq(Task) /\ Len(tasks') >= Len(tasks) /\ InTime'
  <2>1. CASE tasks' = tasks
    BY <1>1, <1>2, <2>1 DEF FeishuInv, InTime
  <2>2. CASE Feishu!Begin(m)
    BY <1>1, <1>2, <2>2, Begins
  <2> QED
    BY <1>3, <2>1, <2>2
<1> QED
  BY <1>1, <1>2, <1>4, <1>5, LenGrows, KeepsCache DEF FeishuInv, Feishu!TypeOK

LEMMA SendStep ==
  ASSUME FeishuInv, Feishu!Send
  PROVE  FeishuInv'
<1>1. tasks' \in Seq(Task) /\ Len(tasks') = Len(tasks) + 1 /\ InTime'
  BY Begins DEF Feishu!Send
<1>2. Len(tasks) \in Nat
  BY FeishuParts DEF FeishuInv
<1>3. mutex \in 0 .. Len(tasks')
  BY <1>1, <1>2, LenGrows
<1> QED
  BY <1>1, <1>3, KeepsCache DEF Feishu!Send, FeishuInv, Feishu!TypeOK

LEMMA LockStep ==
  ASSUME FeishuInv, NEW t \in DOMAIN tasks, Feishu!Lock(t)
  PROVE  FeishuInv'
<1>1. /\ tasks \in Seq(Task) /\ cache \in Cache /\ now \in 0 .. MaxNow
      /\ Len(tasks) \in Nat /\ t \in 1 .. Len(tasks)
  BY FeishuParts DEF FeishuInv
<1>2. now \in Nat /\ cache.dies \in Nat /\ cache.created \in Nat /\ cache.expire \in Nat
  BY <1>1, FeishuConstants DEF Cache
<1>3. tasks' \in Seq(Task) /\ Len(tasks') = Len(tasks) /\ InTime' /\ mutex' \in {mutex, t}
  <2>1. CASE Feishu!IsValid(cache)
    <3>1. now + MaxUse < cache.dies
      BY <1>2, <2>1, FeishuConstants DEF Feishu!IsValid, FeishuInv, CacheHonest
    <3>2. PICK k \in Task : /\ tasks' = [tasks EXCEPT ![t] = k]
                            /\ k.pc = "use" /\ k.since = now /\ k.dies = cache.dies
      BY <1>2, <2>1, MovesIs DEF Feishu!Lock
    <3>3. now' = now /\ mutex' = mutex /\ now <= now + MaxUse
      BY <1>2, <2>1, FeishuConstants DEF Feishu!Lock
    <3>4. /\ k.pc # "done" => k.since <= now
          /\ k.pc = "refresh" => now <= k.since + MaxRefresh
          /\ k.pc = "use" => now <= k.since + MaxUse /\ k.since + MaxUse < k.dies
      BY <3>1, <3>2, <3>3, <1>2
    <3>5. tasks' \in Seq(Task) /\ Len(tasks') = Len(tasks) /\ InTime'
      BY <3>2, <3>3, <3>4, OneTask
    <3> QED
      BY <3>3, <3>5
  <2>2. CASE ~ Feishu!IsValid(cache)
    <3>1. PICK k \in Task : /\ tasks' = [tasks EXCEPT ![t] = k]
                            /\ k.pc = "refresh" /\ k.since = now
      BY <2>2, MovesIs DEF Feishu!Lock
    <3>2. now' = now /\ mutex' = t /\ now <= now + MaxRefresh
      BY <1>2, <2>2, FeishuConstants DEF Feishu!Lock
    <3>3. /\ k.pc # "done" => k.since <= now
          /\ k.pc = "refresh" => now <= k.since + MaxRefresh
          /\ k.pc = "use" => now <= k.since + MaxUse /\ k.since + MaxUse < k.dies
      BY <3>1, <3>2, <1>2
    <3>4. tasks' \in Seq(Task) /\ Len(tasks') = Len(tasks) /\ InTime'
      BY <3>1, <3>2, <3>3, OneTask
    <3> QED
      BY <3>2, <3>4
  <2> QED
    BY <2>1, <2>2
<1>4. mutex' \in 0 .. Len(tasks')
  BY <1>1, <1>3 DEF FeishuInv, Feishu!TypeOK
<1> QED
  BY <1>1, <1>3, <1>4, KeepsCache DEF Feishu!Lock, FeishuInv, Feishu!TypeOK

(* The answer came in time, so that the token outlives its first use.      *)
LEMMA RefreshedStep ==
  ASSUME FeishuInv, NEW t \in DOMAIN tasks, Feishu!Refreshed(t)
  PROVE  FeishuInv'
<1>1. PICK issued \in tasks[t].since .. now, life \in Lives :
        /\ cache' = [dies |-> issued + life, created |-> now, expire |-> life]
        /\ Feishu!Moves(t, "use", issued + life)
  BY DEF Feishu!Refreshed
<1>2. /\ tasks[t] \in Task /\ now \in 0 .. MaxNow /\ tasks \in Seq(Task)
      /\ tasks[t].pc = "refresh"
  BY FeishuParts DEF FeishuInv, Feishu!Refreshed
<1>3. /\ now \in Nat /\ tasks[t].since \in Nat /\ issued \in Nat /\ issued + life \in Nat
      /\ life > MaxRefresh + MaxUse /\ life \in Nat
  BY <1>1, <1>2, FeishuConstants DEF Task
<1>4. now <= tasks[t].since + MaxRefresh
  BY <1>2 DEF FeishuInv, InTime
<1>5. now + MaxUse < issued + life /\ now <= issued + MaxRefresh
  BY <1>1, <1>3, <1>4, FeishuConstants
<1>6. PICK k \in Task : /\ tasks' = [tasks EXCEPT ![t] = k]
                        /\ k.pc = "use" /\ k.since = now /\ k.dies = issued + life
  BY <1>1, <1>3, MovesIs
<1>7. tasks' \in Seq(Task) /\ InTime'
  <2>1. now' = now /\ now <= now + MaxUse
    BY <1>3, FeishuConstants DEF Feishu!Refreshed
  <2>2. /\ k.pc # "done" => k.since <= now
        /\ k.pc = "refresh" => now <= k.since + MaxRefresh
        /\ k.pc = "use" => now <= k.since + MaxUse /\ k.since + MaxUse < k.dies
    BY <1>3, <1>5, <1>6, <2>1
  <2> QED
    BY <1>6, <2>1, <2>2, OneTask
<1>8. cache' \in Cache /\ CacheHonest'
  BY <1>1, <1>2, <1>3, <1>5, FeishuConstants DEF Cache, CacheHonest
<1>9. mutex' \in 0 .. Len(tasks')
  BY <1>7 DEF Feishu!Refreshed
<1> QED
  BY <1>7, <1>8, <1>9 DEF Feishu!Refreshed, FeishuInv, Feishu!TypeOK, Task, Cache

LEMMA TaskEndsStep ==
  ASSUME FeishuInv, NEW t \in DOMAIN tasks, Feishu!RefreshFails(t) \/ Feishu!Used(t)
  PROVE  FeishuInv'
<1>1. tasks' \in Seq(Task) /\ Len(tasks') = Len(tasks) /\ InTime'
  BY EndsIs DEF Feishu!RefreshFails, Feishu!Used
<1>2. /\ inbox \in Seq(Feishu!Msg) /\ tasks[t] \in Task /\ Len(tasks) \in Nat
  BY FeishuParts DEF FeishuInv
<1>3. inbox' \in Seq(Feishu!Msg)
  BY <1>2 DEF Feishu!RefreshFails, Feishu!Used, Task
<1>4. mutex' \in 0 .. Len(tasks')
  BY <1>1, <1>2, LenGrows DEF Feishu!RefreshFails, Feishu!Used
<1> QED
  BY <1>1, <1>3, <1>4, KeepsCache DEF Feishu!RefreshFails, Feishu!Used, FeishuInv, Feishu!TypeOK

(* Time does not pass a limit.                                             *)
LEMMA TickStep ==
  ASSUME FeishuInv, Feishu!Tick
  PROVE  FeishuInv'
<1>1. now \in Nat /\ now' = now + 1 /\ now' \in 0 .. MaxNow /\ tasks' = tasks
  BY FeishuParts, FeishuConstants DEF Feishu!Tick, FeishuInv
<1>2. ASSUME NEW t \in DOMAIN tasks, tasks[t].pc # "done"
      PROVE  /\ tasks[t].since <= now'
             /\ tasks[t].pc = "refresh" => now' <= tasks[t].since + MaxRefresh
             /\ tasks[t].pc = "use" => now' <= tasks[t].since + MaxUse
  <2>1. tasks[t].since \in Nat /\ tasks[t].since <= now
    BY <1>2, FeishuParts, FeishuConstants DEF FeishuInv, InTime, Task
  <2>2. now - tasks[t].since < Feishu!Limit(tasks[t].pc)
    BY <1>2 DEF Feishu!Tick
  <2>3. /\ tasks[t].pc = "refresh" => now - tasks[t].since < MaxRefresh
        /\ tasks[t].pc = "use" => now - tasks[t].since < MaxUse
    BY <2>2 DEF Feishu!Limit
  <2> QED
    BY <1>1, <2>1, <2>3, FeishuConstants
<1>3. InTime'
  BY <1>1, <1>2 DEF FeishuInv, InTime
<1> QED
  BY <1>1, <1>3, FeishuParts, KeepsCache DEF Feishu!Tick, FeishuInv, Feishu!TypeOK

LEMMA FeishuArriveStep == ASSUME FeishuInv, Feishu!Arrive PROVE FeishuInv'
<1>1. arrived' \in 0 .. Arrivals
  BY FeishuConstants DEF Feishu!Arrive, FeishuInv, Feishu!TypeOK
<1> QED
  BY <1>1 DEF Feishu!Arrive, FeishuInv, Feishu!TypeOK, CacheHonest, InTime, Feishu!feishuVars

LEMMA FeishuNextStep == ASSUME FeishuInv, Feishu!FeishuNext PROVE FeishuInv'
<1>1. CASE Feishu!SdkEnds
  BY <1>1 DEF Feishu!SdkEnds, FeishuInv, Feishu!TypeOK, CacheHonest, InTime
<1> QED
  BY <1>1, EventStep, SendStep, LockStep, RefreshedStep, TaskEndsStep, TickStep
     DEF Feishu!FeishuNext

(* A token whose use is within its time is alive.                          *)
LEMMA InTimeSuffices == ASSUME FeishuInv PROVE Feishu!UsedTokenAlive
<1> SUFFICES ASSUME NEW t \in DOMAIN tasks, tasks[t].pc = "use" PROVE now < tasks[t].dies
  BY DEF Feishu!UsedTokenAlive
<1>1. now \in Nat /\ tasks[t].since \in Nat /\ tasks[t].dies \in Nat
  BY FeishuParts, FeishuConstants DEF FeishuInv, Task
<1> QED
  BY <1>1, FeishuConstants DEF FeishuInv, InTime

LEMMA FeishuInvariant == Feishu!Spec => []FeishuInv
<1>1. FeishuInv /\ [Feishu!Next]_(Feishu!vars) => FeishuInv'
  <2> SUFFICES ASSUME FeishuInv, [Feishu!Next]_(Feishu!vars) PROVE FeishuInv'
    OBVIOUS
  <2>1. CASE UNCHANGED Feishu!vars
    BY <2>1 DEF FeishuInv, Feishu!TypeOK, CacheHonest, InTime, Feishu!vars, Feishu!feishuVars
  <2> QED
    BY <2>1, FeishuArriveStep, FeishuNextStep DEF Feishu!Next
<1> QED
  BY <1>1, FeishuInitInv, PTL DEF Feishu!Spec

(* By itself, too, the event side of Feishu keeps its types, ...           *)
THEOREM FeishuTypeCorrect == Feishu!Spec => []Feishu!TypeOK
<1>1. FeishuInv => Feishu!TypeOK
  BY DEF FeishuInv
<1> QED
  BY <1>1, FeishuInvariant, PTL

(* ... and no request carries a token that has expired: the buffer of      *)
(* feishu_get_token covers the wait for the token and the longest use.     *)
THEOREM FeishuTokenAlive == Feishu!Spec => []Feishu!UsedTokenAlive
<1>1. FeishuInv => Feishu!UsedTokenAlive
  BY InTimeSuffices
<1> QED
  BY <1>1, FeishuInvariant, PTL

-----------------------------------------------------------------------------
(* Transports: one adapter runs, and the others stay as they began         *)

TransportsInv ==
  /\ profile \in Profile /\ kind \in Registered \cup {"none", "failed"}
  /\ class \in [1 .. Arrivals -> Poll!Class]
  /\ kind = "none" =>
       arrived = 0 /\ Poll!PollInit /\ Discord!DiscordInit /\ Feishu!FeishuInit
  /\ kind \in {"null", "failed"} => inbox = <<>>
  /\ IF kind \in {"ilink", "telegram"} THEN PollInv ELSE confirmed = 0 /\ buf = 0
  /\ IF kind = "discord" THEN DiscordInv
     ELSE current = Discord!NoSession /\ resume = Discord!NoResume
  /\ IF kind = "feishu" THEN FeishuInv ELSE tasks = <<>>

LEMMA SameClasses ==
  ASSUME class \in [1 .. Arrivals -> Poll!Class]
  PROVE  /\ class \in [Poll!Msg -> Poll!Class]
         /\ class \in [Discord!Msg -> Discord!Class]
         /\ class \in [Feishu!Msg -> Feishu!Class]
BY DEF Poll!Msg, Discord!Msg, Feishu!Msg, Poll!Class, Discord!Class, Feishu!Class

LEMMA PollInitInv ==
  Poll!Init => PollInv
<1> SUFFICES ASSUME Poll!Init PROVE PollInv
  OBVIOUS
<1>1. /\ kind \in {"ilink", "telegram"} /\ class \in [Poll!Msg -> Poll!Class] /\ arrived = 0
      /\ confirmed = 0 /\ buf = 0 /\ seen = 0 /\ inbox = <<>> /\ handed = {} /\ runs = 1
  BY DEF Poll!Init, Poll!PollInit
<1>2. Arrivals \in Nat /\ 0 \in 0 .. Arrivals /\ 1 \in 1 .. MaxRuns /\ 0 \in 0 .. 0
  BY PollConstants
<1>3. inbox \in Seq(Poll!Msg) /\ Len(inbox) = 0
  BY <1>1, EmptySeq
<1>4. Poll!TypeOK
  BY <1>1, <1>2, <1>3 DEF Poll!TypeOK
<1>5. Increasing(inbox) /\ GivenPassed
  BY <1>1 DEF Increasing, GivenPassed
<1>6. Poll!Confirmed = 0
  BY <1>1, MaxOfTwo DEF Poll!Confirmed
<1>7. Poll!TextNeverSkipped
  BY <1>6 DEF Poll!TextNeverSkipped
<1> QED
  BY <1>4, <1>5, <1>7 DEF PollInv

LEMMA DiscordInitImplies == Discord!Init => DiscordInv
BY DiscordInitInv DEF Discord!Init

LEMMA FeishuInitImplies == Feishu!Init => FeishuInv
BY FeishuInitInv

LEMMA TransportsInitInv == Init => TransportsInv
<1> SUFFICES ASSUME Init PROVE TransportsInv
  OBVIOUS
<1>1. confirmed = 0 /\ buf = 0
  BY DEF Init, Poll!PollInit
<1>2. current = Discord!NoSession /\ resume = Discord!NoResume
  BY DEF Init, Discord!DiscordInit
<1>3. tasks = <<>>
  BY DEF Init, Feishu!FeishuInit
<1> QED
  BY <1>1, <1>2, <1>3 DEF Init, TransportsInv

LEMMA BuildStep == ASSUME TransportsInv, Build PROVE TransportsInv'
<1>1. /\ kind = "none" /\ kind' = Built
      /\ UNCHANGED <<profile, class, arrived, inbox, pollOnly, discordOnly, feishuOnly>>
  BY DEF Build
<1>2. kind' \in Registered \cup {"failed"} /\ kind' # "none"
  BY <1>1 DEF Built, Registered
<1>3. arrived = 0 /\ Poll!PollInit /\ Discord!DiscordInit /\ Feishu!FeishuInit
  BY <1>1 DEF TransportsInv
<1>4. class \in [1 .. Arrivals -> Poll!Class]
  BY DEF TransportsInv
<1>5. Poll!PollInit' /\ Discord!DiscordInit' /\ Feishu!FeishuInit' /\ arrived' = 0
  <2>1. Poll!PollInit'
    BY <1>1, <1>3 DEF Poll!PollInit, pollOnly
  <2>2. Discord!DiscordInit'
    BY <1>1, <1>3 DEF Discord!DiscordInit, discordOnly
  <2>3. Feishu!FeishuInit'
    BY <1>1, <1>3 DEF Feishu!FeishuInit, feishuOnly
  <2> QED
    BY <1>1, <1>3, <2>1, <2>2, <2>3
<1>6. kind' \in {"ilink", "telegram"} => PollInv'
  <2>1. Poll!Init' => PollInv'
    BY PollInitInv, PTL
  <2>2. class' \in [Poll!Msg -> Poll!Class]
    BY <1>1, <1>4, SameClasses
  <2>3. kind' \in {"ilink", "telegram"} => Poll!Init'
    BY <1>5, <2>2 DEF Poll!Init
  <2> QED
    BY <2>1, <2>3
<1>7. DiscordInv'
  <2>1. Discord!Init' => DiscordInv'
    BY DiscordInitImplies, PTL
  <2>2. class' \in [Discord!Msg -> Discord!Class]
    BY <1>1, <1>4, SameClasses
  <2> QED
    BY <1>5, <2>1, <2>2 DEF Discord!Init
<1>8. FeishuInv'
  <2>1. Feishu!Init' => FeishuInv'
    BY FeishuInitImplies, PTL
  <2>2. class' \in [Feishu!Msg -> Feishu!Class]
    BY <1>1, <1>4, SameClasses
  <2> QED
    BY <1>5, <2>1, <2>2 DEF Feishu!Init
<1>9. /\ inbox' = <<>> /\ confirmed' = 0 /\ buf' = 0 /\ tasks' = <<>>
      /\ current' = Discord!NoSession /\ resume' = Discord!NoResume
  BY <1>5 DEF Poll!PollInit, Discord!DiscordInit, Feishu!FeishuInit
<1> QED
  BY <1>1, <1>2, <1>4, <1>6, <1>7, <1>8, <1>9 DEF TransportsInv

LEMMA ArriveStep == ASSUME TransportsInv, Arrive PROVE TransportsInv'
<1>1. /\ kind \in {"ilink", "telegram", "discord", "feishu"}
      /\ profile' = profile /\ kind' = kind /\ UNCHANGED pollOnly /\ UNCHANGED feishuOnly
  BY DEF Arrive, Registered
<1>2. CASE kind = "discord"
  <2>1. Discord!Arrive /\ class' = class
    BY <1>2 DEF Arrive, Discord!Arrive
  <2>2. DiscordInv'
    BY <1>2, <2>1, DiscordArriveStep DEF TransportsInv
  <2> QED
    BY <1>1, <1>2, <2>1, <2>2 DEF TransportsInv, pollOnly, feishuOnly
<1>3. CASE kind # "discord"
  <2>1. Poll!Arrive /\ class' = class /\ UNCHANGED discordOnly
    BY <1>3 DEF Arrive, Poll!Arrive
  <2>2. CASE kind \in {"ilink", "telegram"}
    <3>1. PollInv'
      BY <1>1, <2>1, <2>2, PollArriveStep DEF TransportsInv
    <3> QED
      BY <1>1, <1>3, <2>1, <2>2, <3>1 DEF TransportsInv, discordOnly, feishuOnly
  <2>3. CASE kind = "feishu"
    <3>1. Feishu!Arrive
      BY <1>1, <2>1 DEF Poll!Arrive, Feishu!Arrive, Poll!pollVars, Feishu!feishuVars, feishuOnly
    <3>2. FeishuInv'
      BY <2>3, <3>1, FeishuArriveStep DEF TransportsInv
    <3> QED
      BY <1>1, <1>3, <2>1, <2>3, <3>2 DEF TransportsInv, pollOnly, discordOnly
  <2> QED
    BY <1>1, <1>3, <2>2, <2>3
<1> QED
  BY <1>2, <1>3

LEMMA ReceiveStep ==
  ASSUME TransportsInv, Receive, UNCHANGED <<profile, kind>> PROVE TransportsInv'
<1>1. CASE /\ kind \in {"ilink", "telegram"} /\ Poll!PollNext
           /\ UNCHANGED <<discordOnly, feishuOnly>>
  <2>1. PollInv'
    BY <1>1, PollStep, PollFailsStep, NextRunStep DEF TransportsInv, Poll!PollNext
  <2>2. class' = class
    BY <1>1 DEF Poll!PollNext, Poll!Poll, Poll!PollFails, Poll!NextRun
  <2> QED
    BY <1>1, <2>1, <2>2 DEF TransportsInv, discordOnly, feishuOnly
<1>2. CASE kind = "discord" /\ Discord!DiscordNext /\ UNCHANGED <<pollOnly, feishuOnly>>
  <2>1. DiscordInv'
    BY <1>2, DiscordStep DEF TransportsInv
  <2>2. class' \in [1 .. Arrivals -> Poll!Class]
    BY <2>1 DEF DiscordInv, Discord!TypeOK, Discord!Msg, Discord!Class, Poll!Class
  <2> QED
    BY <1>2, <2>1, <2>2 DEF TransportsInv, pollOnly, feishuOnly
<1>3. CASE kind = "feishu" /\ Feishu!FeishuNext /\ UNCHANGED <<pollOnly, discordOnly>>
  <2>1. FeishuInv'
    BY <1>3, FeishuNextStep DEF TransportsInv
  <2>2. class' \in [1 .. Arrivals -> Poll!Class]
    BY <2>1 DEF FeishuInv, Feishu!TypeOK, Feishu!Msg, Feishu!Class, Poll!Class
  <2> QED
    BY <1>3, <2>1, <2>2 DEF TransportsInv, pollOnly, discordOnly
<1> QED
  BY <1>1, <1>2, <1>3 DEF Receive

LEMMA StutterStep == ASSUME TransportsInv, UNCHANGED vars PROVE TransportsInv'
<1>1. UNCHANGED <<profile, kind, class, arrived, inbox, pollOnly, discordOnly, feishuOnly>>
  BY DEF vars
<1>2. kind \in {"ilink", "telegram"} => PollInv'
  BY <1>1 DEF TransportsInv, PollInv, pollOnly, Poll!TypeOK, GivenPassed, Poll!TextNeverSkipped,
              Poll!Confirmed
<1>3. kind = "discord" => DiscordInv'
  <2>1. ASSUME DiscordInv PROVE DiscordInv'
    <3>1. Discord!TypeOK'
      BY <1>1, <2>1 DEF DiscordInv, Discord!TypeOK, discordOnly
    <3> QED
      BY <1>1, <2>1, <3>1, QuietStep DEF discordOnly
  <2> QED
    BY <2>1 DEF TransportsInv
<1>4. kind = "feishu" => FeishuInv'
  BY <1>1 DEF TransportsInv, FeishuInv, Feishu!TypeOK, CacheHonest, InTime, feishuOnly
<1>5. kind = "none" =>
        arrived' = 0 /\ Poll!PollInit' /\ Discord!DiscordInit' /\ Feishu!FeishuInit'
  BY <1>1 DEF TransportsInv, Poll!PollInit, Discord!DiscordInit, Feishu!FeishuInit,
              pollOnly, discordOnly, feishuOnly
<1> QED
  BY <1>1, <1>2, <1>3, <1>4, <1>5 DEF TransportsInv, pollOnly, discordOnly, feishuOnly

THEOREM Invariant == Spec => []TransportsInv
<1>1. TransportsInv /\ [Next]_vars => TransportsInv'
  BY BuildStep, ArriveStep, ReceiveStep, StutterStep DEF Next
<1> QED
  BY <1>1, TransportsInitInv, PTL DEF Spec

(* Whichever adapter the profile chose, every reachable state has its type;*)
(* a Discord worker holds no session other than its connection's.          *)
THEOREM TypeCorrect == Spec => []TypeOK
<1>1. TransportsInv => TypeOK
  BY DEF TransportsInv, TypeOK, PollInv, DiscordInv, FeishuInv
<1> QED
  BY <1>1, Invariant, PTL

(* iLink, Telegram and Discord give the pump the messages of a run in their*)
(* order and none twice, whatever answers are lost, requests repeated,     *)
(* connections resumed and sessions begun.                                 *)
THEOREM InOrder == Spec => []InOrderOnce
<1>1. TransportsInv => InOrderOnce
  <2> SUFFICES ASSUME TransportsInv, kind # "feishu" PROVE Increasing(inbox)
    BY DEF InOrderOnce, Poll!InOrderOnce, Increasing
  <2>1. CASE kind \in {"ilink", "telegram"}
    BY <2>1 DEF TransportsInv, PollInv
  <2>2. CASE kind = "discord"
    BY <2>2 DEF TransportsInv, DiscordInv
  <2>3. CASE kind \in {"none", "null", "failed"}
    <3>1. inbox = <<>>
      BY <2>3 DEF TransportsInv, Poll!PollInit
    <3> QED
      BY <3>1 DEF Increasing
  <2> QED
    BY <2>1, <2>2, <2>3 DEF TransportsInv, Registered
<1> QED
  BY <1>1, Invariant, PTL

(* The cursor of iLink's or Telegram's poll never passes a message with a  *)
(* text that the pump of some run was not given.                           *)
THEOREM TextKept == Spec => []TextNeverSkipped
<1>1. TransportsInv => TextNeverSkipped
  <2> SUFFICES ASSUME TransportsInv PROVE Poll!TextNeverSkipped
    BY DEF TextNeverSkipped
  <2>1. CASE kind \in {"ilink", "telegram"}
    BY <2>1 DEF TransportsInv, PollInv
  <2>2. CASE kind \notin {"ilink", "telegram"}
    <3>1. Poll!Confirmed = 0
      BY <2>2, MaxOfTwo DEF TransportsInv, Poll!Confirmed
    <3> QED
      BY <3>1 DEF Poll!TextNeverSkipped
  <2> QED
    BY <2>1, <2>2
<1> QED
  BY <1>1, Invariant, PTL

(* As long as a Discord session lives, and over any number of connections  *)
(* that resume it, nothing it logged with a text is missing of what was    *)
(* read.                                                                   *)
THEOREM NoGap == Spec => []NoGapInSession
<1>1. TransportsInv => NoGapInSession
  BY DEF TransportsInv, DiscordInv, NoGapInSession, Discord!NoGapInSession
<1> QED
  BY <1>1, Invariant, PTL

(* No request to Feishu carries an expired token, in the composition.      *)
THEOREM TokensAlive == Spec => []UsedTokenAlive
<1>1. TransportsInv => UsedTokenAlive
  <2>1. CASE kind = "feishu"
    BY <2>1, InTimeSuffices DEF TransportsInv, UsedTokenAlive
  <2>2. CASE kind # "feishu"
    BY <2>2 DEF TransportsInv, UsedTokenAlive, Feishu!UsedTokenAlive
  <2> QED
    BY <2>1, <2>2
<1> QED
  BY <1>1, Invariant, PTL
=============================================================================
