--------------------------- MODULE ReplyTurnProofs ---------------------------
(***************************************************************************)
(* For every number of chunks, every length of the body, chunk size and    *)
(* retry budget: what the user is shown of a turn is in order and shown    *)
(* once, a streamed answer is not sent again as a final body, the session  *)
(* id travels with the end of the answer, and no character of the body is  *)
(* lost that was not itself rejected or abandoned.                         *)
(*                                                                         *)
(* None of them is inductive.  The stream needs that chunk numbers only    *)
(* grow from the slot through the forwarder's buffer to the user           *)
(* (Streamed); the final sends need that the line of pieces still to send  *)
(* names the session at its end alone, and after a piece that named it was *)
(* sent holds only text of that piece (NamedLast), holds text only if      *)
(* nothing was streamed (TextUnstreamed), and covers with the pieces sent  *)
(* and given up the whole body (Accounted).  The arithmetic of splitting   *)
(* and halving is in the lemmas that come first.                           *)
(***************************************************************************)
EXTENDS ReplyTurn, SequenceTheorems, TLAPS

-----------------------------------------------------------------------------
(* split_into_parts: the parts lie in the text, and cover it.              *)
LEMMA CountOfParts ==
  ASSUME NEW n \in Nat \ {0}, NEW c \in Nat
  PROVE  /\ PartCount(n, c) \in Nat \ {0}
         /\ c # 0 => /\ n <= PartCount(n, c) * c
                     /\ PartCount(n, c) * c - c < n
  BY SMT DEF PartCount

LEMMA PartInText ==
  ASSUME NEW n \in Nat \ {0}, NEW c \in Nat, NEW i \in 1 .. PartCount(n, c)
  PROVE  /\ PartBounds(n, c, i)[1] \in 1 .. n
         /\ PartBounds(n, c, i)[2] \in 1 .. n
<1>1. CASE c = 0
  BY <1>1 DEF PartBounds
<1>2. CASE c # 0
  <2>1. PICK k \in Nat : k = PartCount(n, c)
    BY CountOfParts
  <2>2. i \in Nat /\ 1 <= i /\ i <= k
    BY <2>1
  <2>3. k * c - c < n
    BY <1>2, <2>1, CountOfParts
  <2>4. i * c \in Nat /\ k * c \in Nat /\ (i - 1) * c \in Nat
    BY <2>1, <2>2
  <2>5. (i - 1) * c = i * c - c /\ i * c <= k * c /\ c <= i * c
    BY <2>1, <2>2
  <2>6. (i - 1) * c + 1 \in 1 .. n /\ Smaller(i * c, n) \in 1 .. n
    BY <1>2, <2>3, <2>4, <2>5 DEF Smaller
  <2>. QED  BY <1>2, <2>6 DEF PartBounds
<1>. QED  BY <1>1, <1>2

LEMMA PartsCoverText ==
  ASSUME NEW n \in Nat \ {0}, NEW c \in Nat, NEW x \in 1 .. n
  PROVE  \E i \in 1 .. PartCount(n, c) :
           x \in PartBounds(n, c, i)[1] .. PartBounds(n, c, i)[2]
<1>1. CASE c = 0
  BY <1>1 DEF PartBounds, PartCount
<1>2. CASE c # 0
  <2>. DEFINE i == PartCount(x, c)
              k == PartCount(n, c)
  <2>1. /\ i \in Nat \ {0} /\ k \in Nat \ {0}
        /\ x <= i * c /\ i * c - c < x
        /\ n <= k * c
    <3>1. x \in Nat \ {0}
      OBVIOUS
    <3>. QED  BY <1>2, <3>1, CountOfParts
  <2>. HIDE DEF i, k
  <2>2. i <= k
    <3>1. i * c \in Nat /\ k * c \in Nat
      BY <2>1
    <3>2. i * c < k * c + c
      BY <2>1, <3>1
    <3>3. ASSUME i > k PROVE FALSE
      <4>1. i * c >= (k + 1) * c
        BY <2>1, <3>3
      <4>2. (k + 1) * c = k * c + c
        BY <2>1
      <4>. QED  BY <3>1, <3>2, <4>1, <4>2
    <3>. QED  BY <2>1, <3>3
  <2>3. (i - 1) * c = i * c - c /\ i * c \in Nat
    BY <2>1
  <2>4. x \in (i - 1) * c + 1 .. Smaller(i * c, n)
    BY <2>1, <2>3 DEF Smaller
  <2>5. i \in 1 .. k
    BY <2>1, <2>2
  <2>. QED  BY <1>2, <2>4, <2>5 DEF PartBounds, k
<1>. QED  BY <1>1, <1>2

-----------------------------------------------------------------------------
(* The session id rides on the last of the pieces, or on none.             *)
OnlyLastNamed(s) == \A i \in DOMAIN s : s[i].sid => i = Len(s)

LEMMA TextPartsOf ==
  ASSUME TurnAssumption, NEW n \in 1 .. MaxBody, NEW s \in BOOLEAN
  PROVE  /\ TextParts(n, s) \in Seq(Pieces)
         /\ TextParts(n, s) # <<>>
         /\ OnlyLastNamed(TextParts(n, s))
         /\ 1 .. n \subseteq Covered(Range(TextParts(n, s)))
<1>. DEFINE k == PartCount(n, ChunkChars)
            T == TextParts(n, s)
            b(i) == PartBounds(n, ChunkChars, i)
<1>0. n \in Nat \ {0} /\ ChunkChars \in Nat /\ MaxBody \in Nat /\ n <= MaxBody
  BY DEF TurnAssumption
<1>1. k \in Nat \ {0}
  BY <1>0, CountOfParts
<1>2. T = [i \in 1 .. k |-> T[i]]
  BY DEF TextParts
<1>3. ASSUME NEW i \in 1 .. k
      PROVE  T[i] = [Piece("text", b(i)[1], b(i)[2], s /\ i = k) EXCEPT !.halve = TRUE]
  BY Zenon DEF TextParts
<1>4. k \in Nat
  BY <1>1
<1>5. ASSUME NEW i \in 1 .. k
      PROVE  b(i)[1] \in 1 .. n /\ b(i)[2] \in 1 .. n
  BY <1>0, PartInText
<1>6. ASSUME NEW x \in 1 .. n
      PROVE  \E i \in 1 .. k : x \in b(i)[1] .. b(i)[2]
  BY <1>0, PartsCoverText
<1>. HIDE DEF k, b, T
<1>7. ASSUME NEW i \in 1 .. k
      PROVE  /\ T[i] \in Pieces
             /\ T[i].lo = b(i)[1] /\ T[i].hi = b(i)[2]
             /\ T[i].sid => i = k
  <2>. DEFINE sid == s /\ i = k
              l == b(i)[1]
              h == b(i)[2]
  <2>1. sid \in BOOLEAN /\ l \in 1 .. MaxBody + 1 /\ h \in 0 .. MaxBody
    BY <1>0, <1>5
  <2>2. T[i] = [Piece("text", l, h, sid) EXCEPT !.halve = TRUE]
    BY <1>3
  <2>3. sid => i = k
    OBVIOUS
  <2>. HIDE DEF sid, l, h
  <2>4. /\ T[i] \in Pieces
        /\ T[i].lo = l /\ T[i].hi = h
        /\ T[i].sid = sid
    BY <2>1, <2>2 DEF Pieces, Kinds, Piece
  <2>. QED  BY <2>3, <2>4 DEF l, h
<1>8. T \in Seq(Pieces) /\ Len(T) = k /\ DOMAIN T = 1 .. k
  BY <1>1, <1>2, <1>7
<1>9. OnlyLastNamed(T)
  BY <1>7, <1>8 DEF OnlyLastNamed
<1>10. ASSUME NEW x \in 1 .. n
       PROVE  \E i \in DOMAIN T : x \in T[i].lo .. T[i].hi
  BY <1>6, <1>7, <1>8
<1>11. 1 .. n \subseteq Covered(Range(T))
  BY <1>10 DEF Covered, Range
<1>. QED  BY <1>1, <1>8, <1>9, <1>11 DEF T

(* A halved piece becomes smaller ones that cover it.                      *)
LEMMA HalvesOf ==
  ASSUME TurnAssumption, NEW p \in Pieces, p.hi > p.lo
  PROVE  /\ Halves(p) \in Seq(Pieces)
         /\ Halves(p) # <<>>
         /\ OnlyLastNamed(Halves(p))
         /\ \A i \in DOMAIN Halves(p) : /\ Halves(p)[i].sid => p.sid
                                        /\ Halves(p)[i].kind = p.kind
                                        /\ Within(Halves(p)[i], p)
         /\ p.lo .. p.hi \subseteq Covered(Range(Halves(p)))
<1>. DEFINE n == p.hi - p.lo + 1
            c == n \div 2
            k == PartCount(n, c)
            H == Halves(p)
            b(j) == PartBounds(n, c, j)
            lo(j) == p.lo - 1 + b(j)[1]
            hi(j) == p.lo - 1 + b(j)[2]
<1>0. /\ p.lo \in 1 .. MaxBody + 1 /\ p.hi \in 0 .. MaxBody /\ MaxBody \in Nat
      /\ p.sid \in BOOLEAN /\ p.kind \in Kinds /\ p.call \in BOOLEAN
  BY DEF TurnAssumption, Pieces
<1>1. n \in Nat \ {0} /\ c \in Nat /\ p.lo - 1 + n = p.hi
  BY <1>0
<1>2. k \in Nat \ {0}
  BY <1>1, CountOfParts
<1>3. H = [j \in 1 .. k |-> H[j]]
  BY DEF Halves
<1>4. ASSUME NEW j \in 1 .. k
      PROVE  H[j] = [p EXCEPT !.lo = lo(j), !.hi = hi(j),
                              !.sid = p.sid /\ j = k, !.halve = FALSE]
  BY Zenon DEF Halves
<1>5. ASSUME NEW j \in 1 .. k
      PROVE  b(j)[1] \in 1 .. n /\ b(j)[2] \in 1 .. n
  BY <1>1, PartInText
<1>6. ASSUME NEW x \in 1 .. n
      PROVE  \E j \in 1 .. k : x \in b(j)[1] .. b(j)[2]
  BY <1>1, PartsCoverText
<1>. HIDE DEF k, b, H, n, c
<1>7. ASSUME NEW j \in 1 .. k
      PROVE  /\ H[j] \in Pieces
             /\ H[j].lo = lo(j) /\ H[j].hi = hi(j)
             /\ H[j].sid => p.sid /\ j = k
             /\ H[j].kind = p.kind
             /\ Within(H[j], p)
  <2>1. lo(j) \in 1 .. MaxBody + 1 /\ hi(j) \in 0 .. MaxBody
    BY <1>0, <1>1, <1>5
  <2>. DEFINE sid == p.sid /\ j = k
              l == lo(j)
              h == hi(j)
  <2>2. sid \in BOOLEAN /\ l \in 1 .. MaxBody + 1 /\ h \in 0 .. MaxBody
    BY <2>1
  <2>3. H[j] = [p EXCEPT !.lo = l, !.hi = h, !.sid = sid, !.halve = FALSE]
    BY <1>4
  <2>4. sid => p.sid /\ j = k
    OBVIOUS
  <2>. HIDE DEF sid, l, h
  <2>5. /\ H[j] \in Pieces
        /\ H[j].lo = l /\ H[j].hi = h
        /\ H[j].sid = sid
        /\ H[j].kind = p.kind
    BY <2>2, <2>3 DEF Pieces
  <2>6. p.lo <= lo(j) /\ hi(j) <= p.hi
    BY <1>0, <1>1, <1>5
  <2>. QED  BY <2>4, <2>5, <2>6 DEF l, h, Within
<1>8. H \in Seq(Pieces) /\ Len(H) = k /\ DOMAIN H = 1 .. k
  BY <1>2, <1>3, <1>7
<1>9. OnlyLastNamed(H)
  BY <1>7, <1>8 DEF OnlyLastNamed
<1>10. ASSUME NEW x \in p.lo .. p.hi
       PROVE  \E j \in DOMAIN H : x \in H[j].lo .. H[j].hi
  <2>1. x - p.lo + 1 \in 1 .. n
    BY <1>0, <1>1
  <2>2. PICK j \in 1 .. k : x - p.lo + 1 \in b(j)[1] .. b(j)[2]
    BY <1>6, <2>1
  <2>3. b(j)[1] \in 1 .. n /\ b(j)[2] \in 1 .. n
    BY <1>5
  <2>4. x \in lo(j) .. hi(j)
    BY <1>0, <1>1, <2>2, <2>3
  <2>. QED  BY <1>7, <1>8, <2>4
<1>11. p.lo .. p.hi \subseteq Covered(Range(H))
  BY <1>10 DEF Covered, Range
<1>12. \A i \in DOMAIN H : (H[i].sid => p.sid) /\ H[i].kind = p.kind /\ Within(H[i], p)
  BY <1>7, <1>8
<1>. QED  BY <1>2, <1>8, <1>9, <1>11, <1>12 DEF H

LEMMA OnePiece ==
  ASSUME NEW p \in Pieces
  PROVE  /\ <<p>> \in Seq(Pieces)
         /\ OnlyLastNamed(<<p>>)
         /\ \A i \in DOMAIN <<p>> : <<p>>[i] = p
         /\ p.lo .. p.hi \subseteq Covered(Range(<<p>>))
<1>1. \A i \in DOMAIN <<p>> : i = Len(<<p>>) /\ <<p>>[i] = p
  OBVIOUS
<1>2. p \in Range(<<p>>)
  BY DEF Range
<1>. QED  BY <1>1, <1>2 DEF OnlyLastNamed, Covered

LEMMA SessionPiece ==
  ASSUME TurnAssumption, NEW c \in BOOLEAN,
         NEW p, p = [Piece("session", 1, 0, TRUE) EXCEPT !.call = c]
  PROVE  p \in Pieces /\ p.kind # "text"
<1>. DEFINE k == "session"
            lo == 1
            hi == 0
            s == TRUE
<1>1. /\ k \in Kinds /\ k # "text" /\ s \in BOOLEAN
      /\ lo \in 1 .. MaxBody + 1 /\ hi \in 0 .. MaxBody
  BY DEF TurnAssumption, Kinds
<1>2. p = [Piece(k, lo, hi, s) EXCEPT !.call = c]
  OBVIOUS
<1>. HIDE DEF k, lo, hi, s
<1>3. p \in Pieces /\ p.kind = k
  BY <1>1, <1>2 DEF Pieces, Piece
<1>. QED  BY <1>1, <1>3

LEMMA AnswerPiece ==
  ASSUME TurnAssumption, NEW n \in 0 .. MaxBody, NEW s \in BOOLEAN,
         NEW p, p = [Piece("a2a", 1, n, s) EXCEPT !.call = TRUE]
  PROVE  p \in Pieces /\ p.kind # "text" /\ p.lo = 1 /\ p.hi = n
<1>. DEFINE k == "a2a"
            lo == 1
            c == TRUE
<1>1. k \in Kinds /\ k # "text" /\ lo \in 1 .. MaxBody + 1 /\ c \in BOOLEAN
  BY DEF TurnAssumption, Kinds
<1>2. p = [Piece(k, lo, n, s) EXCEPT !.call = c]
  OBVIOUS
<1>. HIDE DEF k, lo, c
<1>3. p \in Pieces /\ p.kind = k /\ p.lo = lo /\ p.hi = n
  BY <1>1, <1>2 DEF Pieces, Piece
<1>. QED  BY <1>1, <1>3 DEF lo

(* The pieces a turn ends with, for each of its outcomes.                  *)
LEMMA FinalPiecesOf ==
  ASSUME TurnAssumption, TypeOK, outcome # "none"
  PROVE  /\ FinalPieces \in Seq(Pieces)
         /\ OnlyLastNamed(FinalPieces)
         /\ \A i \in DOMAIN FinalPieces :
              FinalPieces[i].kind = "text" => ~ turn.a2a /\ ~ AlreadyDelivered
         /\ outcome = "reply" /\ ~ AlreadyDelivered =>
              1 .. result.chars \subseteq Covered(Range(FinalPieces))
<1>. DEFINE body == IF AlreadyDelivered THEN 0 ELSE result.chars
<1>0. /\ body \in 0 .. MaxBody /\ MaxBody \in Nat /\ outcome \in Outcomes
      /\ turn.a2a \in BOOLEAN /\ result.sid \in BOOLEAN /\ result.chars \in 0 .. MaxBody
      /\ AlreadyDelivered => body = 0
      /\ ~ AlreadyDelivered => body = result.chars
  BY DEF TypeOK, TurnAssumption
<1>. DEFINE Session == [Piece("session", 1, 0, TRUE) EXCEPT !.call = turn.a2a]
            Answer == [Piece("a2a", 1, body, result.sid) EXCEPT !.call = TRUE]
            Error == Piece("error", 1, 0, FALSE)
            Text == TextParts(body, result.sid)
<1>1. FinalPieces =
        CASE outcome = "reply" /\ body = 0 -> IF result.sid THEN <<Session>> ELSE <<>>
          [] outcome = "reply" /\ body > 0 /\ turn.a2a -> <<Answer>>
          [] outcome = "reply" /\ body > 0 /\ ~ turn.a2a -> Text
          [] outcome # "reply" -> IF SendErrorReply THEN <<Error>> ELSE <<>>
  BY Zenon DEF FinalPieces
<1>. HIDE DEF body
<1>2. /\ 1 \in 1 .. MaxBody + 1 /\ 0 \in 0 .. MaxBody
      /\ "session" \in Kinds /\ "a2a" \in Kinds
      /\ TRUE \in BOOLEAN /\ FALSE \in BOOLEAN
      /\ "session" # "text" /\ "a2a" # "text" /\ "error" # "text"
  BY <1>0 DEF Kinds
<1>3. /\ Session = [Piece("session", 1, 0, TRUE) EXCEPT !.call = turn.a2a]
      /\ Answer = [Piece("a2a", 1, body, result.sid) EXCEPT !.call = TRUE]
  OBVIOUS
<1>. HIDE DEF Session, Answer
<1>4. Session \in Pieces /\ Session.kind # "text"
  BY Zenon, <1>0, <1>3, SessionPiece
<1>5. Answer \in Pieces /\ Answer.kind # "text" /\ Answer.lo = 1 /\ Answer.hi = body
  <2>. DEFINE t == result.sid
  <2>1. body \in 0 .. MaxBody /\ t \in BOOLEAN
    BY <1>0
  <2>2. Answer = [Piece("a2a", 1, body, t) EXCEPT !.call = TRUE]
    BY <1>3
  <2>. HIDE DEF t
  <2>. QED  BY <2>1, <2>2, AnswerPiece
<1>6. Error \in Pieces /\ Error.kind # "text"
  BY <1>2 DEF Piece, Pieces, Kinds
<1>7. OnlyLastNamed(<<>>)
  BY DEF OnlyLastNamed
<1>. HIDE DEF Error
<1>8. CASE outcome = "reply" /\ body = 0
  <2>1. FinalPieces = IF result.sid THEN <<Session>> ELSE <<>>
    BY <1>0, <1>1, <1>8
  <2>2. ~ AlreadyDelivered => 1 .. result.chars = {}
    BY <1>0, <1>8
  <2>. QED  BY <1>4, <1>7, <2>1, <2>2, OnePiece
<1>9. CASE outcome = "reply" /\ body > 0 /\ turn.a2a
  <2>1. FinalPieces = <<Answer>>
    BY <1>0, <1>1, <1>9
  <2>. QED  BY <1>0, <1>5, <2>1, OnePiece
<1>10. CASE outcome = "reply" /\ body > 0 /\ ~ turn.a2a
  <2>1. FinalPieces = Text
    BY <1>0, <1>1, <1>10
  <2>2. ~ AlreadyDelivered /\ body \in 1 .. MaxBody
    BY <1>0, <1>10
  <2>. QED  BY <1>0, <1>10, <2>1, <2>2, TextPartsOf
<1>11. CASE outcome # "reply"
  <2>1. FinalPieces = IF SendErrorReply THEN <<Error>> ELSE <<>>
    BY <1>0, <1>1, <1>11
  <2>. QED  BY <1>6, <1>7, <1>11, <2>1, OnePiece
<1>. QED  BY <1>0, <1>8, <1>9, <1>10, <1>11

-----------------------------------------------------------------------------
LEMMA FirstPart ==
  ASSUME NEW s \in Seq(Pieces), s # <<>>
  PROVE  /\ Head(s) \in Pieces /\ Tail(s) \in Seq(Pieces)
         /\ Range(s) = {Head(s)} \cup Range(Tail(s))
         /\ OnlyLastNamed(s) =>
              /\ OnlyLastNamed(Tail(s))
              /\ Head(s).sid => s = <<Head(s)>> /\ Tail(s) = <<>>
<1>. DEFINE h == Head(s)
            t == Tail(s)
<1>1. /\ Len(s) \in Nat \ {0} /\ h = s[1] /\ h \in Pieces
      /\ t \in Seq(Pieces) /\ Len(t) = Len(s) - 1
      /\ \A i \in 1 .. Len(t) : t[i] = s[i + 1]
  BY HeadTailProperties, EmptySeq
<1>2. DOMAIN s = 1 .. Len(s) /\ DOMAIN t = 1 .. Len(t)
  BY <1>1
<1>. HIDE DEF h, t
<1>3. ASSUME NEW i \in DOMAIN s PROVE s[i] \in {h} \cup Range(t)
  <2>1. CASE i = 1
    BY <1>1, <2>1
  <2>2. CASE i # 1
    <3>1. i - 1 \in DOMAIN t /\ t[i - 1] = s[i]
      BY <1>1, <1>2, <2>2
    <3>. QED  BY <3>1 DEF Range
  <2>. QED  BY <2>1, <2>2
<1>4. ASSUME NEW i \in DOMAIN t PROVE t[i] \in Range(s)
  <2>1. i + 1 \in DOMAIN s /\ t[i] = s[i + 1]
    BY <1>1, <1>2
  <2>. QED  BY <2>1 DEF Range
<1>5. h \in Range(s)
  BY <1>1, <1>2 DEF Range
<1>6. Range(s) = {h} \cup Range(t)
  BY <1>3, <1>4, <1>5 DEF Range
<1>7. ASSUME OnlyLastNamed(s)
      PROVE  OnlyLastNamed(t) /\ (h.sid => s = <<h>> /\ t = <<>>)
  <2>1. ASSUME NEW i \in DOMAIN t, t[i].sid PROVE i = Len(t)
    BY <1>1, <1>2, <1>7, <2>1 DEF OnlyLastNamed
  <2>2. ASSUME h.sid PROVE Len(s) = 1
    BY <1>1, <1>2, <1>7, <2>2 DEF OnlyLastNamed
  <2>3. Len(s) = 1 => s = <<h>> /\ t = <<>>
    BY <1>1
  <2>. QED  BY <2>1, <2>2, <2>3 DEF OnlyLastNamed
<1>. QED  BY <1>1, <1>6, <1>7 DEF h, t

LEMMA RangeOfAppend ==
  ASSUME NEW S, NEW s \in Seq(S), NEW x \in S
  PROVE  Append(s, x) \in Seq(S) /\ Range(Append(s, x)) = Range(s) \cup {x}
<1>. DEFINE t == Append(s, x)
<1>1. /\ t \in Seq(S) /\ Len(t) = Len(s) + 1 /\ Len(s) \in Nat
      /\ \A i \in 1 .. Len(s) : t[i] = s[i]
      /\ t[Len(s) + 1] = x
  BY AppendProperties
<1>2. DOMAIN s = 1 .. Len(s) /\ DOMAIN t = 1 .. Len(s) + 1
  BY <1>1
<1>. HIDE DEF t
<1>3. \A i \in DOMAIN t : t[i] \in Range(s) \cup {x}
  BY <1>1, <1>2 DEF Range
<1>4. \A i \in DOMAIN s : i \in DOMAIN t /\ t[i] = s[i]
  BY <1>1, <1>2
<1>5. Len(s) + 1 \in DOMAIN t
  BY <1>1, <1>2
<1>6. Range(t) = Range(s) \cup {x}
  BY <1>1, <1>3, <1>4, <1>5 DEF Range
<1>. QED  BY <1>1, <1>6 DEF t

(* A piece in flight when a send ends badly may have landed, or not.       *)
LEMMA SentGrows ==
  ASSUME NEW s \in Seq(Pieces), NEW x \in Pieces, NEW t,
         t = s \/ t = Append(s, x)
  PROVE  /\ t \in Seq(Pieces)
         /\ Range(s) \subseteq Range(t)
         /\ \A q \in Range(t) : q \in Range(s) \/ q = x
<1>1. Append(s, x) \in Seq(Pieces) /\ Range(Append(s, x)) = Range(s) \cup {x}
  BY RangeOfAppend
<1>. QED  BY <1>1

(* The pieces of p are put in its place at the head of the line.           *)
LEMMA PiecesFirst ==
  ASSUME NEW s \in Seq(Pieces), NEW t \in Seq(Pieces),
         OnlyLastNamed(s), OnlyLastNamed(t),
         t # <<>> => \A i \in DOMAIN s : ~ s[i].sid
  PROVE  /\ s \o t \in Seq(Pieces)
         /\ Range(s \o t) = Range(s) \cup Range(t)
         /\ OnlyLastNamed(s \o t)
<1>. DEFINE u == s \o t
<1>1. /\ u \in Seq(Pieces) /\ Len(u) = Len(s) + Len(t)
      /\ Len(s) \in Nat /\ Len(t) \in Nat
      /\ \A i \in 1 .. Len(u) : u[i] = IF i <= Len(s) THEN s[i] ELSE t[i - Len(s)]
  BY ConcatProperties
<1>2. DOMAIN s = 1 .. Len(s) /\ DOMAIN t = 1 .. Len(t) /\ DOMAIN u = 1 .. Len(u)
  BY <1>1
<1>3. Len(t) = 0 <=> t = <<>>
  BY EmptySeq
<1>. HIDE DEF u
<1>4. ASSUME NEW i \in DOMAIN u
      PROVE  /\ u[i] \in Range(s) \cup Range(t)
             /\ u[i].sid => i = Len(u)
  <2>1. CASE i <= Len(s)
    <3>1. i \in DOMAIN s /\ u[i] = s[i]
      BY <1>1, <1>2, <2>1
    <3>2. u[i].sid => i = Len(s) /\ t = <<>>
      BY <3>1 DEF OnlyLastNamed
    <3>. QED  BY <1>1, <1>3, <3>1, <3>2 DEF Range
  <2>2. CASE i > Len(s)
    <3>1. i - Len(s) \in DOMAIN t /\ u[i] = t[i - Len(s)]
      BY <1>1, <1>2, <2>2
    <3>2. u[i].sid => i - Len(s) = Len(t)
      BY <3>1 DEF OnlyLastNamed
    <3>3. u[i] \in Range(t)
      BY <3>1 DEF Range
    <3>. QED  BY <1>1, <1>2, <3>2, <3>3
  <2>. QED  BY <1>1, <1>2, <2>1, <2>2
<1>5. ASSUME NEW i \in DOMAIN s PROVE s[i] \in Range(u)
  <2>1. i \in DOMAIN u /\ u[i] = s[i]
    BY <1>1, <1>2
  <2>. QED  BY <2>1 DEF Range
<1>6. ASSUME NEW i \in DOMAIN t PROVE t[i] \in Range(u)
  <2>1. Len(s) + i \in DOMAIN u /\ u[Len(s) + i] = t[i]
    BY <1>1, <1>2
  <2>. QED  BY <2>1 DEF Range
<1>7. Range(u) = Range(s) \cup Range(t)
  BY <1>4, <1>5, <1>6 DEF Range
<1>8. OnlyLastNamed(u)
  BY <1>4 DEF OnlyLastNamed
<1>. QED  BY <1>1, <1>7, <1>8 DEF u

LEMMA CoveredMore ==
  ASSUME NEW P, NEW Q
  PROVE  /\ P \subseteq Q => Covered(P) \subseteq Covered(Q)
         /\ Covered(P \cup Q) = Covered(P) \cup Covered(Q)
  BY DEF Covered

-----------------------------------------------------------------------------
(* The stream: chunk numbers only grow on their way from the slot through  *)
(* the forwarder's buffer to the user.                                     *)
Holding == forwarder \in {"sending", "backoff"}

Streamed ==
  /\ counted = emitted /\ slot <= emitted
  /\ ~ turn.streaming => emitted = 0
  /\ unseen => slot \in Chunks
  /\ Holding => /\ pending \in Chunks /\ pending <= slot
                /\ unseen => pending < slot
                /\ \A i \in DOMAIN shown : shown[i] < pending
  /\ \A i \in DOMAIN shown : shown[i] <= slot /\ (unseen => shown[i] < slot)
  /\ PartialsInOrder

(* Where the turn stands with its final sends.                             *)
Line ==
  /\ stage \in {"running", "joining"} => parts = <<>> /\ sent = <<>>
  /\ stage = "joining" => outcome # "none"
  /\ stage = "sending" => parts # <<>> /\ outcome # "none"
  /\ stage = "done" => parts = <<>> /\ outcome = "reply"

(* Only the end of what is left names the session, and after a piece that  *)
(* named it only its own text is sent or left to send.                     *)
RidesLast(s) == \A i, j \in DOMAIN s : i < j /\ s[i].sid => Within(s[j], s[i])
NamedSent(s, rest) == \A p \in Range(s), q \in Range(rest) : p.sid => Within(q, p)
NamedLast ==
  /\ OnlyLastNamed(parts)
  /\ stage = "sending" => NamedSent(sent, parts)
  /\ RidesLast(sent)

(* A piece that is within every piece that named the session may follow.   *)
LEMMA RidesOn ==
  ASSUME NEW s \in Seq(Pieces), NEW x \in Pieces, NEW t,
         t = s \/ t = Append(s, x),
         RidesLast(s), \A q \in Range(s) : q.sid => Within(x, q)
  PROVE  RidesLast(t)
<1>1. CASE t = s
  BY <1>1
<1>2. CASE t = Append(s, x)
  <2>1. /\ t \in Seq(Pieces) /\ Len(t) = Len(s) + 1 /\ Len(s) \in Nat
        /\ \A i \in 1 .. Len(s) : t[i] = s[i]
        /\ t[Len(s) + 1] = x
    BY <1>2, AppendProperties
  <2>2. DOMAIN s = 1 .. Len(s) /\ DOMAIN t = 1 .. Len(s) + 1
    BY <2>1
  <2>3. ASSUME NEW i \in DOMAIN t, NEW j \in DOMAIN t, i < j, t[i].sid
        PROVE  Within(t[j], t[i])
    <3>1. i \in DOMAIN s /\ t[i] = s[i] /\ s[i] \in Range(s)
      BY <2>1, <2>2, <2>3 DEF Range
    <3>2. CASE j \in DOMAIN s
      <4>1. t[j] = s[j]
        BY <2>1, <2>2, <3>2
      <4>. QED  BY <2>3, <3>1, <3>2, <4>1 DEF RidesLast
    <3>3. CASE j \notin DOMAIN s
      <4>1. t[j] = x
        BY <2>1, <2>2, <3>3
      <4>. QED  BY <2>3, <3>1, <4>1
    <3>. QED  BY <3>2, <3>3
  <2>. QED  BY <2>3 DEF RidesLast
<1>. QED  BY <1>1, <1>2

(* A piece is within itself, and its halves' halves within it.             *)
LEMMA WithinOrder ==
  ASSUME NEW p \in Pieces, NEW q \in Pieces, NEW r \in Pieces, TurnAssumption
  PROVE  Within(p, p) /\ (Within(r, q) /\ Within(q, p) => Within(r, p))
<1>1. /\ p.lo \in Int /\ p.hi \in Int /\ q.lo \in Int /\ q.hi \in Int
      /\ r.lo \in Int /\ r.hi \in Int
  BY DEF Pieces, TurnAssumption
<1>. QED  BY <1>1 DEF Within

(* A turn that sends its body streamed nothing.                            *)
TextUnstreamed ==
  \A p \in Range(parts) \cup Range(sent) : p.kind = "text" => emitted = 0

(* Every character of the body is sent, given up or still in the line.     *)
Accounted ==
  stage \in {"sending", "done"} /\ outcome = "reply" /\ ~ shutdown /\ ~ AlreadyDelivered =>
    1 .. result.chars \subseteq Covered(Range(sent) \cup givenUp \cup Range(parts))

Final == Line /\ NamedLast /\ TextUnstreamed /\ Accounted

TurnInv == TypeOK /\ Streamed /\ Final

LEMMA TurnInit ==
  ASSUME TurnAssumption, Init
  PROVE  TurnInv
<1>1. MaxPartials \in Nat /\ MaxBody \in Nat /\ MaxTries \in Nat
  BY DEF TurnAssumption
<1>2. TypeOK
  <2>1. result \in [chars : 0 .. MaxBody, sid : BOOLEAN]
    BY <1>1 DEF Init
  <2>2. /\ emitted \in 0 .. MaxPartials /\ counted \in 0 .. emitted
        /\ throttles \in 0 .. MaxTries /\ tries \in 0 .. MaxTries
    BY <1>1 DEF Init
  <2>3. shown \in Seq(Chunks) /\ parts \in Seq(Pieces) /\ sent \in Seq(Pieces)
    BY DEF Init
  <2>4. /\ stage \in Stages /\ outcome \in Outcomes /\ attempt \in {1, 2}
        /\ forwarder \in {"off", "waiting", "sending", "backoff", "gone"}
    BY DEF Init, Stages, Outcomes
  <2>5. /\ slot \in Chunks \cup {NoChunk} /\ pending \in Chunks \cup {NoChunk}
        /\ givenUp \subseteq Pieces
    BY DEF Init
  <2>6. /\ turn \in [streaming : BOOLEAN, a2a : BOOLEAN] /\ shutdown \in BOOLEAN
        /\ resuming \in BOOLEAN /\ unseen \in BOOLEAN /\ hitch \in BOOLEAN
    BY DEF Init
  <2>. QED  BY <2>1, <2>2, <2>3, <2>4, <2>5, <2>6 DEF TypeOK
<1>3. Streamed
  BY <1>1 DEF Init, Streamed, Holding, PartialsInOrder, Chunks, NoChunk
<1>4. parts = <<>> /\ sent = <<>> /\ stage = "running"
  BY DEF Init
<1>5. Range(<<>>) = {}
  BY DEF Range
<1>6. Line /\ NamedLast /\ TextUnstreamed /\ Accounted
  BY <1>4, <1>5 DEF Line, NamedLast, OnlyLastNamed, NamedSent, RidesLast, TextUnstreamed,
                    Accounted
<1>. QED  BY <1>2, <1>3, <1>6 DEF TurnInv, Final

-----------------------------------------------------------------------------
(* A chunk newer than all that was shown is shown.                         *)
LEMMA ShowOne ==
  ASSUME NEW s \in Seq(Chunks), NEW c \in Chunks, MaxPartials \in Nat,
         \A i \in DOMAIN s : s[i] < c,
         \A i, j \in DOMAIN s : i < j => s[i] < s[j]
  PROVE  /\ Append(s, c) \in Seq(Chunks)
         /\ \A i \in DOMAIN Append(s, c) : Append(s, c)[i] <= c
         /\ \A i, j \in DOMAIN Append(s, c) :
              i < j => Append(s, c)[i] < Append(s, c)[j]
<1>. DEFINE t == Append(s, c)
<1>1. /\ t \in Seq(Chunks) /\ Len(t) = Len(s) + 1 /\ Len(s) \in Nat
      /\ \A i \in 1 .. Len(s) : t[i] = s[i]
      /\ t[Len(s) + 1] = c
  BY AppendProperties
<1>2. DOMAIN s = 1 .. Len(s) /\ DOMAIN t = 1 .. Len(s) + 1
  BY <1>1
<1>3. c \in Nat /\ \A i \in DOMAIN s : s[i] \in Nat
  BY DEF Chunks
<1>. HIDE DEF t
<1>4. \A i \in DOMAIN t : t[i] <= c
  BY <1>1, <1>2, <1>3
<1>5. ASSUME NEW i \in DOMAIN t, NEW j \in DOMAIN t, i < j
      PROVE  t[i] < t[j]
  <2>1. i \in DOMAIN s /\ t[i] = s[i]
    BY <1>1, <1>2, <1>5
  <2>2. CASE j = Len(s) + 1
    BY <1>1, <2>1, <2>2
  <2>3. CASE j # Len(s) + 1
    BY <1>1, <1>2, <1>5, <2>1, <2>3
  <2>. QED  BY <2>2, <2>3
<1>. QED  BY <1>1, <1>4, <1>5 DEF t

LEMMA ForwarderKeeps ==
  ASSUME TurnAssumption, TurnInv, ForwarderStep
  PROVE  TypeOK' /\ Streamed' /\ Final'
<1>0. MaxPartials \in Nat /\ TypeOK /\ Streamed /\ Final
  BY DEF TurnAssumption, TurnInv
<1>1. /\ UNCHANGED <<turn, stage, shutdown, agentVars, slot, finalVars>>
      /\ forwarder' \in {"waiting", "sending", "backoff", "gone"}
  BY DEF ForwarderStep, ForwarderTo, PickChunk, StreamEnds, PartialSent, PartialThrottled,
         PartialFails, BackoffEnds, Overwrite, StreamEndsInBackoff, ForwarderStops
<1>2. Final'
  BY <1>0, <1>1 DEF Final, Line, NamedLast, SessionRidesLast, OnlyLastNamed,
                    TextUnstreamed, Accounted, AlreadyDelivered, agentVars, finalVars
<1>3. ASSUME pending \in Chunks, Holding
      PROVE  /\ Append(shown, pending) \in Seq(Chunks)
             /\ \A i \in DOMAIN Append(shown, pending) : Append(shown, pending)[i] <= pending
             /\ \A i, j \in DOMAIN Append(shown, pending) :
                  i < j => Append(shown, pending)[i] < Append(shown, pending)[j]
  <2>1. shown \in Seq(Chunks)
    BY <1>0 DEF TypeOK
  <2>2. \A i \in DOMAIN shown : shown[i] < pending
    BY <1>0, <1>3 DEF Streamed
  <2>3. \A i, j \in DOMAIN shown : i < j => shown[i] < shown[j]
    BY <1>0 DEF Streamed, PartialsInOrder
  <2>. QED  BY <1>0, <1>3, <2>1, <2>2, <2>3, ShowOne
<1>4. Holding => pending \in Chunks
  BY <1>0 DEF Streamed
<1>5. /\ slot \in Nat /\ pending \in Nat /\ throttles \in 0 .. MaxTries /\ MaxTries \in Nat
      /\ \A i \in DOMAIN shown : shown[i] \in Nat
  BY <1>0 DEF TypeOK, Chunks, NoChunk, TurnAssumption
<1>6. /\ shown' = shown \/ (Holding /\ shown' = Append(shown, pending))
      /\ unseen' = unseen \/ unseen' = FALSE
      /\ throttles' \in {0, throttles} \/ (throttles < MaxTries /\ throttles' = throttles + 1)
      /\ pending' \in {pending, NoChunk, slot}
      /\ hitch' \in {hitch, TRUE}
  BY DEF ForwarderStep, ForwarderTo, PickChunk, StreamEnds, PartialSent, PartialThrottled,
         PartialFails, BackoffEnds, Overwrite, StreamEndsInBackoff, ForwarderStops, Holding
<1>7. TypeOK'
  <2>1. shown' \in Seq(Chunks)
    BY <1>0, <1>3, <1>4, <1>6 DEF TypeOK
  <2>2. throttles' \in 0 .. MaxTries /\ pending' \in Chunks \cup {NoChunk}
    BY <1>0, <1>5, <1>6 DEF TypeOK
  <2>3. unseen' \in BOOLEAN /\ hitch' \in BOOLEAN
    BY <1>0, <1>6 DEF TypeOK
  <2>. QED  BY <1>0, <1>1, <2>1, <2>2, <2>3 DEF TypeOK, agentVars, finalVars
<1>8. PartialsInOrder'
  BY <1>0, <1>3, <1>4, <1>6 DEF Streamed, PartialsInOrder
<1>9. \A i \in DOMAIN shown' : shown'[i] <= slot /\ (unseen => shown'[i] < slot)
  <2>1. CASE shown' = shown
    BY <1>0, <2>1 DEF Streamed
  <2>2. CASE Holding /\ shown' = Append(shown, pending)
    <3>1. pending <= slot /\ (unseen => pending < slot)
      BY <1>0, <2>2 DEF Streamed
    <3>2. \A i \in DOMAIN shown' : shown'[i] \in Nat /\ shown'[i] <= pending
      <4>1. shown' \in Seq(Chunks)
        BY <1>7 DEF TypeOK
      <4>. QED  BY <1>3, <1>4, <2>2, <4>1 DEF Chunks
    <3>. QED  BY <1>5, <3>1, <3>2
  <2>. QED  BY <1>6, <2>1, <2>2
<1>10. Holding' => /\ pending' \in Chunks /\ pending' <= slot'
                   /\ unseen' => pending' < slot'
                   /\ \A i \in DOMAIN shown' : shown'[i] < pending'
  <2>1. CASE Holding /\ pending' = pending /\ shown' = shown /\ unseen' = unseen
    BY <1>0, <1>1, <2>1 DEF Streamed
  <2>2. CASE unseen /\ ~ unseen' /\ pending' = slot /\ shown' = shown
    BY <1>0, <1>1, <1>5, <2>2 DEF Streamed
  <2>3. CASE forwarder' \in {"waiting", "gone"}
    BY <2>3 DEF Holding
  <2>. QED  BY <2>1, <2>2, <2>3
         DEF ForwarderStep, ForwarderTo, PickChunk, StreamEnds, PartialSent,
             PartialThrottled, PartialFails, BackoffEnds, Overwrite, StreamEndsInBackoff,
             ForwarderStops, Holding
<1>11. unseen' => unseen
  BY <1>6
<1>12. Streamed'
  BY <1>0, <1>1, <1>8, <1>9, <1>10, <1>11 DEF Streamed, agentVars
<1>. QED  BY <1>2, <1>7, <1>12

-----------------------------------------------------------------------------
LEMMA EmitKeeps ==
  ASSUME TurnAssumption, TurnInv, EmitPartial
  PROVE  TurnInv'
<1>0. MaxPartials \in Nat /\ TypeOK /\ Streamed /\ Final
  BY DEF TurnAssumption, TurnInv
<1>1. /\ stage = "running" /\ turn.streaming /\ emitted < MaxPartials
      /\ emitted' = emitted + 1 /\ counted' = counted + 1
      /\ slot' = emitted + 1 /\ unseen' = TRUE
      /\ UNCHANGED <<turn, stage, shutdown, attempt, resuming, outcome, result,
                     forwarder, pending, throttles, shown, hitch,
                     parts, tries, sent, givenUp>>
  BY DEF EmitPartial, forwardVars, finalVars
<1>2. /\ emitted \in Nat /\ slot \in Nat /\ pending \in Nat /\ counted \in Nat
      /\ \A i \in DOMAIN shown : shown[i] \in Nat
  BY <1>0 DEF TypeOK, Chunks, NoChunk
<1>3. TypeOK'
  <2>1. emitted' \in 0 .. MaxPartials /\ counted' \in 0 .. emitted' /\ slot' \in Chunks
    BY <1>0, <1>1, <1>2 DEF TypeOK, Chunks
  <2>2. unseen' \in BOOLEAN
    BY <1>1
  <2>. QED  BY <1>0, <1>1, <2>1, <2>2 DEF TypeOK
<1>4. Streamed'
  <2>1. slot' \in Chunks /\ slot < slot' /\ counted' = emitted' /\ slot' <= emitted'
    BY <1>0, <1>1, <1>2 DEF Streamed, Chunks
  <2>2. \A i \in DOMAIN shown' : shown'[i] < slot'
    BY <1>0, <1>1, <1>2, <2>1 DEF Streamed
  <2>3. Holding' => /\ pending' \in Chunks /\ pending' < slot'
                    /\ \A i \in DOMAIN shown' : shown'[i] < pending'
    BY <1>0, <1>1, <1>2, <2>1 DEF Streamed, Holding
  <2>4. PartialsInOrder'
    BY <1>0, <1>1 DEF Streamed, PartialsInOrder
  <2>5. slot' \in Nat /\ pending' \in Nat /\ \A i \in DOMAIN shown' : shown'[i] \in Nat
    BY <1>1, <1>2
  <2>6. turn'.streaming
    BY <1>1
  <2>. QED  BY <2>1, <2>2, <2>3, <2>4, <2>5, <2>6 DEF Streamed
<1>5. parts' = <<>> /\ sent' = <<>> /\ stage' = "running"
  BY <1>0, <1>1 DEF Final, Line
<1>6. Range(<<>>) = {}
  BY DEF Range
<1>7. Final'
  BY <1>5, <1>6 DEF Final, Line, NamedLast, OnlyLastNamed, NamedSent, RidesLast,
                    TextUnstreamed, Accounted
<1>. QED  BY <1>3, <1>4, <1>7 DEF TurnInv

LEMMA RunKeeps ==
  ASSUME TurnAssumption, TurnInv, ColdRetry \/ AgentReplies \/ AgentFails
  PROVE  TurnInv'
<1>0. TypeOK /\ Streamed /\ Final
  BY DEF TurnInv
<1>1. /\ stage = "running" /\ stage' \in {"running", "joining"}
      /\ stage' = "joining" => outcome' # "none"
      /\ UNCHANGED <<turn, shutdown, emitted, slot, unseen, forwarder, pending, throttles,
                     shown, hitch, parts, tries, sent, givenUp>>
      /\ counted' = counted
  <2>1. ColdRetry => counted = 0 /\ counted' = 0
    BY DEF ColdRetry
  <2>. QED  BY <2>1 DEF ColdRetry, AgentReplies, AgentFails, AgentEnds, forwardVars, finalVars
<1>2. TypeOK'
  <2>1. attempt' \in {1, 2} /\ resuming' \in BOOLEAN /\ outcome' \in Outcomes
    BY <1>0 DEF ColdRetry, AgentReplies, AgentFails, AgentEnds, TypeOK, Outcomes
  <2>2. result' \in [chars : 0 .. MaxBody, sid : BOOLEAN]
    <3>1. CASE ColdRetry
      BY <1>0, <3>1 DEF ColdRetry, TypeOK
    <3>2. CASE AgentReplies
      BY <3>2 DEF AgentReplies, AgentEnds
    <3>3. CASE AgentFails
      <4>1. result' = [chars |-> 0, sid |-> FALSE]
        BY <3>3 DEF AgentFails, AgentEnds
      <4>. QED  BY <4>1 DEF TurnAssumption
    <3>. QED  BY <3>1, <3>2, <3>3
  <2>3. stage' \in Stages
    BY <1>1 DEF Stages
  <2>. QED  BY <1>0, <1>1, <2>1, <2>2, <2>3 DEF TypeOK
<1>3. Streamed'
  BY <1>0, <1>1 DEF Streamed, Holding, PartialsInOrder
<1>5. parts' = <<>> /\ sent' = <<>>
  BY <1>0, <1>1 DEF Final, Line
<1>6. Range(<<>>) = {}
  BY DEF Range
<1>7. Final'
  BY <1>1, <1>5, <1>6 DEF Final, Line, NamedLast, OnlyLastNamed, NamedSent, RidesLast,
                    TextUnstreamed, Accounted
<1>. QED  BY <1>2, <1>3, <1>7 DEF TurnInv

(* After the shutdown nothing is owed any more.                            *)
LEMMA ShutdownKeeps ==
  ASSUME TurnInv, RequestShutdown
  PROVE  TurnInv'
<1>0. TypeOK /\ Streamed /\ Final
  BY DEF TurnInv
<1>1. /\ shutdown' = TRUE
      /\ UNCHANGED <<turn, stage, attempt, resuming, outcome, result, emitted, counted,
                     slot, unseen, forwarder, pending, throttles, shown, hitch,
                     parts, tries, sent, givenUp>>
  BY DEF RequestShutdown, agentVars, forwardVars, finalVars
<1>2. TypeOK'
  BY <1>0, <1>1 DEF TypeOK
<1>3. Streamed'
  BY <1>0, <1>1 DEF Streamed, Holding, PartialsInOrder
<1>4. Final'
  BY <1>0, <1>1 DEF Final, Line, NamedLast, OnlyLastNamed, NamedSent, RidesLast,
                    TextUnstreamed, Accounted
<1>. QED  BY <1>2, <1>3, <1>4 DEF TurnInv

(* What the final part of the invariant asks of a step that takes the line *)
(* to rest, with the sends and the losses it counts.                       *)
LEMMA LineMoves ==
  ASSUME TurnAssumption, TurnInv, NEW rest \in Seq(Pieces), SendNext(rest),
         outcome # "none", sent' \in Seq(Pieces), givenUp' \subseteq Pieces,
         OnlyLastNamed(rest),
         NamedSent(sent', rest), RidesLast(sent'),
         \A p \in Range(rest) \cup Range(sent') : p.kind = "text" => emitted = 0,
         outcome = "reply" /\ ~ shutdown /\ ~ AlreadyDelivered =>
           1 .. result.chars \subseteq Covered(Range(sent') \cup givenUp' \cup Range(rest))
  PROVE  TurnInv'
<1>0. TypeOK /\ Streamed /\ Final /\ MaxTries \in Nat
  BY DEF TurnInv, TurnAssumption
<1>1. /\ parts' = rest /\ tries' = 0
      /\ stage' = IF rest = <<>> THEN Verdict ELSE "sending"
      /\ UNCHANGED <<turn, shutdown, attempt, resuming, outcome, result, emitted, counted,
                     slot, unseen, forwarder, pending, throttles, shown, hitch>>
  BY DEF SendNext, agentVars, forwardVars
<1>2. /\ Verdict \in {"done", "fatal", "failed"}
      /\ Verdict = "done" => outcome = "reply"
  BY DEF Verdict
<1>3. TypeOK'
  <2>1. stage' \in Stages
    BY <1>1, <1>2 DEF Stages, Terminal
  <2>2. tries' \in 0 .. MaxTries
    BY <1>0, <1>1
  <2>. QED  BY <1>0, <1>1, <2>1, <2>2 DEF TypeOK
<1>4. Streamed'
  BY <1>0, <1>1 DEF Streamed, Holding, PartialsInOrder
<1>5. Line'
  BY <1>1, <1>2 DEF Line
<1>6. NamedLast'
  BY <1>1 DEF NamedLast
<1>7. TextUnstreamed'
  BY <1>1 DEF TextUnstreamed
<1>8. Accounted'
  BY <1>1 DEF Accounted, AlreadyDelivered
<1>. QED  BY <1>3, <1>4, <1>5, <1>6, <1>7, <1>8 DEF TurnInv, Final

LEMMA JoinKeeps ==
  ASSUME TurnAssumption, TurnInv, Join
  PROVE  TurnInv'
<1>0. TypeOK /\ Streamed /\ Line
  BY DEF TurnInv, Final
<1>1. /\ stage = "joining" /\ outcome # "none"
      /\ SendNext(FinalPieces)
      /\ sent' = sent /\ sent = <<>> /\ givenUp' = givenUp
  BY <1>0 DEF Join, Line
<1>2. /\ FinalPieces \in Seq(Pieces)
      /\ OnlyLastNamed(FinalPieces)
      /\ \A i \in DOMAIN FinalPieces :
           FinalPieces[i].kind = "text" => ~ turn.a2a /\ ~ AlreadyDelivered
      /\ outcome = "reply" /\ ~ AlreadyDelivered =>
           1 .. result.chars \subseteq Covered(Range(FinalPieces))
  BY <1>0, <1>1, FinalPiecesOf
<1>3. Range(<<>>) = {}
  BY DEF Range
<1>4. ASSUME NEW p \in Range(FinalPieces), p.kind = "text" PROVE emitted = 0
  <2>1. ~ turn.a2a /\ ~ AlreadyDelivered
    BY <1>2, <1>4 DEF Range
  <2>2. ~ turn.streaming \/ counted = 0
    BY <1>0, <2>1 DEF AlreadyDelivered, TypeOK
  <2>. QED  BY <1>0, <2>2 DEF Streamed
<1>5. NamedSent(sent', FinalPieces) /\ RidesLast(sent')
  BY <1>1, <1>3 DEF NamedSent, RidesLast
<1>6. \A p \in Range(FinalPieces) \cup Range(sent') : p.kind = "text" => emitted = 0
  BY <1>1, <1>3, <1>4
<1>7. outcome = "reply" /\ ~ shutdown /\ ~ AlreadyDelivered =>
        1 .. result.chars \subseteq Covered(Range(sent') \cup givenUp' \cup Range(FinalPieces))
  BY <1>2, CoveredMore
<1>8. sent' \in Seq(Pieces) /\ givenUp' \subseteq Pieces
  BY <1>0, <1>1 DEF TypeOK
<1>. HIDE DEF FinalPieces
<1>. QED  BY <1>1, <1>2, <1>5, <1>6, <1>7, <1>8, LineMoves

(* What is known of the piece being sent and of the rest of the line.      *)
LEMMA InTheLine ==
  ASSUME TurnInv, stage = "sending"
  PROVE  LET p == Head(parts)
             rest == Tail(parts)
         IN  /\ parts # <<>> /\ outcome # "none"
             /\ parts \in Seq(Pieces) /\ sent \in Seq(Pieces) /\ givenUp \subseteq Pieces
             /\ p \in Pieces /\ rest \in Seq(Pieces)
             /\ Range(parts) = {p} \cup Range(rest)
             /\ OnlyLastNamed(parts) /\ OnlyLastNamed(rest)
             /\ p.sid => parts = <<p>> /\ rest = <<>>
             /\ NamedSent(sent, parts) /\ RidesLast(sent)
             /\ \A q \in Range(parts) \cup Range(sent) : q.kind = "text" => emitted = 0
             /\ outcome = "reply" /\ ~ shutdown /\ ~ AlreadyDelivered =>
                  1 .. result.chars \subseteq Covered(Range(sent) \cup givenUp \cup Range(parts))
<1>. DEFINE p == Head(parts)
            rest == Tail(parts)
<1>1. /\ parts # <<>> /\ outcome # "none"
      /\ parts \in Seq(Pieces) /\ sent \in Seq(Pieces) /\ givenUp \subseteq Pieces
      /\ OnlyLastNamed(parts)
      /\ NamedSent(sent, parts) /\ RidesLast(sent)
      /\ \A q \in Range(parts) \cup Range(sent) : q.kind = "text" => emitted = 0
      /\ outcome = "reply" /\ ~ shutdown /\ ~ AlreadyDelivered =>
           1 .. result.chars \subseteq Covered(Range(sent) \cup givenUp \cup Range(parts))
  BY DEF TurnInv, TypeOK, Final, Line, NamedLast, TextUnstreamed, Accounted
<1>2. /\ p \in Pieces /\ rest \in Seq(Pieces)
      /\ Range(parts) = {p} \cup Range(rest)
      /\ OnlyLastNamed(rest)
      /\ p.sid => parts = <<p>> /\ rest = <<>>
  BY <1>1, FirstPart
<1>. QED  BY <1>1, <1>2

(* The piece being sent may be sent once more.                             *)
LEMMA SentAgain ==
  ASSUME TurnAssumption, TurnInv, stage = "sending",
         sent' = sent \/ sent' = Append(sent, Head(parts))
  PROVE  RidesLast(sent') /\ NamedSent(sent', Tail(parts)) /\ NamedSent(sent', parts)
<1>. DEFINE p == Head(parts)
            rest == Tail(parts)
<1>1. /\ parts # <<>>
      /\ parts \in Seq(Pieces) /\ sent \in Seq(Pieces) /\ p \in Pieces /\ rest \in Seq(Pieces)
      /\ Range(parts) = {p} \cup Range(rest)
      /\ p.sid => parts = <<p>> /\ rest = <<>>
      /\ NamedSent(sent, parts) /\ RidesLast(sent)
  BY InTheLine
<1>2. sent' = sent \/ sent' = Append(sent, p)
  OBVIOUS
<1>. HIDE DEF p, rest
<1>3. \A q \in Range(sent) : q.sid => Within(p, q)
  BY <1>1 DEF NamedSent
<1>4. RidesLast(sent')
  BY <1>1, <1>2, <1>3, RidesOn
<1>5. \A q \in Range(sent') : q \in Range(sent) \/ q = p
  BY <1>1, <1>2, SentGrows
<1>6. ASSUME NEW q \in Range(sent'), NEW r \in Range(parts), q.sid PROVE Within(r, q)
  <2>1. CASE q \in Range(sent)
    BY <1>1, <1>6, <2>1 DEF NamedSent
  <2>2. CASE q = p
    <3>1. rest = <<>> /\ Range(<<>>) = {}
      BY <1>1, <1>6, <2>2 DEF Range
    <3>2. r = p
      BY <1>1, <3>1
    <3>. QED  BY <1>1, <2>2, <3>2, WithinOrder
  <2>. QED  BY <1>5, <2>1, <2>2
<1>7. NamedSent(sent', parts)
  BY <1>6 DEF NamedSent
<1>8. NamedSent(sent', rest)
  BY <1>1, <1>7 DEF NamedSent
<1>. QED  BY <1>4, <1>7, <1>8 DEF rest

(* The first piece leaves the line: it was taken, or it is given up.       *)
LEMMA FirstLeaves ==
  ASSUME TurnAssumption, TurnInv, stage = "sending",
         SendNext(Tail(parts)),
         \/ sent' = sent
         \/ sent' = Append(sent, Head(parts)),
         \/ givenUp' = givenUp /\ Head(parts) \in Range(sent')
         \/ givenUp' = givenUp \cup {Head(parts)}
  PROVE  TurnInv'
<1>. DEFINE p == Head(parts)
            rest == Tail(parts)
<1>1. /\ parts # <<>> /\ outcome # "none"
      /\ parts \in Seq(Pieces) /\ sent \in Seq(Pieces) /\ givenUp \subseteq Pieces
      /\ p \in Pieces /\ rest \in Seq(Pieces)
      /\ Range(parts) = {p} \cup Range(rest)
      /\ OnlyLastNamed(parts) /\ OnlyLastNamed(rest)
      /\ p.sid => parts = <<p>> /\ rest = <<>>
      /\ \A q \in Range(parts) \cup Range(sent) : q.kind = "text" => emitted = 0
      /\ outcome = "reply" /\ ~ shutdown /\ ~ AlreadyDelivered =>
           1 .. result.chars \subseteq Covered(Range(sent) \cup givenUp \cup Range(parts))
  BY InTheLine
<1>2. /\ SendNext(rest)
      /\ \/ givenUp' = givenUp /\ p \in Range(sent')
         \/ givenUp' = givenUp \cup {p}
  OBVIOUS
<1>3. sent' = sent \/ sent' = Append(sent, p)
  OBVIOUS
<1>6. NamedSent(sent', rest) /\ RidesLast(sent')
  BY SentAgain
<1>. HIDE DEF p, rest
<1>4. /\ sent' \in Seq(Pieces)
      /\ Range(sent) \subseteq Range(sent')
      /\ \A q \in Range(sent') : q \in Range(sent) \/ q = p
  BY <1>1, <1>3, SentGrows
<1>5. givenUp' \subseteq Pieces
  BY <1>1, <1>2
<1>7. \A q \in Range(rest) \cup Range(sent') : q.kind = "text" => emitted = 0
  BY <1>1, <1>4
<1>8. Range(sent) \cup givenUp \cup Range(parts) \subseteq
        Range(sent') \cup givenUp' \cup Range(rest)
  BY <1>1, <1>2, <1>4
<1>9. outcome = "reply" /\ ~ shutdown /\ ~ AlreadyDelivered =>
        1 .. result.chars \subseteq Covered(Range(sent') \cup givenUp' \cup Range(rest))
  BY <1>1, <1>8, CoveredMore
<1>. QED  BY <1>1, <1>2, <1>4, <1>5, <1>6, <1>7, <1>9, LineMoves

LEMMA SentKeeps ==
  ASSUME TurnAssumption, TurnInv, FinalSent
  PROVE  TurnInv'
<1>1. /\ stage = "sending" /\ SendNext(Tail(parts))
      /\ sent' = Append(sent, Head(parts)) /\ givenUp' = givenUp
  BY DEF FinalSent
<1>2. sent \in Seq(Pieces) /\ Head(parts) \in Pieces
  BY <1>1, InTheLine
<1>3. Head(parts) \in Range(sent')
  BY <1>1, <1>2, RangeOfAppend
<1>. QED  BY <1>1, <1>3, FirstLeaves

LEMMA RejectedKeeps ==
  ASSUME TurnAssumption, TurnInv, FinalRejected
  PROVE  TurnInv'
<1>. DEFINE p == Head(parts)
            rest == Tail(parts)
            H == Halves(p)
<1>1. stage = "sending" /\ sent' = sent
  BY DEF FinalRejected
<1>2. CASE /\ p.hi > p.lo /\ givenUp' = givenUp
           /\ SendNext(H \o rest)
  <2>1. /\ outcome # "none"
        /\ sent \in Seq(Pieces) /\ givenUp \subseteq Pieces
        /\ p \in Pieces /\ rest \in Seq(Pieces)
        /\ Range(parts) = {p} \cup Range(rest)
        /\ OnlyLastNamed(rest)
        /\ p.sid => rest = <<>>
        /\ NamedSent(sent, parts) /\ RidesLast(sent)
        /\ \A q \in Range(parts) \cup Range(sent) : q.kind = "text" => emitted = 0
        /\ outcome = "reply" /\ ~ shutdown /\ ~ AlreadyDelivered =>
             1 .. result.chars \subseteq Covered(Range(sent) \cup givenUp \cup Range(parts))
    BY <1>1, InTheLine
  <2>. HIDE DEF p, rest
  <2>2. /\ H \in Seq(Pieces) /\ OnlyLastNamed(H)
        /\ \A i \in DOMAIN H : (H[i].sid => p.sid) /\ H[i].kind = p.kind /\ Within(H[i], p)
        /\ p.lo .. p.hi \subseteq Covered(Range(H))
    BY <1>2, <2>1, HalvesOf
  <2>. HIDE DEF H
  <2>3. rest # <<>> => \A i \in DOMAIN H : ~ H[i].sid
    BY <2>1, <2>2
  <2>4. /\ H \o rest \in Seq(Pieces)
        /\ Range(H \o rest) = Range(H) \cup Range(rest)
        /\ OnlyLastNamed(H \o rest)
    BY <2>1, <2>2, <2>3, PiecesFirst
  <2>5. NamedSent(sent', H \o rest) /\ RidesLast(sent')
    <3>1. ASSUME NEW q \in Range(sent), NEW r \in Range(H \o rest), q.sid PROVE Within(r, q)
      <4>1. CASE r \in Range(rest)
        BY <2>1, <3>1, <4>1 DEF NamedSent
      <4>2. CASE r \in Range(H)
        <5>1. r \in Pieces /\ Within(r, p)
          BY <2>2, <4>2 DEF Range
        <5>2. q \in Pieces /\ Within(p, q)
          BY <2>1, <3>1 DEF NamedSent, Range
        <5>. QED  BY <2>1, <5>1, <5>2, WithinOrder
      <4>. QED  BY <2>4, <4>1, <4>2
    <3>. QED  BY <1>1, <2>1, <3>1 DEF NamedSent
  <2>6. ASSUME NEW q \in Range(H \o rest) \cup Range(sent'), q.kind = "text"
        PROVE  emitted = 0
    <3>1. CASE q \in Range(H)
      <4>1. p.kind = "text"
        BY <2>2, <2>6, <3>1 DEF Range
      <4>. QED  BY <2>1, <4>1
    <3>2. CASE q \in Range(rest) \cup Range(sent)
      BY <2>1, <2>6, <3>2
    <3>. QED  BY <1>1, <2>4, <3>1, <3>2
  <2>7. Covered(Range(sent) \cup givenUp \cup Range(parts)) \subseteq
          Covered(Range(sent') \cup givenUp' \cup Range(H \o rest))
    <3>1. Covered({p}) = p.lo .. p.hi
      BY DEF Covered
    <3>2. Range(sent) \cup givenUp \cup Range(parts) =
            (Range(sent) \cup givenUp \cup Range(rest)) \cup {p}
      BY <2>1
    <3>3. Range(sent') \cup givenUp' \cup Range(H \o rest) =
            (Range(sent) \cup givenUp \cup Range(rest)) \cup Range(H)
      BY <1>1, <1>2, <2>4
    <3>. DEFINE D == Range(sent) \cup givenUp \cup Range(rest)
    <3>4. Covered(D \cup {p}) = Covered(D) \cup Covered({p})
      BY CoveredMore
    <3>5. Covered(D \cup Range(H)) = Covered(D) \cup Covered(Range(H))
      BY CoveredMore
    <3>. HIDE DEF D
    <3>. QED  BY <2>2, <3>1, <3>2, <3>3, <3>4, <3>5 DEF D
  <2>8. outcome = "reply" /\ ~ shutdown /\ ~ AlreadyDelivered =>
          1 .. result.chars \subseteq Covered(Range(sent') \cup givenUp' \cup Range(H \o rest))
    BY <2>1, <2>7
  <2>9. sent' \in Seq(Pieces) /\ givenUp' \subseteq Pieces /\ SendNext(H \o rest)
    BY <1>1, <1>2, <2>1
  <2>. QED  BY <2>1, <2>4, <2>5, <2>6, <2>8, <2>9, LineMoves
<1>3. CASE givenUp' = givenUp \cup {p} /\ SendNext(rest)
  BY <1>1, <1>3, FirstLeaves
<1>. QED  BY <1>2, <1>3 DEF FinalRejected

LEMMA FailsKeeps ==
  ASSUME TurnAssumption, TurnInv, FinalFails
  PROVE  TurnInv'
<1>. DEFINE p == Head(parts)
<1>1. stage = "sending" /\ (sent' = sent \/ sent' = Append(sent, p))
  BY DEF FinalFails
<1>2. CASE tries < MaxTries
  <2>1. /\ tries' = tries + 1
        /\ UNCHANGED <<turn, stage, shutdown, attempt, resuming, outcome, result, emitted,
                       counted, slot, unseen, forwarder, pending, throttles, shown, hitch,
                       parts, givenUp>>
    BY <1>2 DEF FinalFails, agentVars, forwardVars
  <2>2. /\ TypeOK /\ Streamed /\ Line /\ sent \in Seq(Pieces) /\ p \in Pieces
        /\ parts # <<>>
        /\ Range(parts) = {p} \cup Range(Tail(parts))
        /\ OnlyLastNamed(parts)
        /\ \A q \in Range(parts) \cup Range(sent) : q.kind = "text" => emitted = 0
        /\ outcome = "reply" /\ ~ shutdown /\ ~ AlreadyDelivered =>
             1 .. result.chars \subseteq Covered(Range(sent) \cup givenUp \cup Range(parts))
    BY <1>1, InTheLine DEF TurnInv, Final
  <2>3. tries' \in 0 .. MaxTries
    BY <1>2, <2>1, <2>2 DEF TypeOK, TurnAssumption
  <2>8. NamedSent(sent', parts) /\ RidesLast(sent')
    BY <1>1, SentAgain
  <2>. HIDE DEF p
  <2>4. /\ sent' \in Seq(Pieces)
        /\ Range(sent) \subseteq Range(sent')
        /\ \A q \in Range(sent') : q \in Range(sent) \/ q = p
    BY <1>1, <2>2, SentGrows
  <2>5. TypeOK'
    BY <2>1, <2>2, <2>3, <2>4 DEF TypeOK
  <2>6. Streamed'
    BY <2>1, <2>2 DEF Streamed, Holding, PartialsInOrder
  <2>7. Line'
    BY <1>1, <2>1, <2>2 DEF Line
  <2>12. NamedLast'
    BY <2>1, <2>2, <2>8 DEF NamedLast
  <2>9. TextUnstreamed'
    BY <2>1, <2>2, <2>4 DEF TextUnstreamed
  <2>10. Covered(Range(sent) \cup givenUp \cup Range(parts)) \subseteq
           Covered(Range(sent') \cup givenUp \cup Range(parts))
    BY <2>4, CoveredMore
  <2>11. Accounted'
    BY <2>1, <2>2, <2>10 DEF Accounted, AlreadyDelivered
  <2>. QED  BY <2>5, <2>6, <2>7, <2>9, <2>11, <2>12 DEF TurnInv, Final
<1>3. CASE ~ tries < MaxTries
  <2>1. givenUp' = givenUp \cup {p} /\ SendNext(Tail(parts))
    BY <1>3 DEF FinalFails
  <2>. QED  BY <1>1, <2>1, FirstLeaves
<1>. QED  BY <1>2, <1>3

LEMMA CancelledKeeps ==
  ASSUME TurnAssumption, TurnInv, FinalCancelled
  PROVE  TurnInv'
<1>. DEFINE p == Head(parts)
<1>1. /\ stage = "sending" /\ shutdown /\ SendNext(<<>>) /\ givenUp' = givenUp
      /\ sent' = sent \/ sent' = Append(sent, p)
  BY DEF FinalCancelled
<1>2. /\ outcome # "none" /\ sent \in Seq(Pieces) /\ givenUp \subseteq Pieces /\ p \in Pieces
      /\ p \in Range(parts)
      /\ \A q \in Range(parts) \cup Range(sent) : q.kind = "text" => emitted = 0
  BY <1>1, InTheLine
<1>5. NamedSent(sent', <<>>) /\ RidesLast(sent')
  <2>1. RidesLast(sent')
    BY <1>1, SentAgain
  <2>. QED  BY <2>1 DEF NamedSent, Range
<1>. HIDE DEF p
<1>3. sent' \in Seq(Pieces) /\ \A q \in Range(sent') : q \in Range(sent) \/ q = p
  BY <1>1, <1>2, SentGrows
<1>4. OnlyLastNamed(<<>>) /\ Range(<<>>) = {} /\ <<>> \in Seq(Pieces)
  BY DEF OnlyLastNamed, Range
<1>6. \A q \in Range(<<>>) \cup Range(sent') : q.kind = "text" => emitted = 0
  BY <1>2, <1>3, <1>4
<1>7. ~ (outcome = "reply" /\ ~ shutdown /\ ~ AlreadyDelivered)
  BY <1>1
<1>. QED  BY <1>1, <1>2, <1>3, <1>4, <1>5, <1>6, <1>7, LineMoves

LEMMA InterruptKeeps ==
  ASSUME TurnAssumption, TurnInv, Interrupt
  PROVE  TurnInv'
<1>. DEFINE p == Head(parts)
<1>0. TypeOK /\ Streamed /\ Final
  BY DEF TurnInv
<1>1. /\ stage' = "interrupted"
      /\ sent' = sent \/ (stage = "sending" /\ sent' = Append(sent, p))
      /\ UNCHANGED <<turn, shutdown, attempt, resuming, outcome, result, emitted, counted,
                     slot, unseen, forwarder, pending, throttles, shown, hitch,
                     parts, tries, givenUp>>
  BY DEF Interrupt, agentVars, forwardVars
<1>2. stage = "sending" => p \in Pieces /\ p \in Range(parts)
  BY InTheLine
<1>8. RidesLast(sent')
  <2>1. RidesLast(sent)
    BY <1>0 DEF Final, NamedLast
  <2>. QED  BY <1>1, <2>1, SentAgain
<1>. HIDE DEF p
<1>3. sent \in Seq(Pieces) /\ TextUnstreamed /\ OnlyLastNamed(parts)
  BY <1>0 DEF TypeOK, Final, NamedLast
<1>4. sent' \in Seq(Pieces) /\ \A q \in Range(sent') : q \in Range(sent) \cup Range(parts)
  <2>1. CASE sent' = sent
    BY <1>3, <2>1
  <2>2. CASE stage = "sending" /\ sent' = Append(sent, p)
    <3>1. p \in Pieces /\ p \in Range(parts) /\ (sent' = sent \/ sent' = Append(sent, p))
      BY <1>2, <2>2
    <3>2. sent' \in Seq(Pieces) /\ \A q \in Range(sent') : q \in Range(sent) \/ q = p
      BY <1>3, <3>1, SentGrows
    <3>. QED  BY <3>1, <3>2
  <2>. QED  BY <1>1, <2>1, <2>2
<1>5. TypeOK'
  BY <1>0, <1>1, <1>4 DEF TypeOK, Stages, Terminal
<1>6. Streamed'
  BY <1>0, <1>1 DEF Streamed, Holding, PartialsInOrder
<1>7. Final'
  BY <1>1, <1>3, <1>4, <1>8 DEF Final, Line, NamedLast, OnlyLastNamed,
                    TextUnstreamed, Accounted
<1>. QED  BY <1>5, <1>6, <1>7 DEF TurnInv

LEMMA TurnStep == TurnAssumption /\ TurnInv /\ [Next]_vars => TurnInv'
<1>. SUFFICES ASSUME TurnAssumption, TurnInv, [Next]_vars
              PROVE  TurnInv'
  OBVIOUS
<1>1. CASE HandlerStep
  BY <1>1, EmitKeeps, RunKeeps, JoinKeeps, SentKeeps, RejectedKeeps, FailsKeeps,
     CancelledKeeps, InterruptKeeps DEF HandlerStep
<1>2. CASE ForwarderStep
  BY <1>2, ForwarderKeeps DEF TurnInv
<1>3. CASE RequestShutdown
  BY <1>3, ShutdownKeeps
<1>4. CASE UNCHANGED vars
  <2>1. UNCHANGED <<turn, stage, shutdown, attempt, resuming, outcome, result, emitted,
                    counted, slot, unseen, forwarder, pending, throttles, shown, hitch,
                    parts, tries, sent, givenUp>>
    BY <1>4 DEF vars, agentVars, forwardVars, finalVars
  <2>2. TypeOK'
    BY <2>1 DEF TurnInv, TypeOK
  <2>3. Streamed'
    BY <2>1 DEF TurnInv, Streamed, Holding, PartialsInOrder
  <2>4. Final'
    BY <2>1 DEF TurnInv, Final, Line, NamedLast, OnlyLastNamed, NamedSent, RidesLast,
                TextUnstreamed, Accounted, AlreadyDelivered
  <2>. QED  BY <2>2, <2>3, <2>4 DEF TurnInv
<1>. QED  BY <1>1, <1>2, <1>3, <1>4 DEF Next

LEMMA TurnAlways == Spec => []TurnInv
  BY TurnAssumption, TurnInit, TurnStep, PTL DEF Spec

-----------------------------------------------------------------------------
(* A turn keeps its types: buffers, counters and retry budgets stay in     *)
(* bounds, and every piece is a part of the body.                          *)
THEOREM TypeCorrect == Spec => []TypeOK
<1>1. TurnInv => TypeOK
  BY DEF TurnInv
<1>. QED  BY <1>1, TurnAlways, PTL

(* run_partial_forward_loop: the chunks the user is shown are in order and *)
(* none is shown twice, whatever was overwritten, throttled or retried.    *)
THEOREM InOrder == Spec => []PartialsInOrder
<1>1. TurnInv => PartialsInOrder
  BY DEF TurnInv, Streamed
<1>. QED  BY <1>1, TurnAlways, PTL

(* agentproc_runner.rs: once a chunk reached the user the turn is not run  *)
(* again, so that nothing of an abandoned run was ever shown.              *)
THEOREM NoRerunShown == Spec => []ColdRetryInvisible
<1>1. ASSUME TurnInv, NEW i \in DOMAIN shown PROVE shown[i] > emitted - counted
  <2>1. shown[i] \in Chunks
    BY <1>1 DEF TurnInv, TypeOK
  <2>2. emitted - counted = 0
    BY <1>1 DEF TurnInv, TypeOK, Streamed
  <2>. QED  BY <2>1, <2>2 DEF Chunks
<1>2. TurnInv => ColdRetryInvisible
  BY <1>1 DEF ColdRetryInvisible
<1>. QED  BY <1>2, TurnAlways, PTL

(* handle.rs: a body is sent only if nothing of the turn was streamed.     *)
THEOREM OneAnswer == Spec => []AnsweredOnce
<1>1. ASSUME TurnInv, NEW p \in Range(sent), p.kind = "text" PROVE shown = <<>>
  <2>1. emitted = 0 /\ slot <= 0
    BY <1>1 DEF TurnInv, Final, TextUnstreamed, Streamed
  <2>2. ASSUME NEW i \in DOMAIN shown PROVE FALSE
    <3>1. shown \in Seq(Chunks) /\ slot \in Chunks \cup {NoChunk}
      BY <1>1 DEF TurnInv, TypeOK
    <3>2. shown[i] <= slot
      BY <1>1 DEF TurnInv, Streamed
    <3>3. shown[i] \in Chunks
      BY <3>1
    <3>. QED  BY <2>1, <3>1, <3>2, <3>3 DEF Chunks, NoChunk
  <2>3. DOMAIN shown = {}
    BY <2>2
  <2>4. shown \in Seq(Chunks)
    BY <1>1 DEF TurnInv, TypeOK
  <2>. QED  BY <2>3, <2>4
<1>2. TurnInv => AnsweredOnce
  BY <1>1 DEF AnsweredOnce
<1>. QED  BY <1>2, TurnAlways, PTL

(* send_final_parts: after a piece that named the session nothing follows  *)
(* but its own text, as a whole or halved, whatever was lost or rejected.  *)
THEOREM SessionLast == Spec => []SessionRidesLast
<1>1. TurnInv => SessionRidesLast
  BY DEF TurnInv, Final, NamedLast, RidesLast, SessionRidesLast
<1>. QED  BY <1>1, TurnAlways, PTL

(* send_final_with_retry: a turn that is done has sent every character of  *)
(* its body but those of a piece that was itself rejected or abandoned.    *)
THEOREM NothingDropped == Spec => []AnswerComplete
<1>1. ASSUME TurnInv, stage = "done", ~ shutdown, ~ AlreadyDelivered
      PROVE  1 .. result.chars \subseteq Covered(Range(sent) \cup givenUp)
  <2>1. parts = <<>> /\ outcome = "reply"
    BY <1>1 DEF TurnInv, Final, Line
  <2>2. Range(<<>>) = {}
    BY DEF Range
  <2>3. Range(sent) \cup givenUp \cup Range(parts) = Range(sent) \cup givenUp
    BY <2>1, <2>2
  <2>. QED  BY <1>1, <2>1, <2>3 DEF TurnInv, Final, Accounted
<1>2. TurnInv => AnswerComplete
  BY <1>1 DEF AnswerComplete
<1>. QED  BY <1>2, TurnAlways, PTL
=============================================================================
