------------------------- MODULE SerialLink_proofs -------------------------
(***************************************************************************)
(* What the threads of the links hold adds up to the wire, for every chunk *)
(* size, every trim limit and any number of links, wherever join(timeout)  *)
(* left a reader and whether or not console.log can be written.            *)
(*                                                                         *)
(* The first lemmas say what concatenating, cutting and trimming do to the *)
(* elements and to the end of a sequence.  The inductive invariant keeps   *)
(* apart where the threads are (Control) and what they hold (Holdings).    *)
(***************************************************************************)
EXTENDS SerialLink, SequenceTheorems, TLAPS

\* Wire(a, b) is a sequence of b - a numbers from a + 1 on.
LEMMA WireIsSeq ==
    ASSUME NEW a \in Int, NEW b \in Int, a <= b
    PROVE  /\ Wire(a, b) \in Seq(Int)
           /\ Len(Wire(a, b)) = b - a
           /\ \A i \in 1 .. (b - a) : Wire(a, b)[i] = a + i
<1>1. b - a \in Nat
  OBVIOUS
<1>2. Wire(a, b) \in [1 .. (b - a) -> Int]
  BY DEF Wire
<1>3. Wire(a, b) \in Seq(Int)
  BY <1>1, <1>2, IsASeq
<1>4. Len(Wire(a, b)) = b - a
  BY <1>1, <1>2, <1>3, LenProperties DEF Wire
<1> QED
  BY <1>3, <1>4 DEF Wire

\* A sequence with the elements of s and then those of t is s \o t.
LEMMA Joined ==
    ASSUME NEW s \in Seq(Int), NEW t \in Seq(Int), NEW u \in Seq(Int),
           Len(u) = Len(s) + Len(t),
           \A i \in 1 .. Len(s) : u[i] = s[i],
           \A i \in 1 .. Len(t) : u[Len(s) + i] = t[i]
    PROVE  s \o t = u
<1>1. s \o t \in Seq(Int) /\ Len(s \o t) = Len(u)
  BY ConcatProperties
<1>2. \A i \in 1 .. Len(u) : (s \o t)[i] = u[i]
  <2> SUFFICES ASSUME NEW i \in 1 .. Len(u) PROVE (s \o t)[i] = u[i]
    OBVIOUS
  <2>1. Len(s) \in Nat /\ Len(t) \in Nat
    BY LenProperties
  <2>2. (s \o t)[i] = IF i <= Len(s) THEN s[i] ELSE t[i - Len(s)]
    BY ConcatProperties
  <2>3. CASE i <= Len(s)
    BY <2>1, <2>2, <2>3
  <2>4. CASE i > Len(s)
    <3>1. i - Len(s) \in 1 .. Len(t) /\ Len(s) + (i - Len(s)) = i
      BY <2>1, <2>4
    <3>2. u[Len(s) + (i - Len(s))] = t[i - Len(s)]
      BY <3>1
    <3>3. u[i] = t[i - Len(s)]
      BY <3>1, <3>2
    <3>4. ~(i <= Len(s))
      BY <2>1, <2>4
    <3> QED
      BY <2>2, <3>3, <3>4
  <2> QED
    BY <2>1, <2>3, <2>4
<1> QED
  BY <1>1, <1>2, SeqEqual

\* The elements of a concatenation are those of its parts.
LEMMA ElementsJoin ==
    ASSUME NEW s \in Seq(Int), NEW t \in Seq(Int)
    PROVE  Elements(s \o t) = Elements(s) \cup Elements(t)
<1>1. /\ Len(s) \in Nat /\ Len(t) \in Nat /\ DOMAIN s = 1 .. Len(s) /\ DOMAIN t = 1 .. Len(t)
      /\ DOMAIN (s \o t) = 1 .. (Len(s) + Len(t))
      /\ \A i \in 1 .. (Len(s) + Len(t)) :
            (s \o t)[i] = IF i <= Len(s) THEN s[i] ELSE t[i - Len(s)]
  BY ConcatProperties, LenProperties
<1>2. ASSUME NEW i \in DOMAIN (s \o t) PROVE (s \o t)[i] \in Elements(s) \cup Elements(t)
  <2>1. CASE i <= Len(s)
    BY <1>1, <2>1 DEF Elements
  <2>2. CASE ~(i <= Len(s))
    <3>1. i - Len(s) \in DOMAIN t
      BY <1>1, <2>2
    <3> QED
      BY <1>1, <2>2, <3>1 DEF Elements
  <2> QED
    BY <2>1, <2>2
<1>3. ASSUME NEW i \in DOMAIN s PROVE s[i] \in Elements(s \o t)
  <2>1. i \in DOMAIN (s \o t) /\ (s \o t)[i] = s[i]
    BY <1>1
  <2> QED
    BY <2>1 DEF Elements
<1>4. ASSUME NEW i \in DOMAIN t PROVE t[i] \in Elements(s \o t)
  <2>1. /\ Len(s) + i \in DOMAIN (s \o t) /\ ~(Len(s) + i <= Len(s))
        /\ (Len(s) + i) - Len(s) = i
    BY <1>1
  <2>2. (s \o t)[Len(s) + i] = t[i]
    BY <1>1, <2>1
  <2> QED
    BY <2>1, <2>2 DEF Elements
<1> QED
  BY <1>2, <1>3, <1>4 DEF Elements

\* An empty sequence has no elements and adds nothing.
LEMMA NothingMore ==
    ASSUME NEW s \in Seq(Int)
    PROVE  Elements(<<>>) = {} /\ s \o <<>> = s /\ <<>> \o s = s
<1>1. Elements(<<>>) = {}
  BY DEF Elements
<1> QED
  BY <1>1

\* The elements of a piece of the wire.
LEMMA WireElements ==
    ASSUME NEW a \in Int, NEW b \in Int, a <= b
    PROVE  Elements(Wire(a, b)) = (a + 1) .. b
<1>1. DOMAIN Wire(a, b) = 1 .. (b - a) /\ \A i \in 1 .. (b - a) : Wire(a, b)[i] = a + i
  BY DEF Wire
<1>2. ASSUME NEW p \in (a + 1) .. b PROVE p \in Elements(Wire(a, b))
  <2>1. p - a \in 1 .. (b - a) /\ a + (p - a) = p
    OBVIOUS
  <2>2. Wire(a, b)[p - a] = p
    BY <1>1, <2>1
  <2> QED
    BY <1>1, <2>1, <2>2 DEF Elements
<1>3. ASSUME NEW i \in 1 .. (b - a) PROVE Wire(a, b)[i] \in (a + 1) .. b
  BY <1>1
<1> QED
  BY <1>1, <1>2, <1>3 DEF Elements

InOrder(s) == \A i, j \in DOMAIN s : i < j => s[i] < s[j]

\* Numbers in order, followed by a piece of the wire beyond them, are in order.
LEMMA OrderJoin ==
    ASSUME NEW s \in Seq(Int), NEW a \in Int, NEW b \in Int, a <= b,
           InOrder(s), \A p \in Elements(s) : p <= a
    PROVE  InOrder(s \o Wire(a, b))
<1> DEFINE t == Wire(a, b)
<1>1. t \in Seq(Int) /\ Len(t) = b - a /\ \A i \in 1 .. (b - a) : t[i] = a + i
  BY WireIsSeq
<1> HIDE DEF t
<1>2. /\ Len(s) \in Nat /\ DOMAIN s = 1 .. Len(s) /\ \A i \in DOMAIN s : s[i] \in Int
      /\ DOMAIN (s \o t) = 1 .. (Len(s) + (b - a))
      /\ \A i \in 1 .. (Len(s) + (b - a)) :
            (s \o t)[i] = IF i <= Len(s) THEN s[i] ELSE t[i - Len(s)]
  <2>1. Len(s) \in Nat /\ DOMAIN s = 1 .. Len(s) /\ s \in [1 .. Len(s) -> Int]
    BY LenProperties
  <2>2. /\ s \o t \in Seq(Int) /\ Len(s \o t) = Len(s) + (b - a)
        /\ \A i \in 1 .. (Len(s) + (b - a)) :
              (s \o t)[i] = IF i <= Len(s) THEN s[i] ELSE t[i - Len(s)]
    <3>1. /\ s \o t \in Seq(Int) /\ Len(s \o t) = Len(s) + Len(t)
          /\ \A i \in 1 .. (Len(s) + Len(t)) :
                (s \o t)[i] = IF i <= Len(s) THEN s[i] ELSE t[i - Len(s)]
      BY <1>1, ConcatProperties
    <3> QED
      BY <1>1, <3>1
  <2>3. DOMAIN (s \o t) = 1 .. (Len(s) + (b - a))
    BY <2>2, LenProperties
  <2>4. \A i \in DOMAIN s : s[i] \in Int
    BY <2>1
  <2> QED
    BY <2>1, <2>2, <2>3, <2>4
<1> SUFFICES ASSUME NEW i \in DOMAIN (s \o t), NEW j \in DOMAIN (s \o t), i < j
             PROVE  (s \o t)[i] < (s \o t)[j]
  BY DEF InOrder, t
<1>3. \A k \in DOMAIN s : s[k] <= a
  BY DEF Elements
<1>4. \A k \in DOMAIN (s \o t) : k > Len(s) => (s \o t)[k] = a + (k - Len(s))
  <2> SUFFICES ASSUME NEW k \in DOMAIN (s \o t), k > Len(s)
               PROVE  (s \o t)[k] = a + (k - Len(s))
    OBVIOUS
  <2>1. k - Len(s) \in 1 .. (b - a) /\ ~(k <= Len(s))
    BY <1>2
  <2> QED
    BY <1>1, <1>2, <2>1
<1>5. CASE j <= Len(s)
  <2>1. i \in DOMAIN s /\ j \in DOMAIN s /\ i <= Len(s)
    BY <1>2, <1>5
  <2> QED
    BY <1>2, <1>5, <2>1 DEF InOrder
<1>6. CASE ~(j <= Len(s)) /\ i <= Len(s)
  <2>1. i \in DOMAIN s /\ j > Len(s)
    BY <1>2, <1>6
  <2>2. (s \o t)[i] = s[i] /\ s[i] <= a /\ s[i] \in Int
    BY <1>2, <1>3, <1>6, <2>1
  <2>3. (s \o t)[j] = a + (j - Len(s)) /\ j - Len(s) \in Int /\ j - Len(s) > 0
    BY <1>2, <1>4, <2>1
  <2> QED
    BY <2>2, <2>3
<1>7. CASE ~(i <= Len(s))
  <2>1. i > Len(s) /\ j > Len(s) /\ i \in Int /\ j \in Int
    BY <1>2, <1>7
  <2>2. (s \o t)[i] = a + (i - Len(s)) /\ (s \o t)[j] = a + (j - Len(s))
    BY <1>4, <2>1
  <2> QED
    BY <1>2, <2>1, <2>2
<1> QED
  BY <1>2, <1>5, <1>6, <1>7

\* s is the end of r.
EndOf(s, r) == /\ Len(s) <= Len(r)
               /\ \A i \in 1 .. Len(s) : s[i] = r[(Len(r) - Len(s)) + i]

\* The end of a sequence is what LastOf takes.
LEMMA EndIsLast ==
    ASSUME NEW s \in Seq(Int), NEW r \in Seq(Int), EndOf(s, r)
    PROVE  s = LastOf(r, Len(s))
<1> DEFINE m == Len(r) - Len(s) + 1
           n == Len(r)
           l == SubSeq(r, m, n)
<1>1. /\ Len(s) \in Nat /\ n \in Nat /\ m \in Int /\ m >= 1 /\ m <= n + 1
      /\ n - m + 1 = Len(s)
  BY LenProperties DEF EndOf
<1>2. \A i \in m .. n : r[i] \in Int
  BY <1>1, ElementOfSeq
<1> HIDE DEF m, n
<1>3. l \in Seq(Int) /\ Len(l) = Len(s) /\ \A i \in 1 .. Len(s) : l[i] = r[m + i - 1]
  BY <1>1, <1>2, SubSeqProperties
<1> HIDE DEF l
<1>4. \A i \in 1 .. Len(s) : s[i] = l[i]
  <2> SUFFICES ASSUME NEW i \in 1 .. Len(s) PROVE s[i] = l[i]
    OBVIOUS
  <2>1. m + i - 1 = (Len(r) - Len(s)) + i
    BY <1>1 DEF m, n
  <2> QED
    BY <1>3, <2>1 DEF EndOf
<1>5. s = l
  BY <1>3, <1>4, SeqEqual
<1> QED
  BY <1>5 DEF l, m, n, LastOf

\* What is appended to both keeps one the end of the other.
LEMMA EndGrows ==
    ASSUME NEW s \in Seq(Int), NEW r \in Seq(Int), NEW h \in Seq(Int), EndOf(s, r)
    PROVE  EndOf(s \o h, r \o h)
<1> DEFINE u == s \o h
           v == r \o h
<1>1. /\ Len(s) \in Nat /\ Len(r) \in Nat /\ Len(h) \in Nat
      /\ Len(u) = Len(s) + Len(h) /\ Len(v) = Len(r) + Len(h)
      /\ \A i \in 1 .. (Len(s) + Len(h)) : u[i] = IF i <= Len(s) THEN s[i] ELSE h[i - Len(s)]
      /\ \A i \in 1 .. (Len(r) + Len(h)) : v[i] = IF i <= Len(r) THEN r[i] ELSE h[i - Len(r)]
  BY ConcatProperties, LenProperties
<1> HIDE DEF u, v
<1>2. Len(u) <= Len(v)
  BY <1>1 DEF EndOf
<1>3. ASSUME NEW i \in 1 .. Len(u) PROVE u[i] = v[(Len(v) - Len(u)) + i]
  <2> DEFINE k == (Len(r) - Len(s)) + i
  <2>1. (Len(v) - Len(u)) + i = k /\ k \in 1 .. (Len(r) + Len(h)) /\ Len(s) <= Len(r)
    BY <1>1 DEF EndOf
  <2>2. CASE i <= Len(s)
    <3>1. k <= Len(r) /\ i \in 1 .. Len(s)
      BY <1>1, <2>2
    <3>2. s[i] = r[k]
      BY <3>1 DEF EndOf
    <3>3. u[i] = s[i]
      BY <1>1, <2>2
    <3>4. v[k] = r[k]
      BY <1>1, <2>1, <3>1
    <3> QED
      BY <2>1, <3>2, <3>3, <3>4
  <2>3. CASE ~(i <= Len(s))
    <3>1. ~(k <= Len(r)) /\ k - Len(r) = i - Len(s)
      BY <1>1, <2>3
    <3>2. v[k] = h[i - Len(s)]
      BY <1>1, <2>1, <3>1
    <3> QED
      BY <1>1, <2>1, <2>3, <3>2
  <2> QED
    BY <2>2, <2>3
<1> QED
  BY <1>2, <1>3 DEF EndOf, u, v

\* Nothing is the end of anything; what was appended last is at the end.
LEMMA EndStarts ==
    ASSUME NEW r \in Seq(Int), NEW h \in Seq(Int)
    PROVE  EndOf(<<>>, r) /\ EndOf(h, r \o h)
<1>1. EndOf(<<>>, r)
  BY LenProperties DEF EndOf
<1>2. EndOf(<<>> \o h, r \o h)
  <2>1. <<>> \in Seq(Int)
    BY EmptySeq
  <2> QED
    BY <1>1, <2>1, EndGrows
<1> QED
  BY <1>1, <1>2, NothingMore

\* Trimming keeps an end, and its length is the smaller of the two limits'.
LEMMA EndTrims ==
    ASSUME NEW s \in Seq(Int), NEW r \in Seq(Int), EndOf(s, r)
    PROVE  /\ Trimmed(s) \in Seq(Int)
           /\ Len(Trimmed(s)) = IF Len(s) > Cap THEN Keep ELSE Len(s)
           /\ EndOf(Trimmed(s), r)
<1>1. CASE Len(s) > Cap
  <2> DEFINE m == Len(s) - Keep + 1
             n == Len(s)
             t == SubSeq(s, m, n)
  <2>1. /\ n \in Nat /\ m \in Int /\ m >= 1 /\ m <= n /\ n - m + 1 = Keep /\ Keep \in Nat
        /\ Len(r) \in Nat /\ n <= Len(r) /\ Keep <= n
    BY <1>1, LinkAssumption, LenProperties DEF EndOf
  <2>2. \A i \in m .. n : s[i] \in Int
    BY <2>1, ElementOfSeq
  <2> HIDE DEF m, n
  <2>3. t \in Seq(Int) /\ Len(t) = Keep /\ \A i \in 1 .. Keep : t[i] = s[m + i - 1]
    BY <2>1, <2>2, SubSeqProperties
  <2> HIDE DEF t
  <2>4. ASSUME NEW i \in 1 .. Keep PROVE t[i] = r[(Len(r) - Keep) + i]
    <3>1. m + i - 1 \in 1 .. n
      BY <2>1
    <3>2. s[m + i - 1] = r[(Len(r) - n) + (m + i - 1)]
      BY <3>1 DEF EndOf, n
    <3>3. (Len(r) - n) + (m + i - 1) = (Len(r) - Keep) + i
      BY <2>1
    <3> QED
      BY <2>3, <3>2, <3>3
  <2>5. Trimmed(s) = t
    BY <1>1 DEF Trimmed, t, m, n
  <2>6. EndOf(t, r)
    BY <2>1, <2>3, <2>4 DEF EndOf
  <2> QED
    BY <1>1, <2>3, <2>5, <2>6
<1>2. CASE ~(Len(s) > Cap)
  BY <1>2 DEF Trimmed
<1> QED
  BY <1>1, <1>2

\* A chunk written in two parts is the chunk.
LEMMA CutAndJoin ==
    ASSUME NEW s \in Seq(Int), NEW h \in Seq(Int), NEW n \in 0 .. Len(h)
    PROVE  /\ s \o SubSeq(h, 1, n) \in Seq(Int) /\ SubSeq(h, n + 1, Len(h)) \in Seq(Int)
           /\ (s \o SubSeq(h, 1, n)) \o SubSeq(h, n + 1, Len(h)) = s \o h
<1> DEFINE a == SubSeq(h, 1, n)
           b == SubSeq(h, n + 1, Len(h))
<1>1. Len(h) \in Nat /\ n \in Nat /\ n <= Len(h) /\ \A i \in 1 .. Len(h) : h[i] \in Int
  BY LenProperties, ElementOfSeq
<1>2. a \in Seq(Int)
  <2>1. \A i \in 1 .. n : h[i] \in Int
    BY <1>1
  <2> QED
    BY <1>1, <2>1, SubSeqProperties
<1>3. b \in Seq(Int)
  <2>1. n + 1 \in Int /\ Len(h) \in Int /\ \A i \in (n + 1) .. Len(h) : h[i] \in Int
    BY <1>1
  <2> QED
    BY <2>1, SubSeqProperties
<1>4. a \o b = h
  <2>1. 1 \in 1 .. (Len(h) + 1) /\ n \in (1 - 1) .. Len(h) /\ Len(h) \in n .. Len(h)
    BY <1>1
  <2>2. a \o b = SubSeq(h, 1, Len(h))
    BY <2>1, ConcatAdjacentSubSeq
  <2> QED
    BY <2>2, SubSeqFull
<1> HIDE DEF a, b
<1>5. (s \o a) \o b = s \o (a \o b)
  BY <1>2, <1>3, ConcatAssociative
<1>6. s \o a \in Seq(Int)
  BY <1>2, ConcatProperties
<1>7. (s \o a) \o b = s \o h
  BY <1>4, <1>5
<1>8. s \o a \in Seq(Int) /\ b \in Seq(Int) /\ (s \o a) \o b = s \o h
  BY <1>3, <1>6, <1>7
<1> QED
  BY <1>8, Zenon DEF a, b

----------------------------------------------------------------------------
(* The inductive invariant *)

ReaderStates == {"none", "check", "read", "append", "log", "ended", "died"}

Types ==
    /\ sent \in Nat /\ taken \in Nat /\ taken <= sent
    /\ cur \in 0 .. Links
    /\ pc \in {"closed", "idle", "look", "test", "join", "close"}
    /\ reader \in [Link -> ReaderStates]
    /\ hand \in [Link -> Seq(Int)]
    /\ buf \in [Link -> Seq(Int)]
    /\ log \in [Link -> Seq(Int)]
    /\ stop \in [Link -> BOOLEAN]
    /\ opened \in [Link -> Nat]
    /\ fresh \in Nat

\* The descriptor is open while the main thread is not between two links; a link
\* not yet opened has nothing; the reader of a closed link sees _stop whenever it
\* looks; only a thread that has read and not put away holds a chunk.
Control ==
    /\ fd = (pc # "closed")
    /\ cur = 0 => pc = "closed"
    /\ pc = "join" => stop[cur]
    /\ \A g \in Link :
          /\ g > cur => /\ reader[g] = "none"
                        /\ hand[g] = <<>> /\ buf[g] = <<>> /\ log[g] = <<>>
          /\ g < cur \/ (g = cur /\ pc \in {"close", "closed"}) => stop[g]
          /\ reader[g] \in {"none", "check", "read", "ended"} => hand[g] = <<>>

\* What any reader took had been sent before.
Past == \A g \in Link : opened[g] <= taken /\ \A p \in Elements(Received(g)) : p <= taken

\* A late reader's part of the current link is one chunk, and none before it reads.
OneChunk(g) ==
    /\ reader[g] = "read" => Has(g) = {}
    /\ \E a \in opened[cur] .. taken, n \in 0 .. Chunk : Has(g) = (a + 1) .. (a + n)

WireIs == Elements(Received(cur)) = ((opened[cur] + 1) .. taken) \ Stolen

Holdings ==
    fd => /\ InOrder(Received(cur))
          /\ WireIs
          /\ \A g \in 1 .. (cur - 1) : OneChunk(g)
          /\ EndOf(buf[cur] \o Pending(cur), Received(cur))

LinkInv == Types /\ Control /\ Past /\ Holdings /\ TrimKeepsNewest

\* No link is open at the start.
LEMMA LinkInit == Init => LinkInv
<1> SUFFICES ASSUME Init PROVE LinkInv
  OBVIOUS
<1>1. Types
  BY LinkAssumption, EmptySeq DEF Init, Types, ReaderStates
<1>2. Control
  <2>1. fd = (pc # "closed")
    BY DEF Init
  <2>2. \A g \in Link : /\ reader[g] = "none" /\ hand[g] = <<>> /\ buf[g] = <<>>
                        /\ log[g] = <<>> /\ ~(g < cur) /\ g # cur
    BY LinkAssumption DEF Init, Link
  <2> QED
    BY <2>1, <2>2 DEF Init, Control
<1>3. Past
  <2> SUFFICES ASSUME NEW g \in Link PROVE opened[g] <= taken /\ Elements(Received(g)) = {}
    BY DEF Past
  <2>1. Received(g) = <<>> \o <<>> /\ opened[g] = 0 /\ taken = 0
    BY DEF Init, Received
  <2>2. <<>> \in Seq(Int)
    BY EmptySeq
  <2>3. <<>> \o <<>> = <<>> /\ Elements(<<>>) = {}
    BY <2>2, NothingMore
  <2> QED
    BY <2>1, <2>3
<1>4. Holdings /\ TrimKeepsNewest
  BY DEF Init, Holdings, TrimKeepsNewest
<1> QED
  BY <1>1, <1>2, <1>3, <1>4 DEF LinkInv

\* While the descriptor is open there is a current link.
LEMMA CurIsLink == ASSUME LinkInv, fd PROVE cur \in Link
<1>1. cur # 0
  BY DEF LinkInv, Control
<1> QED
  BY <1>1, LinkAssumption DEF LinkInv, Types, Link

\* What a link received is a sequence of numbers.
LEMMA ReceivedIsSeq ==
    ASSUME Types, NEW g \in Link
    PROVE  /\ log[g] \in Seq(Int) /\ hand[g] \in Seq(Int) /\ buf[g] \in Seq(Int)
           /\ Received(g) \in Seq(Int) /\ Pending(g) \in Seq(Int)
<1>1. log[g] \in Seq(Int) /\ hand[g] \in Seq(Int) /\ buf[g] \in Seq(Int) /\ <<>> \in Seq(Int)
  BY EmptySeq DEF Types
<1> QED
  BY <1>1, ConcatProperties DEF Received, Pending

\* A step that leaves alone what was received, in the open link, leaves Past and
\* each late reader's part alone.
LEMMA SameReceived ==
    ASSUME UNCHANGED <<taken, cur, opened>>,
           \A g \in Link : Received(g)' = Received(g),
           cur \in Link
    PROVE  /\ \A g \in 1 .. cur : Has(g)' = Has(g)
           /\ Stolen' = Stolen
           /\ Past => Past'
           /\ WireIs => WireIs'
           /\ InOrder(Received(cur)) => InOrder(Received(cur))'
<1>1. \A g \in 1 .. cur : g \in Link
  BY LinkAssumption DEF Link
<1>2. \A g \in 1 .. cur : Has(g)' = Has(g)
  BY <1>1 DEF Has
<1>3. \A g \in 1 .. (cur - 1) : Has(g)' = Has(g)
  BY <1>2, LinkAssumption DEF Link
<1>4. Stolen' = Stolen
  BY <1>3 DEF Stolen
<1>5. Received(cur)' = Received(cur)
  OBVIOUS
<1>6. Past => Past'
  BY DEF Past
<1>7. WireIs => WireIs'
  BY <1>4, <1>5 DEF WireIs
<1> QED
  BY <1>2, <1>4, <1>5, <1>6, <1>7

\* Reading puts the next piece of the wire at the end of what the reader received.
LEMMA ReadChunkGets ==
    ASSUME LinkInv, NEW g \in Link, ReadChunk(g)
    PROVE  \E n \in 1 .. Chunk :
              /\ taken' = taken + n /\ taken + n <= sent
              /\ hand' = [hand EXCEPT ![g] = Wire(taken, taken + n)]
              /\ Wire(taken, taken + n) \in Seq(Int)
              /\ Received(g)' = Received(g) \o Wire(taken, taken + n)
              /\ Elements(Received(g)') = Elements(Received(g)) \cup (taken + 1) .. (taken + n)
              /\ \A h \in Link \ {g} : Received(h)' = Received(h)
<1>1. PICK n \in 1 .. Chunk :
         /\ taken + n <= sent
         /\ hand' = [hand EXCEPT ![g] = Wire(taken, taken + n)]
         /\ taken' = taken + n
  BY DEF ReadChunk
<1>2. n \in Nat /\ taken \in Int /\ taken + n \in Int /\ taken <= taken + n
  BY LinkAssumption DEF LinkInv, Types
<1> DEFINE w == Wire(taken, taken + n)
<1>3. w \in Seq(Int) /\ Elements(w) = (taken + 1) .. (taken + n)
  BY <1>2, WireIsSeq, WireElements
<1> HIDE DEF w
<1>4. hand[g] = <<>> /\ log[g] \in Seq(Int) /\ log' = log
  BY DEF LinkInv, Control, Types, ReadChunk
<1>5. Received(g) = log[g]
  BY <1>4, NothingMore DEF Received
<1>6. hand'[g] = w /\ \A h \in Link \ {g} : hand'[h] = hand[h]
  BY <1>1 DEF LinkInv, Types, w
<1>7. Received(g)' = Received(g) \o w
  BY <1>4, <1>5, <1>6 DEF Received
<1>8. Elements(Received(g)') = Elements(Received(g)) \cup (taken + 1) .. (taken + n)
  <2>1. Elements(log[g] \o w) = Elements(log[g]) \cup Elements(w)
    BY <1>3, <1>4, ElementsJoin
  <2> QED
    BY <1>3, <1>5, <1>7, <2>1
<1>9. \A h \in Link \ {g} : Received(h)' = Received(h)
  BY <1>4, <1>6 DEF Received
<1> QED
  BY <1>1, <1>3, <1>7, <1>8, <1>9 DEF w

\* A chunk read by the link's own reader is the next piece of its wire; one read
\* by a late reader is the only one that reader takes.
LEMMA ReadChunkHolds ==
    ASSUME LinkInv, NEW g \in Link, ReadChunk(g)
    PROVE  Past' /\ Holdings'
<1> USE DEF LinkInv
<1>1. PICK n \in 1 .. Chunk :
         /\ taken' = taken + n
         /\ hand' = [hand EXCEPT ![g] = Wire(taken, taken + n)]
         /\ Wire(taken, taken + n) \in Seq(Int)
         /\ Received(g)' = Received(g) \o Wire(taken, taken + n)
         /\ Elements(Received(g)') = Elements(Received(g)) \cup (taken + 1) .. (taken + n)
         /\ \A h \in Link \ {g} : Received(h)' = Received(h)
  BY ReadChunkGets
<1>2. /\ fd /\ reader[g] = "read" /\ reader' = [reader EXCEPT ![g] = "append"]
      /\ UNCHANGED <<sent, fd, cur, pc, buf, log, fresh, stop, opened>>
  BY DEF ReadChunk, mainVars
<1>3. cur \in Link /\ cur \in Nat /\ n \in Nat /\ taken \in Nat /\ opened[cur] \in Nat
      /\ Chunk \in Nat /\ n <= Chunk
  BY <1>2, CurIsLink, LinkAssumption DEF Types, Link
<1>4. Past'
  <2> SUFFICES ASSUME NEW h \in Link
               PROVE  opened[h] <= taken + n /\ \A p \in Elements(Received(h)') : p <= taken + n
    BY <1>1, <1>2 DEF Past
  <2>1. opened[h] <= taken + n
    BY <1>3 DEF Past, Types
  <2>2. \A p \in Elements(Received(h)) : p \in Int /\ p <= taken + n
    <3>1. \A p \in Elements(Received(h)) : p \in Int
      BY ReceivedIsSeq, ElementOfSeq, LenProperties DEF Elements
    <3> QED
      BY <1>3, <3>1 DEF Past
  <2>3. CASE h = g
    <3> SUFFICES ASSUME NEW p \in Elements(Received(h)') PROVE p <= taken + n
      BY <2>1
    <3>1. p \in Elements(Received(g)) \/ p \in (taken + 1) .. (taken + n)
      BY <1>1, <2>3
    <3> QED
      BY <1>3, <2>2, <2>3, <3>1
  <2>4. CASE h # g
    BY <1>1, <2>1, <2>2, <2>4
  <2> QED
    BY <2>3, <2>4
<1>5. \A h \in 1 .. cur : h \in Link /\ h \in Int
  BY <1>3, LinkAssumption DEF Link
<1>6. \A h \in 1 .. cur : h # g => Has(h)' = Has(h)
  <2> SUFFICES ASSUME NEW h \in 1 .. cur, h # g PROVE Has(h)' = Has(h)
    OBVIOUS
  <2>1. Received(h)' = Received(h)
    BY <1>1, <1>5
  <2>2. \A p \in Elements(Received(h)) : p <= taken
    BY <1>5 DEF Past
  <2> QED
    BY <1>1, <1>2, <1>3, <2>1, <2>2 DEF Has
<1>7. opened[cur] <= taken
  BY <1>3 DEF Past
<1>8. CASE g = cur
  <2>1. \A h \in 1 .. (cur - 1) : Has(h)' = Has(h) /\ reader'[h] = reader[h]
    <3>1. \A h \in 1 .. (cur - 1) : h # g /\ h \in 1 .. cur
      BY <1>3, <1>8
    <3> QED
      BY <1>2, <1>5, <1>6, <3>1 DEF Types
  <2>2. Stolen' = Stolen
    BY <1>2, <2>1 DEF Stolen
  <2>3. \A p \in Stolen : p <= taken
    BY <1>3 DEF Stolen, Has
  <2>4. WireIs'
    <3>1. Elements(Received(cur)) = ((opened[cur] + 1) .. taken) \ Stolen
      BY <1>2 DEF Holdings, WireIs
    <3>2. ((opened[cur] + 1) .. taken) \cup ((taken + 1) .. (taken + n))
             = (opened[cur] + 1) .. (taken + n)
      BY <1>3, <1>7
    <3>3. ((taken + 1) .. (taken + n)) \cap Stolen = {}
      BY <1>3, <2>3
    <3>4. Elements(Received(cur)') = ((opened[cur] + 1) .. (taken + n)) \ Stolen
      BY <1>1, <1>2, <1>8, <3>1, <3>2, <3>3
    <3> QED
      BY <1>1, <1>2, <2>2, <3>4 DEF WireIs
  <2>5. InOrder(Received(cur))'
    <3>1. InOrder(Received(cur)) /\ \A p \in Elements(Received(cur)) : p <= taken
      BY <1>2, <1>3 DEF Holdings, Past
    <3>2. Received(cur) \in Seq(Int) /\ taken \in Int /\ taken + n \in Int /\ taken <= taken + n
      BY <1>3, ReceivedIsSeq
    <3>3. InOrder(Received(cur) \o Wire(taken, taken + n))
      BY <3>1, <3>2, OrderJoin
    <3> QED
      BY <1>1, <1>2, <1>8, <3>3 DEF InOrder
  <2>6. \A h \in 1 .. (cur - 1) : OneChunk(h)'
    <3> SUFFICES ASSUME NEW h \in 1 .. (cur - 1) PROVE OneChunk(h)'
      OBVIOUS
    <3>1. OneChunk(h)
      BY <1>2 DEF Holdings
    <3>2. PICK a \in opened[cur] .. taken, m \in 0 .. Chunk : Has(h) = (a + 1) .. (a + m)
      BY <3>1 DEF OneChunk
    <3>3. a \in opened'[cur'] .. taken' /\ m \in 0 .. Chunk /\ Has(h)' = (a + 1) .. (a + m)
      BY <1>1, <1>2, <1>3, <2>1, <3>2
    <3> QED
      BY <2>1, <3>1, <3>3 DEF OneChunk
  <2>7. EndOf(buf[cur] \o Pending(cur), Received(cur))'
    <3>1. reader'[cur] = "append" /\ hand'[cur] = Wire(taken, taken + n)
      BY <1>1, <1>2, <1>3, <1>8 DEF Types
    <3>2. Pending(cur)' = Wire(taken, taken + n) /\ Pending(cur) = <<>>
      BY <1>2, <1>8, <3>1 DEF Pending
    <3>3. buf[cur] \in Seq(Int) /\ Received(cur) \in Seq(Int)
      BY <1>3, ReceivedIsSeq
    <3>4. EndOf(buf[cur], Received(cur))
      BY <1>2, <3>2, <3>3, NothingMore DEF Holdings
    <3>5. EndOf(buf[cur] \o Wire(taken, taken + n), Received(cur) \o Wire(taken, taken + n))
      BY <1>1, <3>3, <3>4, EndGrows
    <3> QED
      BY <1>1, <1>2, <1>8, <3>2, <3>5 DEF EndOf
  <2> QED
    BY <1>2, <1>4, <2>4, <2>5, <2>6, <2>7 DEF Holdings
<1>9. CASE g # cur
  <2>1. g \in 1 .. (cur - 1) /\ g \in 1 .. cur
    <3>1. ~(g > cur)
      BY <1>2 DEF Control
    <3> QED
      BY <1>3, <1>9, <3>1, LinkAssumption DEF Link
  <2>2. Has(g) = {}
    BY <1>2, <2>1 DEF Holdings, OneChunk
  <2>3. Has(g)' = (taken + 1) .. (taken + n)
    BY <1>1, <1>2, <1>3, <1>7, <2>2 DEF Has
  <2>4. \A h \in 1 .. (cur - 1) : h # g => Has(h)' = Has(h) /\ reader'[h] = reader[h]
    <3>1. \A h \in 1 .. (cur - 1) : h \in 1 .. cur
      BY <1>3
    <3> QED
      BY <1>2, <1>5, <1>6, <3>1 DEF Types
  <2>5. Stolen' = Stolen \cup (taken + 1) .. (taken + n)
    <3>1. \A p : p \in Stolen' <=> \E h \in 1 .. (cur - 1) : p \in Has(h)'
      BY <1>2 DEF Stolen
    <3>2. \A p : p \in Stolen <=> \E h \in 1 .. (cur - 1) : p \in Has(h)
      BY DEF Stolen
    <3> DEFINE chunk == (taken + 1) .. (taken + n)
    <3>3. Has(g)' = chunk
      BY <2>3
    <3> HIDE DEF chunk
    <3>4. ASSUME NEW p PROVE p \in Stolen' <=> p \in Stolen \/ p \in chunk
      <4>1. CASE p \in chunk
        BY <2>1, <3>1, <3>3, <4>1
      <4>2. CASE p \notin chunk
        <5>1. ASSUME NEW h \in 1 .. (cur - 1) PROVE p \in Has(h)' <=> p \in Has(h)
          BY <2>2, <2>4, <3>3, <4>2
        <5> QED
          BY <3>1, <3>2, <4>2, <5>1
      <4> QED
        BY <4>1, <4>2
    <3>5. Stolen' = Stolen \cup chunk
      BY <3>4
    <3> QED
      BY <3>5 DEF chunk
  <2>6. Received(cur)' = Received(cur)
    BY <1>1, <1>2, <1>3, <1>9
  <2>7. WireIs'
    <3>1. Elements(Received(cur)) = ((opened[cur] + 1) .. taken) \ Stolen
      BY <1>2 DEF Holdings, WireIs
    <3>2. (opened[cur] + 1) .. (taken + n)
             = ((opened[cur] + 1) .. taken) \cup ((taken + 1) .. (taken + n))
      BY <1>3, <1>7
    <3>3. ((opened[cur] + 1) .. taken) \cap ((taken + 1) .. (taken + n)) = {}
      BY <1>3
    <3>4. Elements(Received(cur)) = ((opened[cur] + 1) .. (taken + n)) \ Stolen'
      BY <2>5, <3>1, <3>2, <3>3
    <3> QED
      BY <1>1, <1>2, <2>6, <3>4 DEF WireIs
  <2>8. InOrder(Received(cur))'
    BY <1>2, <2>6 DEF Holdings, InOrder
  <2>9. \A h \in 1 .. (cur - 1) : OneChunk(h)'
    <3> SUFFICES ASSUME NEW h \in 1 .. (cur - 1) PROVE OneChunk(h)'
      OBVIOUS
    <3>1. CASE h = g
      <4>1. reader'[g] = "append"
        BY <1>2 DEF Types
      <4>2. taken \in opened'[cur'] .. taken' /\ n \in 0 .. Chunk
        BY <1>1, <1>2, <1>3, <1>7
      <4> QED
        BY <2>3, <3>1, <4>1, <4>2 DEF OneChunk
    <3>2. CASE h # g
      <4>1. OneChunk(h)
        BY <1>2 DEF Holdings
      <4>2. PICK a \in opened[cur] .. taken, m \in 0 .. Chunk : Has(h) = (a + 1) .. (a + m)
        BY <4>1 DEF OneChunk
      <4>3. a \in opened'[cur'] .. taken' /\ m \in 0 .. Chunk /\ Has(h)' = (a + 1) .. (a + m)
        BY <1>1, <1>2, <1>3, <2>4, <3>2, <4>2
      <4> QED
        BY <2>4, <3>2, <4>1, <4>3 DEF OneChunk
    <3> QED
      BY <3>1, <3>2
  <2>10. EndOf(buf[cur] \o Pending(cur), Received(cur))'
    <3>1. reader'[cur] = reader[cur] /\ hand'[cur] = hand[cur]
      BY <1>1, <1>2, <1>3, <1>9 DEF Types
    <3>2. Pending(cur)' = Pending(cur)
      BY <1>2, <3>1 DEF Pending
    <3> QED
      BY <1>2, <2>6, <3>2 DEF Holdings, EndOf
  <2> QED
    BY <1>2, <1>4, <2>7, <2>8, <2>9, <2>10 DEF Holdings
<1> QED
  BY <1>8, <1>9

\* A chunk taken from the tty keeps the invariant.
LEMMA ReadChunkKeeps ==
    ASSUME LinkInv, NEW g \in Link, ReadChunk(g)
    PROVE  LinkInv'
<1> USE DEF LinkInv
<1>1. PICK n \in 1 .. Chunk :
         /\ taken' = taken + n /\ taken + n <= sent
         /\ hand' = [hand EXCEPT ![g] = Wire(taken, taken + n)]
         /\ Wire(taken, taken + n) \in Seq(Int)
  BY ReadChunkGets
<1>2. /\ reader[g] = "read" /\ reader' = [reader EXCEPT ![g] = "append"]
      /\ UNCHANGED <<sent, fd, cur, pc, buf, log, fresh, stop, opened>>
  BY DEF ReadChunk, mainVars
<1>3. Types'
  <2>1. sent' \in Nat /\ taken' \in Nat /\ taken' <= sent'
    BY <1>1, <1>2, LinkAssumption DEF Types
  <2>2. hand' \in [Link -> Seq(Int)] /\ reader' \in [Link -> ReaderStates]
    BY <1>1, <1>2 DEF Types, ReaderStates
  <2> QED
    BY <1>2, <2>1, <2>2 DEF Types
<1>4. Control'
  BY <1>1, <1>2 DEF Control, Types
<1>5. TrimKeepsNewest'
  BY <1>2 DEF TrimKeepsNewest
<1> QED
  BY <1>3, <1>4, <1>5, ReadChunkHolds

\* A step that changes neither what was received nor where a late reader reads
\* leaves their parts of the wire as they are.
LEMMA HoldingsStay ==
    ASSUME LinkInv, fd,
           UNCHANGED <<taken, cur, opened>>,
           \A g \in Link : Received(g)' = Received(g),
           \A g \in 1 .. (cur - 1) : reader'[g] = "read" => reader[g] = "read",
           EndOf(buf[cur] \o Pending(cur), Received(cur))'
    PROVE  Past' /\ Holdings'
<1>1. cur \in Link /\ cur \in Nat
  BY CurIsLink, LinkAssumption DEF Link
<1>2. /\ \A g \in 1 .. cur : Has(g)' = Has(g)
      /\ Past => Past'
      /\ WireIs => WireIs'
      /\ InOrder(Received(cur)) => InOrder(Received(cur))'
  BY <1>1, SameReceived
<1>3. \A g \in 1 .. (cur - 1) : OneChunk(g)'
  <2> SUFFICES ASSUME NEW g \in 1 .. (cur - 1) PROVE OneChunk(g)'
    OBVIOUS
  <2>1. OneChunk(g)
    BY DEF LinkInv, Holdings
  <2>2. g \in 1 .. cur
    BY <1>1
  <2>3. Has(g)' = Has(g)
    BY <1>2, <2>2
  <2> QED
    BY <2>1, <2>3 DEF OneChunk
<1> QED
  BY <1>2, <1>3 DEF LinkInv, Holdings

\* What the trim leaves is within the bound, and has the newest or enough.
LEMMA TrimLength ==
    ASSUME NEW b \in Nat, NEW h \in Nat, NEW f \in Nat, NEW l,
           l = (IF b + h > Cap THEN Keep ELSE b + h), b <= Cap, b >= f \/ b >= Keep
    PROVE  l <= Cap /\ (l >= f + h \/ l >= Keep)
BY LinkAssumption

\* Extending and trimming leaves the end of what was received.
LEMMA AppendChunkKeeps ==
    ASSUME LinkInv, NEW g \in Link, AppendChunk(g)
    PROVE  LinkInv'
<1> USE DEF LinkInv
<1>1. /\ reader[g] = "append"
      /\ buf' = [buf EXCEPT ![g] = Trimmed(@ \o hand[g])]
      /\ fresh' = IF g = cur THEN fresh + Len(hand[g]) ELSE fresh
      /\ reader' = [reader EXCEPT ![g] = "log"]
      /\ UNCHANGED <<sent, taken, fd, cur, pc, hand, log, stop, opened>>
  BY DEF AppendChunk, mainVars
<1>2. buf[g] \in Seq(Int) /\ hand[g] \in Seq(Int) /\ Len(buf[g]) \in Nat /\ Len(hand[g]) \in Nat
  BY LenProperties DEF Types
<1> DEFINE s == buf[g] \o hand[g]
<1>3. s \in Seq(Int) /\ Len(s) = Len(buf[g]) + Len(hand[g])
  BY <1>2, ConcatProperties
<1>4. /\ Trimmed(s) \in Seq(Int) /\ Len(Trimmed(s)) = IF Len(s) > Cap THEN Keep ELSE Len(s)
      /\ \A r \in Seq(Int) : EndOf(s, r) => EndOf(Trimmed(s), r)
  <2>1. EndOf(s, s)
    BY <1>3, LenProperties DEF EndOf
  <2> QED
    BY <1>3, <2>1, EndTrims
<1>5. buf'[g] = Trimmed(s)
  BY <1>1 DEF Types
<1> HIDE DEF s
<1>6. Types'
  <2>1. buf' \in [Link -> Seq(Int)]
    BY <1>1, <1>4 DEF Types, s
  <2>2. fresh' \in Nat
    BY <1>1, <1>2 DEF Types
  <2>3. reader' \in [Link -> ReaderStates]
    BY <1>1 DEF Types, ReaderStates
  <2> QED
    BY <1>1, <2>1, <2>2, <2>3 DEF Types
<1>7. ~(g > cur)
  BY <1>1 DEF Control
<1>8. Control'
  BY <1>1, <1>7 DEF Control, Types
<1>9. \A h \in Link : Received(h)' = Received(h)
  BY <1>1 DEF Received
<1>10. \A h \in Link : reader'[h] = "read" => reader[h] = "read"
  BY <1>1 DEF Types
<1>11. Past' /\ Holdings'
  <2>1. CASE ~fd
    BY <1>1, <1>9, <2>1 DEF Past, Holdings
  <2>2. CASE fd
    <3>1. cur \in Link /\ \A h \in 1 .. (cur - 1) : h \in Link
      BY <2>2, CurIsLink, LinkAssumption DEF Link
    <3>2. EndOf(buf[cur] \o Pending(cur), Received(cur))'
      <4>1. EndOf(buf[cur] \o Pending(cur), Received(cur)) /\ Received(cur) \in Seq(Int)
        BY <2>2, <3>1, ReceivedIsSeq DEF Holdings
      <4>2. CASE g = cur
        <5>1. Pending(cur) = hand[cur] /\ Pending(cur)' = <<>>
          BY <1>1, <3>1, <4>2 DEF Pending, Types
        <5>2. EndOf(Trimmed(s), Received(cur))
          BY <1>4, <4>1, <4>2, <5>1 DEF s
        <5>3. (buf[cur] \o Pending(cur))' = Trimmed(s)
          <6>1. Trimmed(s) \o <<>> = Trimmed(s)
            BY <1>4, NothingMore
          <6> QED
            BY <1>1, <1>5, <4>2, <5>1, <6>1
        <5> QED
          BY <1>1, <1>9, <3>1, <5>2, <5>3 DEF EndOf
      <4>3. CASE g # cur
        <5>1. buf'[cur] = buf[cur] /\ reader'[cur] = reader[cur]
          BY <1>1, <3>1, <4>3 DEF Types
        <5>2. Pending(cur)' = Pending(cur)
          BY <1>1, <5>1 DEF Pending
        <5> QED
          BY <1>1, <1>9, <3>1, <4>1, <5>1, <5>2 DEF EndOf
      <4> QED
        BY <4>2, <4>3
    <3>3. \A h \in 1 .. (cur - 1) : reader'[h] = "read" => reader[h] = "read"
      BY <1>10, <3>1
    <3> QED
      BY <1>1, <1>9, <2>2, <3>2, <3>3, HoldingsStay
  <2> QED
    BY <2>1, <2>2
<1>12. TrimKeepsNewest'
  <2>1. CASE g = cur
    <3>1. Len(buf[g]) <= Cap /\ (Len(buf[g]) >= fresh \/ Len(buf[g]) >= Keep)
      BY <2>1, LinkAssumption DEF TrimKeepsNewest, Link
    <3>2. fresh \in Nat /\ fresh' = fresh + Len(hand[g])
      BY <1>1, <2>1 DEF Types
    <3>3. Len(buf'[g]) = IF Len(s) > Cap THEN Keep ELSE Len(s)
      BY <1>4, <1>5
    <3>4. Len(buf'[g]) <= Cap /\ (Len(buf'[g]) >= fresh' \/ Len(buf'[g]) >= Keep)
      <4> HIDE DEF LinkInv
      <4>1. Len(buf'[g]) = IF Len(buf[g]) + Len(hand[g]) > Cap
                           THEN Keep ELSE Len(buf[g]) + Len(hand[g])
        BY <1>3, <3>3
      <4>2. /\ Len(buf'[g]) <= Cap
            /\ Len(buf'[g]) >= fresh + Len(hand[g]) \/ Len(buf'[g]) >= Keep
        BY <1>2, <3>1, <3>2, <4>1, TrimLength
      <4> QED
        BY <3>2, <4>2
    <3> QED
      BY <1>1, <2>1, <3>4 DEF TrimKeepsNewest
  <2>2. CASE g # cur
    <3>1. cur > 0 => buf'[cur] = buf[cur] /\ fresh' = fresh
      BY <1>1, <2>2, LinkAssumption DEF Types, Link
    <3> QED
      BY <1>1, <3>1 DEF TrimKeepsNewest
  <2> QED
    BY <2>1, <2>2
<1> QED
  BY <1>6, <1>8, <1>11, <1>12

\* Where the reader's other steps lead, and that they move no byte out of reach.
MovesNothing(g) ==
    /\ reader[g] \in {"check", "read", "log"}
    /\ reader' = [reader EXCEPT ![g] = reader'[g]]
    /\ reader'[g] \in {"check", "read", "ended", "died"}
    /\ reader[g] = "check" /\ stop[g] => reader'[g] = "ended"
    /\ reader'[g] = "read" => reader[g] = "check"
    /\ hand' = [hand EXCEPT ![g] = hand'[g]] /\ hand'[g] \in Seq(Int)
    /\ log' = [log EXCEPT ![g] = log'[g]] /\ log'[g] \in Seq(Int)
    /\ log'[g] \o hand'[g] = log[g] \o hand[g]
    /\ reader'[g] # "died" => hand'[g] = <<>>
    /\ UNCHANGED <<sent, taken, fd, cur, pc, buf, fresh, stop, opened>>

\* A chunk goes from the hand to the log, whole or in part, or nowhere at all.
LEMMA ReaderMovesNothing ==
    ASSUME LinkInv, NEW g \in Link,
           CheckStop(g) \/ ReadNothing(g) \/ ReadFails(g) \/ LogChunk(g) \/ LogFails(g)
    PROVE  MovesNothing(g)
<1> USE DEF LinkInv
<1>1. hand[g] \in Seq(Int) /\ log[g] \in Seq(Int) /\ <<>> \in Seq(Int)
  BY EmptySeq DEF Types
<1>2. CASE CheckStop(g) \/ ReadNothing(g) \/ ReadFails(g)
  <2>1. /\ reader[g] \in {"check", "read"}
        /\ reader' = [reader EXCEPT ![g] = reader'[g]]
        /\ reader'[g] \in {"check", "read", "ended"}
        /\ reader[g] = "check" /\ stop[g] => reader'[g] = "ended"
        /\ reader'[g] = "read" => reader[g] = "check"
        /\ UNCHANGED <<sent, taken, fd, cur, pc, hand, buf, log, fresh, stop, opened>>
    BY <1>2 DEF CheckStop, ReadNothing, ReadFails, mainVars, Types
  <2>2. hand[g] = <<>>
    BY <2>1 DEF Control
  <2>3. hand = [hand EXCEPT ![g] = hand[g]] /\ log = [log EXCEPT ![g] = log[g]]
    BY DEF Types
  <2> QED
    BY <1>1, <2>1, <2>2, <2>3 DEF MovesNothing
<1>3. CASE LogChunk(g)
  <2>1. /\ reader[g] = "log"
        /\ log' = [log EXCEPT ![g] = @ \o hand[g]]
        /\ hand' = [hand EXCEPT ![g] = <<>>]
        /\ reader' = [reader EXCEPT ![g] = "check"]
        /\ UNCHANGED <<sent, taken, fd, cur, pc, buf, fresh, stop, opened>>
    BY <1>3 DEF LogChunk, mainVars
  <2>2. log'[g] = log[g] \o hand[g] /\ hand'[g] = <<>> /\ reader'[g] = "check"
    BY <2>1 DEF Types
  <2>3. log[g] \o hand[g] \in Seq(Int)
    BY <1>1, ConcatProperties
  <2>4. (log[g] \o hand[g]) \o <<>> = log[g] \o hand[g]
    BY <2>3, NothingMore
  <2> QED
    BY <1>1, <2>1, <2>2, <2>3, <2>4 DEF MovesNothing
<1>4. CASE LogFails(g)
  <2>1. /\ reader[g] = "log"
        /\ reader' = [reader EXCEPT ![g] = "died"]
        /\ UNCHANGED <<sent, taken, fd, cur, pc, buf, fresh, stop, opened>>
    BY <1>4 DEF LogFails, mainVars
  <2>2. PICK n \in 0 .. Len(hand[g]) :
           /\ log' = [log EXCEPT ![g] = @ \o SubSeq(hand[g], 1, n)]
           /\ hand' = [hand EXCEPT ![g] = SubSeq(@, n + 1, Len(@))]
    BY <1>4 DEF LogFails
  <2>3. /\ log[g] \o SubSeq(hand[g], 1, n) \in Seq(Int)
        /\ SubSeq(hand[g], n + 1, Len(hand[g])) \in Seq(Int)
        /\ (log[g] \o SubSeq(hand[g], 1, n)) \o SubSeq(hand[g], n + 1, Len(hand[g]))
              = log[g] \o hand[g]
    BY <1>1, CutAndJoin
  <2>4. /\ log'[g] = log[g] \o SubSeq(hand[g], 1, n)
        /\ hand'[g] = SubSeq(hand[g], n + 1, Len(hand[g]))
        /\ reader'[g] = "died"
    BY <2>1, <2>2 DEF Types
  <2>5. /\ log' = [log EXCEPT ![g] = log'[g]] /\ hand' = [hand EXCEPT ![g] = hand'[g]]
        /\ reader' = [reader EXCEPT ![g] = reader'[g]]
    BY <2>1, <2>2, <2>4 DEF Types
  <2>6. log'[g] \in Seq(Int) /\ hand'[g] \in Seq(Int) /\ log'[g] \o hand'[g] = log[g] \o hand[g]
    BY <2>3, <2>4
  <2> QED
    BY <2>1, <2>4, <2>5, <2>6 DEF MovesNothing
<1> QED
  BY <1>2, <1>3, <1>4

\* Those steps keep the invariant.
LEMMA MovesNothingKeeps ==
    ASSUME LinkInv, NEW g \in Link, MovesNothing(g)
    PROVE  LinkInv'
<1> USE DEF LinkInv, MovesNothing
<1>1. Types'
  <2>1. reader' \in [Link -> ReaderStates]
    BY DEF Types, ReaderStates
  <2>2. hand' \in [Link -> Seq(Int)] /\ log' \in [Link -> Seq(Int)]
    BY DEF Types
  <2> QED
    BY <2>1, <2>2 DEF Types
<1>2. ~(g > cur)
  BY DEF Control
<1>3. \A h \in Link \ {g} : /\ reader'[h] = reader[h] /\ hand'[h] = hand[h] /\ log'[h] = log[h]
  BY DEF Types
<1>4. Control'
  <2> SUFFICES ASSUME NEW h \in Link
               PROVE  /\ h > cur => /\ reader'[h] = "none"
                                    /\ hand'[h] = <<>> /\ buf[h] = <<>> /\ log'[h] = <<>>
                      /\ h < cur \/ (h = cur /\ pc \in {"close", "closed"}) => stop[h]
                      /\ reader'[h] \in {"none", "check", "read", "ended"} => hand'[h] = <<>>
    BY DEF Control
  <2>1. CASE h = g
    BY <1>2, <2>1 DEF Control
  <2>2. CASE h # g
    BY <1>3, <2>2 DEF Control
  <2> QED
    BY <2>1, <2>2
<1>5. \A h \in Link : Received(h)' = Received(h)
  BY <1>3 DEF Received
<1>6. Past' /\ Holdings'
  <2>1. CASE ~fd
    BY <1>5, <2>1 DEF Past, Holdings
  <2>2. CASE fd
    <3>1. cur \in Link /\ \A h \in 1 .. (cur - 1) : h \in Link /\ h < cur
      BY <2>2, CurIsLink, LinkAssumption DEF Link
    <3>2. \A h \in 1 .. (cur - 1) : reader'[h] = "read" => reader[h] = "read"
      <4> SUFFICES ASSUME NEW h \in 1 .. (cur - 1), reader'[h] = "read" PROVE reader[h] = "read"
        OBVIOUS
      <4>1. CASE h = g
        <5>1. stop[h] /\ reader[h] = "check"
          BY <3>1, <4>1 DEF Control
        <5> QED
          BY <4>1, <5>1
      <4>2. CASE h # g
        BY <1>3, <3>1, <4>2
      <4> QED
        BY <4>1, <4>2
    <3>3. Pending(cur)' = Pending(cur)
      <4>1. CASE g = cur
        BY <4>1 DEF Pending
      <4>2. CASE g # cur
        BY <1>3, <3>1, <4>2 DEF Pending
      <4> QED
        BY <4>1, <4>2
    <3>4. EndOf(buf[cur] \o Pending(cur), Received(cur))'
      <4>1. cur' = cur /\ buf' = buf /\ EndOf(buf[cur] \o Pending(cur), Received(cur))
        BY <2>2 DEF Holdings
      <4>2. Received(cur)' = Received(cur)
        BY <1>5, <3>1, <4>1
      <4> QED
        BY <3>3, <4>1, <4>2 DEF EndOf
    <3> QED
      BY <1>5, <2>2, <3>2, <3>4, HoldingsStay
  <2> QED
    BY <2>1, <2>2
<1>7. TrimKeepsNewest'
  BY DEF TrimKeepsNewest
<1> QED
  BY <1>1, <1>4, <1>6, <1>7

\* Every step of a reader keeps the invariant.
LEMMA ReaderKeeps ==
    ASSUME LinkInv, NEW g \in Link, ReaderStep(g)
    PROVE  LinkInv'
BY ReadChunkKeeps, AppendChunkKeeps, ReaderMovesNothing, MovesNothingKeeps DEF ReaderStep

\* A new link starts empty, where the last one stopped, and no reader has taken
\* anything of it yet.
LEMMA OpenKeeps ==
    ASSUME LinkInv, Open
    PROVE  LinkInv'
<1> USE DEF LinkInv
<1>1. /\ pc = "closed" /\ cur' = cur + 1 /\ pc' = "idle" /\ fd' = TRUE /\ fresh' = 0
      /\ reader' = [reader EXCEPT ![cur'] = "check"]
      /\ opened' = [opened EXCEPT ![cur'] = taken]
      /\ UNCHANGED <<sent, taken, hand, buf, log, stop>>
  BY DEF Open
<1>2. cur' \in Link /\ cur' > cur /\ cur' \in 0 .. Links /\ cur \in Nat /\ taken \in Nat
  BY <1>1, LinkAssumption DEF Open, Types, Link
<1>3. hand[cur'] = <<>> /\ buf[cur'] = <<>> /\ log[cur'] = <<>>
  BY <1>2 DEF Control
<1>4. reader'[cur'] = "check" /\ opened'[cur'] = taken
  BY <1>1, <1>2 DEF Types
<1>5. Types'
  BY <1>1, <1>2 DEF Types, ReaderStates
<1>6. Control'
  <2>1. cur' # 0
    BY <1>1 DEF Types
  <2>2. ASSUME NEW g \in Link
        PROVE  /\ g > cur' => /\ reader'[g] = "none"
                              /\ hand'[g] = <<>> /\ buf'[g] = <<>> /\ log'[g] = <<>>
               /\ g < cur' => stop'[g]
               /\ reader'[g] \in {"none", "check", "read", "ended"} => hand'[g] = <<>>
    <3>0. g \in Int /\ cur \in Int /\ cur' \in Int
      BY <1>2, LinkAssumption DEF Types, Link
    <3>1. CASE g = cur'
      BY <1>1, <1>3, <3>0, <3>1
    <3>2. CASE g > cur'
      <4>1. g > cur /\ g # cur' /\ ~(g < cur')
        BY <1>2, <3>0, <3>2
      <4>2. /\ reader'[g] = "none"
            /\ hand'[g] = <<>> /\ buf'[g] = <<>> /\ log'[g] = <<>>
        BY <1>1, <4>1 DEF Control, Types
      <4> QED
        BY <4>1, <4>2
    <3>3. CASE g < cur'
      <4>1. (g < cur \/ g = cur) /\ ~(g > cur') /\ g # cur'
        BY <1>1, <3>0, <3>3
      <4>2. stop[g]
        BY <1>1, <4>1 DEF Control
      <4>3. stop'[g] = stop[g] /\ reader'[g] = reader[g] /\ hand'[g] = hand[g]
        BY <1>1, <4>1 DEF Types
      <4> QED
        BY <4>1, <4>2, <4>3 DEF Control
    <3> QED
      BY <1>2, <3>0, <3>1, <3>2, <3>3
  <2> QED
    BY <1>1, <2>1, <2>2 DEF Control
<1>7. \A g \in Link : Received(g)' = Received(g)
  BY <1>1 DEF Received
<1>8. Past'
  BY <1>1, <1>2, <1>7 DEF Past, Types
<1>9. Received(cur)' = <<>> /\ (buf[cur] \o Pending(cur))' = <<>>
  <2>1. Pending(cur)' = <<>>
    BY <1>4 DEF Pending
  <2>2. <<>> \o <<>> = <<>>
    OBVIOUS
  <2> QED
    BY <1>1, <1>3, <2>1, <2>2 DEF Received
<1>10. \A g \in 1 .. (cur' - 1) : Has(g)' = {}
  <2> SUFFICES ASSUME NEW g \in 1 .. (cur' - 1) PROVE Has(g)' = {}
    OBVIOUS
  <2>1. ((taken + 1) .. taken) = {}
    BY <1>2
  <2> QED
    BY <1>1, <1>4, <2>1 DEF Has
<1>11. Holdings'
  <2>1. InOrder(Received(cur))'
    BY <1>9 DEF InOrder
  <2>2. WireIs'
    <3>1. Elements(<<>>) = {}
      BY DEF Elements
    <3>2. ((taken + 1) .. taken) = {}
      BY <1>2
    <3> QED
      BY <1>1, <1>4, <1>9, <3>1, <3>2 DEF WireIs, Elements
  <2>3. \A g \in 1 .. (cur' - 1) : OneChunk(g)'
    <3> SUFFICES ASSUME NEW g \in 1 .. (cur' - 1) PROVE OneChunk(g)'
      OBVIOUS
    <3>1. taken \in opened'[cur'] .. taken' /\ 0 \in 0 .. Chunk /\ ((taken + 1) .. (taken + 0)) = {}
      BY <1>1, <1>2, <1>4, LinkAssumption
    <3> QED
      BY <1>10, <3>1 DEF OneChunk
  <2>4. EndOf(buf[cur] \o Pending(cur), Received(cur))'
    BY <1>9 DEF EndOf
  <2> QED
    BY <2>1, <2>2, <2>3, <2>4 DEF Holdings
<1>12. TrimKeepsNewest'
  BY <1>1, <1>3, EmptySeq, LinkAssumption DEF TrimKeepsNewest
<1> QED
  BY <1>5, <1>6, <1>8, <1>11, <1>12

\* Clearing may leave a chunk in the reader's hand.
LEMMA ClearBufferKeeps ==
    ASSUME LinkInv, ClearBuffer
    PROVE  LinkInv'
<1> USE DEF LinkInv
<1>1. /\ pc = "idle" /\ buf' = [buf EXCEPT ![cur] = <<>>] /\ fresh' = 0
      /\ UNCHANGED <<sent, taken, fd, cur, pc, reader, hand, log, stop, opened>>
  BY DEF ClearBuffer, mainVars
<1>2. fd /\ cur \in Link
  BY <1>1, CurIsLink DEF Control
<1>3. buf'[cur] = <<>>
  BY <1>1, <1>2 DEF Types
<1>4. Types'
  BY <1>1, EmptySeq DEF Types
<1>5. Control'
  BY <1>1, <1>2, LinkAssumption DEF Control, Types, Link
<1>6. \A g \in Link : Received(g)' = Received(g)
  BY <1>1 DEF Received
<1>7. EndOf(buf[cur] \o Pending(cur), Received(cur))'
  <2>1. log[cur] \in Seq(Int) /\ hand[cur] \in Seq(Int) /\ Pending(cur) \in Seq(Int)
    BY <1>2, ReceivedIsSeq
  <2>2. EndOf(Pending(cur), Received(cur))
    <3>1. CASE reader[cur] = "append"
      BY <2>1, <3>1, EndStarts DEF Pending, Received
    <3>2. CASE reader[cur] # "append"
      <4>1. Received(cur) \in Seq(Int)
        BY <1>2, ReceivedIsSeq
      <4> QED
        BY <3>2, <4>1, EndStarts DEF Pending
    <3> QED
      BY <3>1, <3>2
  <2>3. (buf[cur] \o Pending(cur))' = Pending(cur)
    <3>1. Pending(cur)' = Pending(cur)
      BY <1>1 DEF Pending
    <3>2. <<>> \o Pending(cur) = Pending(cur)
      BY <2>1, NothingMore
    <3> QED
      BY <1>1, <1>3, <3>1, <3>2
  <2> QED
    BY <1>1, <1>2, <1>6, <2>2, <2>3 DEF EndOf
<1>8. Past' /\ Holdings'
  BY <1>1, <1>2, <1>6, <1>7, HoldingsStay
<1>9. TrimKeepsNewest'
  BY <1>1, <1>3, EmptySeq, LinkAssumption DEF TrimKeepsNewest
<1> QED
  BY <1>4, <1>5, <1>8, <1>9

\* The rest of the main thread, and the device, touch no buffer.
LEMMA OthersKeep ==
    ASSUME LinkInv,
           \/ WaitFor \/ Look \/ Test \/ SetStop \/ Join \/ CloseFd
           \/ Expire \/ Emit \/ Vanish \/ UNCHANGED vars
    PROVE  LinkInv'
<1> USE DEF LinkInv
<1>1. /\ UNCHANGED <<taken, cur, reader, hand, buf, log, fresh, opened>>
      /\ sent' \in Nat /\ taken <= sent'
  BY DEF WaitFor, Look, Test, SetStop, Join, CloseFd, Expire, Emit, Vanish, vars, mainVars,
         readerVars, Types
<1>2. pc' \in {"closed", "idle", "look", "test", "join", "close"} /\ stop' \in [Link -> BOOLEAN]
  BY DEF WaitFor, Look, Test, SetStop, Join, CloseFd, Expire, Emit, Vanish, vars, mainVars, Types
<1>3. Types'
  BY <1>1, <1>2 DEF Types
<1>4. fd' = (pc' # "closed") /\ (pc = "closed" => pc' = "closed") /\ (fd' => fd)
  BY DEF WaitFor, Look, Test, SetStop, Join, CloseFd, Expire, Emit, Vanish, vars, mainVars, Control
<1>5. Control'
  <2>1. \A g \in Link : stop[g] => stop'[g]
    BY DEF WaitFor, Look, Test, SetStop, Join, CloseFd, Expire, Emit, Vanish, vars, Types
  <2>2. pc' = "join" => stop'[cur]
    <3>1. CASE SetStop
      <4>1. cur \in Link
        BY <3>1, CurIsLink DEF SetStop, Control
      <4> QED
        BY <3>1, <4>1 DEF SetStop, Types
    <3>2. CASE ~SetStop
      <4>1. pc' = "join" => pc = "join" /\ stop' = stop
        BY <3>2 DEF WaitFor, Look, Test, Join, CloseFd, Expire, Emit, Vanish, vars, mainVars
      <4> QED
        BY <4>1 DEF Control
    <3> QED
      BY <3>1, <3>2
  <2>3. pc' \in {"close", "closed"} => pc \in {"join", "close", "closed"}
    BY DEF WaitFor, Look, Test, SetStop, Join, CloseFd, Expire, Emit, Vanish, vars, mainVars
  <2> QED
    BY <1>1, <1>4, <2>1, <2>2, <2>3 DEF Control
<1>6. \A g \in Link : Received(g)' = Received(g)
  BY <1>1 DEF Received
<1>7. Past' /\ Holdings'
  <2>1. CASE ~fd
    BY <1>1, <1>4, <1>6, <2>1 DEF Past, Holdings
  <2>2. CASE fd
    <3>1. cur \in Link
      BY <2>2, CurIsLink
    <3>2. EndOf(buf[cur] \o Pending(cur), Received(cur))'
      BY <1>1, <1>6, <2>2, <3>1 DEF Holdings, EndOf, Pending
    <3> QED
      BY <1>1, <1>6, <2>2, <3>2, HoldingsStay
  <2> QED
    BY <2>1, <2>2
<1>8. TrimKeepsNewest'
  BY <1>1 DEF TrimKeepsNewest
<1> QED
  BY <1>3, <1>5, <1>7, <1>8

\* Every step keeps the invariant.
LEMMA LinkStep ==
    ASSUME LinkInv, [Next]_vars
    PROVE  LinkInv'
BY ReaderKeeps, OpenKeeps, ClearBufferKeeps, OthersKeep DEF Next, Main

\* What the threads hold adds up to the wire, in every reachable state.
THEOREM LinkInvariant == Spec => []LinkInv
<1> QED
  BY LinkInit, LinkStep, PTL DEF Spec

\* wait_for searches the end of what the link's reader took from the tty, with
\* nothing missing or out of place.
THEOREM BufferIsTheWire == Spec => []BufferShowsTheWire
<1>1. ASSUME LinkInv PROVE BufferShowsTheWire
  <2> USE <1>1
  <2> DEFINE s == buf[cur] \o Pending(cur)
  <2> SUFFICES ASSUME fd
               PROVE  Len(s) <= Len(Received(cur)) /\ s = LastOf(Received(cur), Len(s))
    BY DEF BufferShowsTheWire
  <2>1. cur \in Link
    BY CurIsLink
  <2>2. buf[cur] \in Seq(Int) /\ Pending(cur) \in Seq(Int) /\ Received(cur) \in Seq(Int)
    BY <2>1, ReceivedIsSeq DEF LinkInv
  <2>3. s \in Seq(Int) /\ EndOf(s, Received(cur))
    BY <2>2, ConcatProperties DEF LinkInv, Holdings
  <2> HIDE DEF s
  <2> QED
    BY <2>2, <2>3, EndIsLast DEF EndOf
<1> QED
  BY <1>1, LinkInvariant, PTL

\* A link's reader takes all of the link's bytes in order, but for at most one
\* chunk that a late reader of each earlier link takes.
THEOREM LogIsTheWire == Spec => []LogShowsTheWire
<1>1. LinkInv => LogShowsTheWire
  BY DEF LinkInv, Holdings, LogShowsTheWire, InOrder, WireIs, OneChunk
<1> QED
  BY <1>1, LinkInvariant, PTL

\* The trim never takes the newest Keep bytes, and bounds the buffer.
THEOREM TrimIsSafe == Spec => []TrimKeepsNewest
<1>1. LinkInv => TrimKeepsNewest
  BY DEF LinkInv
<1> QED
  BY <1>1, LinkInvariant, PTL

----------------------------------------------------------------------------
(* Types: every number in a buffer or in the log is one of the bytes sent *)

Byte == 1 .. Bytes

Bounded ==
    /\ sent <= Bytes
    /\ gone \in BOOLEAN /\ expired \in BOOLEAN
    /\ want \in 0 .. Bytes
    /\ text \in Seq(Byte)
    /\ hand \in [Link -> Seq(Byte)]
    /\ buf \in [Link -> Seq(Byte)]
    /\ log \in [Link -> Seq(Byte)]
    /\ \A g \in Link : opened[g] <= Bytes
    /\ fresh <= taken
    /\ \A g \in Link : g = cur /\ reader[g] = "append" => fresh + Len(hand[g]) <= taken

\* What the sequence operators of the model keep.
LEMMA SeqsKeep ==
    ASSUME NEW S, NEW s \in Seq(S), NEW t \in Seq(S)
    PROVE  <<>> \in Seq(S) /\ s \o t \in Seq(S) /\ Trimmed(s) \in Seq(S)
<1>1. s \o t \in Seq(S) /\ <<>> \in Seq(S)
  OBVIOUS
<1>2. Trimmed(s) \in Seq(S)
  <2>1. CASE Len(s) > Cap
    <3>1. /\ Len(s) \in Nat /\ Len(s) - Keep + 1 \in Int
          /\ Len(s) - Keep + 1 >= 1 /\ Len(s) - Keep + 1 <= Len(s) + 1
      BY <2>1, LinkAssumption, LenProperties
    <3> QED
      BY <2>1, <3>1, SubSeqProperties DEF Trimmed
  <2>2. CASE ~ (Len(s) > Cap)
    BY <2>2 DEF Trimmed
  <2> QED
    BY <2>1, <2>2
<1> QED
  BY <1>1, <1>2

\* A chunk that ends at a byte sent is a sequence of bytes.
LEMMA WireBytes ==
    ASSUME NEW a \in Nat, NEW n \in Nat, a + n <= Bytes
    PROVE  Wire(a, a + n) \in Seq(Byte) /\ Len(Wire(a, a + n)) = n
<1>1. (a + n) - a = n /\ \A i \in 1 .. n : a + i \in Byte
  BY LinkAssumption DEF Byte
<1>2. Wire(a, a + n) \in [1 .. n -> Byte]
  BY <1>1 DEF Wire
<1>3. Wire(a, a + n) \in Seq(Byte)
  BY <1>2, IsASeq
<1>4. a \in Int /\ a + n \in Int /\ a <= a + n
  OBVIOUS
<1>5. Len(Wire(a, a + n)) = (a + n) - a
  BY <1>4, WireIsSeq
<1> QED
  BY <1>1, <1>3, <1>5

\* No link has anything at the start.
LEMMA BoundedInit == Init => Bounded
<1> SUFFICES ASSUME Init PROVE Bounded
  OBVIOUS
<1>1. <<>> \in Seq(Byte)
  OBVIOUS
<1>2. /\ hand \in [Link -> Seq(Byte)] /\ buf \in [Link -> Seq(Byte)]
      /\ log \in [Link -> Seq(Byte)] /\ text \in Seq(Byte)
  BY <1>1 DEF Init
<1>3. /\ sent <= Bytes /\ want \in 0 .. Bytes /\ fresh <= taken
      /\ \A g \in Link : opened[g] <= Bytes
  BY LinkAssumption DEF Init
<1>4. \A g \in Link : reader[g] # "append"
  BY DEF Init
<1>5. gone \in BOOLEAN /\ expired \in BOOLEAN
  BY DEF Init
<1> QED
  BY <1>2, <1>3, <1>4, <1>5 DEF Bounded

\* The reader's steps.
LEMMA ReaderBounded ==
    ASSUME LinkInv, Bounded, NEW g \in Link, ReaderStep(g)
    PROVE  Bounded'
<1> USE DEF Bounded
<1>0. /\ sent \in Nat /\ taken \in Nat /\ taken <= sent /\ fresh \in Nat
      /\ reader \in [Link -> ReaderStates]
  BY DEF LinkInv, Types
<1>1. CASE CheckStop(g) \/ ReadNothing(g) \/ ReadFails(g)
  <2>1. /\ UNCHANGED <<sent, taken, gone, cur, want, text, expired, hand, buf, log, fresh, opened>>
        /\ \A h \in Link : reader'[h] = "append" => reader[h] = "append"
    BY <1>0, <1>1 DEF CheckStop, ReadNothing, ReadFails, mainVars
  <2> QED
    BY <2>1
<1>2. CASE ReadChunk(g)
  <2>1. PICK n \in 1 .. Chunk : /\ taken + n <= sent
                                /\ hand' = [hand EXCEPT ![g] = Wire(taken, taken + n)]
                                /\ taken' = taken + n
    BY <1>2 DEF ReadChunk
  <2>2. Wire(taken, taken + n) \in Seq(Byte) /\ Len(Wire(taken, taken + n)) = n
    BY <1>0, <2>1, LinkAssumption, WireBytes
  <2>4. /\ UNCHANGED <<sent, gone, cur, want, text, expired, buf, log, fresh, opened>>
        /\ reader' = [reader EXCEPT ![g] = "append"]
    BY <1>2 DEF ReadChunk, mainVars
  <2>5. hand' \in [Link -> Seq(Byte)]
    BY <2>1, <2>2
  <2>6. fresh' <= taken'
    BY <1>0, <2>1, <2>4
  <2>7. \A h \in Link : h = cur' /\ reader'[h] = "append" => fresh' + Len(hand'[h]) <= taken'
    <3> SUFFICES ASSUME NEW h \in Link, h = cur, reader'[h] = "append"
                 PROVE  fresh + Len(hand'[h]) <= taken'
      BY <2>4
    <3>1. CASE h = g
      BY <1>0, <2>1, <2>2, <3>1 DEF LinkInv, Types
    <3>2. CASE h # g
      <4>1. hand'[h] = hand[h] /\ reader[h] = "append"
        BY <1>0, <2>1, <2>4, <3>2 DEF LinkInv, Types
      <4>2. fresh + Len(hand[h]) <= taken /\ Len(hand[h]) \in Nat
        BY <4>1, LenProperties
      <4> QED
        BY <1>0, <2>1, <4>1, <4>2
    <3> QED
      BY <3>1, <3>2
  <2> QED
    BY <2>4, <2>5, <2>6, <2>7
<1>3. CASE AppendChunk(g)
  <2>1. reader[g] = "append"
    BY <1>3 DEF AppendChunk
  <2>2. /\ UNCHANGED <<sent, taken, gone, cur, want, text, expired, hand, log, opened>>
        /\ buf' = [buf EXCEPT ![g] = Trimmed(buf[g] \o hand[g])]
        /\ reader' = [reader EXCEPT ![g] = "log"]
        /\ fresh' = IF g = cur THEN fresh + Len(hand[g]) ELSE fresh
    BY <1>3 DEF AppendChunk, mainVars
  <2>3. Trimmed(buf[g] \o hand[g]) \in Seq(Byte)
    BY SeqsKeep
  <2>4. buf' \in [Link -> Seq(Byte)]
    BY <2>2, <2>3
  <2>5. fresh' <= taken'
    BY <2>1, <2>2
  <2>6. \A h \in Link : h = cur' /\ reader'[h] = "append" => fresh' + Len(hand'[h]) <= taken'
    <3> SUFFICES ASSUME NEW h \in Link, h = cur, reader'[h] = "append"
                 PROVE  fresh' + Len(hand[h]) <= taken
      BY <2>2
    <3>1. h # g /\ reader[h] = "append"
      BY <1>0, <2>2
    <3> QED
      BY <2>2, <3>1
  <2> QED
    BY <2>2, <2>4, <2>5, <2>6
<1>4. CASE LogChunk(g)
  <2>1. /\ UNCHANGED <<sent, taken, gone, cur, want, text, expired, buf, fresh, opened>>
        /\ log' = [log EXCEPT ![g] = log[g] \o hand[g]]
        /\ hand' = [hand EXCEPT ![g] = <<>>]
        /\ reader' = [reader EXCEPT ![g] = "check"]
    BY <1>4 DEF LogChunk, mainVars
  <2>2. log[g] \o hand[g] \in Seq(Byte) /\ <<>> \in Seq(Byte)
    BY SeqsKeep
  <2>3. log' \in [Link -> Seq(Byte)] /\ hand' \in [Link -> Seq(Byte)]
    BY <2>1, <2>2
  <2>4. \A h \in Link : h = cur' /\ reader'[h] = "append" => fresh' + Len(hand'[h]) <= taken'
    BY <1>0, <2>1
  <2> QED
    BY <2>1, <2>3, <2>4
<1>5. CASE LogFails(g)
  <2>1. /\ UNCHANGED <<sent, taken, gone, cur, want, text, expired, buf, fresh, opened>>
        /\ reader' = [reader EXCEPT ![g] = "died"]
    BY <1>5 DEF LogFails, mainVars
  <2>2. PICK n \in 0 .. Len(hand[g]) :
           /\ log' = [log EXCEPT ![g] = @ \o SubSeq(hand[g], 1, n)]
           /\ hand' = [hand EXCEPT ![g] = SubSeq(@, n + 1, Len(@))]
    BY <1>5 DEF LogFails
  <2>3. hand[g] \in Seq(Byte) /\ log[g] \in Seq(Byte) /\ Len(hand[g]) \in Nat /\ n \in Nat
    BY <2>2, LenProperties
  <2>4. \A i \in 1 .. Len(hand[g]) : hand[g][i] \in Byte
    BY <2>3, ElementOfSeq
  <2>5. SubSeq(hand[g], 1, n) \in Seq(Byte)
    <3>1. \A i \in 1 .. n : hand[g][i] \in Byte
      BY <2>2, <2>3, <2>4
    <3> QED
      BY <2>3, <3>1, SubSeqProperties
  <2>6. SubSeq(hand[g], n + 1, Len(hand[g])) \in Seq(Byte)
    <3>1. n + 1 \in Int /\ Len(hand[g]) \in Int
      BY <2>3
    <3>2. \A i \in (n + 1) .. Len(hand[g]) : hand[g][i] \in Byte
      BY <2>3, <2>4
    <3> QED
      BY <3>1, <3>2, SubSeqProperties
  <2>7. log[g] \o SubSeq(hand[g], 1, n) \in Seq(Byte)
    BY <2>3, <2>5, SeqsKeep
  <2>8. log' \in [Link -> Seq(Byte)] /\ hand' \in [Link -> Seq(Byte)]
    BY <2>2, <2>6, <2>7
  <2>9. \A h \in Link : h = cur' /\ reader'[h] = "append" => fresh' + Len(hand'[h]) <= taken'
    <3> SUFFICES ASSUME NEW h \in Link, h = cur, reader'[h] = "append"
                 PROVE  fresh + Len(hand'[h]) <= taken
      BY <2>1
    <3>1. h # g /\ reader[h] = "append" /\ hand'[h] = hand[h]
      BY <1>0, <2>1, <2>2 DEF LinkInv, Types
    <3> QED
      BY <3>1
  <2> QED
    BY <2>1, <2>8, <2>9
<1> QED
  BY <1>1, <1>2, <1>3, <1>4, <1>5 DEF ReaderStep

\* The main thread's, the clock's and the device's.
LEMMA OthersBounded ==
    ASSUME LinkInv, Bounded, Main \/ Expire \/ Emit \/ Vanish \/ UNCHANGED vars
    PROVE  Bounded'
<1> USE DEF Bounded
<1>0. /\ sent \in Nat /\ taken \in Nat /\ taken <= sent /\ fresh \in Nat
      /\ reader \in [Link -> ReaderStates] /\ cur \in 0 .. Links /\ opened \in [Link -> Nat]
  BY DEF LinkInv, Types
<1>1. CASE Open
  <2>1. /\ UNCHANGED <<sent, taken, want, text, expired, hand, buf, log>>
        /\ gone' = FALSE /\ fresh' = 0 /\ cur' = cur + 1 /\ cur < Links
        /\ reader' = [reader EXCEPT ![cur + 1] = "check"]
        /\ opened' = [opened EXCEPT ![cur + 1] = taken]
    BY <1>1 DEF Open
  <2>2. cur + 1 \in Link
    BY <1>0, <2>1, LinkAssumption DEF Link
  <2>3. \A h \in Link : opened'[h] <= Bytes
    BY <1>0, <2>1, LinkAssumption
  <2>4. reader'[cur'] = "check"
    BY <1>0, <2>1, <2>2
  <2>5. \A h \in Link : h = cur' /\ reader'[h] = "append" => fresh' + Len(hand'[h]) <= taken'
    BY <2>4
  <2>6. fresh' <= taken'
    BY <1>0, <2>1
  <2>7. /\ text' \in Seq(Byte) /\ hand' \in [Link -> Seq(Byte)]
        /\ buf' \in [Link -> Seq(Byte)] /\ log' \in [Link -> Seq(Byte)]
    BY <2>1
  <2>8. /\ sent' <= Bytes /\ want' \in 0 .. Bytes
        /\ gone' \in BOOLEAN /\ expired' \in BOOLEAN
    BY <2>1
  <2> QED
    BY <2>3, <2>5, <2>6, <2>7, <2>8
<1>2. CASE ClearBuffer
  <2>1. /\ UNCHANGED <<sent, taken, gone, cur, want, text, expired, reader, hand, log, opened>>
        /\ buf' = [buf EXCEPT ![cur] = <<>>] /\ fresh' = 0
    BY <1>2 DEF ClearBuffer, mainVars
  <2>2. buf' \in [Link -> Seq(Byte)]
    BY <2>1, EmptySeq
  <2>3. \A h \in Link : h = cur' /\ reader'[h] = "append" => fresh' + Len(hand'[h]) <= taken'
    <3> SUFFICES ASSUME NEW h \in Link, h = cur, reader[h] = "append"
                 PROVE  0 + Len(hand[h]) <= taken
      BY <2>1
    <3>1. fresh + Len(hand[h]) <= taken /\ Len(hand[h]) \in Nat
      BY LenProperties
    <3> QED
      BY <1>0, <3>1
  <2> QED
    BY <1>0, <2>1, <2>2, <2>3
<1>3. CASE Look
  <2>1. /\ UNCHANGED <<sent, taken, gone, cur, want, expired, readerVars, opened>>
        /\ text' = buf[cur] /\ pc = "look"
    BY <1>3 DEF Look
  <2>2. fd
    BY <2>1 DEF LinkInv, Control
  <2>3. buf[cur] \in Seq(Byte)
    BY <2>2, CurIsLink
  <2> QED
    BY <2>1, <2>3 DEF readerVars
<1>4. CASE WaitFor
  <2>1. /\ UNCHANGED <<sent, taken, gone, cur, text, readerVars, opened>>
        /\ want' \in 1 .. Bytes /\ expired' = FALSE
    BY <1>4 DEF WaitFor
  <2>2. want' \in 0 .. Bytes
    BY <2>1, LinkAssumption
  <2> QED
    BY <2>1, <2>2 DEF readerVars
<1>5. CASE Test \/ SetStop \/ Join \/ CloseFd \/ Expire \/ Emit \/ Vanish \/ UNCHANGED vars
  <2>1. /\ UNCHANGED <<taken, cur, want, text, readerVars, opened>>
        /\ sent' \in {sent, taken} \/ (sent < Bytes /\ sent' = sent + 1)
        /\ gone' \in {gone, TRUE} /\ expired' \in {expired, TRUE}
    BY <1>5 DEF Test, SetStop, Join, CloseFd, Expire, Emit, Vanish, vars, mainVars
  <2>2. sent' <= Bytes
    BY <1>0, <2>1, LinkAssumption
  <2> QED
    BY <2>1, <2>2 DEF readerVars
<1> QED
  BY <1>1, <1>2, <1>3, <1>4, <1>5 DEF Main

\* Every variable of the links and their threads keeps its type, for every size
\* of chunk and buffer: no number in a buffer or in the log but of a byte sent.
THEOREM LinkTypes == Spec => []TypeOK
<1>1. LinkInv /\ Bounded /\ [Next]_vars => Bounded'
  BY ReaderBounded, OthersBounded DEF Next
<1>2. LinkInv /\ Bounded => TypeOK
  <2> SUFFICES ASSUME LinkInv, Bounded PROVE TypeOK
    OBVIOUS
  <2>1. fd \in BOOLEAN
    BY DEF LinkInv, Control
  <2>2. opened \in [Link -> 0 .. Bytes]
    BY LinkAssumption DEF LinkInv, Types, Bounded
  <2>3. sent \in 0 .. Bytes /\ taken \in 0 .. Bytes /\ fresh \in 0 .. Bytes
    BY LinkAssumption DEF LinkInv, Types, Bounded
  <2> QED
    BY <2>1, <2>2, <2>3 DEF TypeOK, LinkInv, Types, Bounded, Byte, ReaderStates
<1> QED
  BY <1>1, <1>2, BoundedInit, LinkInvariant, PTL DEF Spec
=============================================================================
