------------------------- MODULE AlsaRoutingProofs --------------------------
(***************************************************************************)
(* What drain_seq_events gives the streams, for any writers, virtual       *)
(* destinations and bounds, and any queue.                                 *)
(*                                                                         *)
(* What is still queued will be taken in its order, so that what a stream  *)
(* is to come to is settled: a run is the parser and the stream of a       *)
(* connection or a virtual destination before each entry of the queue and  *)
(* after the last.  The invariant says that there is a run, that it ends   *)
(* in what was written and in the SysEx the writer is amid, and that all   *)
(* before is a prefix of it.  A write lengthens the run by what it puts    *)
(* into the queue, and taking an entry leaves all but the first of it; the *)
(* theorems are what the invariant says of the first.                      *)
(***************************************************************************)
EXTENDS AlsaRouting, SequenceTheorems, FiniteSetTheorems, WellFoundedInduction, TLAPS

USE RoutingAssumption

Stamp == Writers \X Nat
Item  == [type : {"event", "sysex", "broken"}, pieces : Seq(Stamp)]

EventItem == [type : {"event"}, pieces : Seq(Stamp)]
PieceItem == {Piece(n, first, last) : n \in Stamp, first \in BOOLEAN, last \in BOOLEAN}
Input     == EventItem \cup PieceItem
Entry == [src : Writers, dest : Virtuals \cup {In}, item : Input]

ParserState == [at : {"closed", "orphans", "sysex"}, pieces : Seq(Stamp)]

\* What a parser and its streams have come to.
Reading == [p : ParserState, s : Seq(Item)]

\* What an item of the queue makes of it.
Fed(r, item) == IF item.type = "event" THEN [p |-> r.p, s |-> Append(r.s, item)]
                ELSE [p |-> Pushed(r.p, item).next, s |-> r.s \o Pushed(r.p, item).out]

-----------------------------------------------------------------------------
(* What one piece does to a parser.                                        *)

LEMMA PieceIs ==
  ASSUME NEW n, NEW first \in BOOLEAN, NEW last \in BOOLEAN
  PROVE  LET item == Piece(n, first, last)
         IN /\ item.type = "piece" /\ item.pieces = <<n>>
            /\ item.first <=> first
            /\ item.last <=> last
BY DEF Piece

LEMMA ConcatNothing ==
  /\ \A n : <<>> \o <<n>> = <<n>> /\ <<n>> \o <<>> = <<n>>
  /\ <<>> \o <<>> = <<>>
<1>1. ASSUME NEW n PROVE <<>> \o <<n>> = <<n>> /\ <<n>> \o <<>> = <<n>>
  <2>1. <<n>> \in Seq({n})
    OBVIOUS
  <2> QED BY <2>1, ConcatEmptySeq
<1>2. <<>> \o <<>> = <<>>
  <2>1. <<>> \in Seq({})
    OBVIOUS
  <2> QED BY <2>1, ConcatEmptySeq
<1> QED BY <1>1, <1>2

At(pieces) == IF pieces = <<>> THEN Closed ELSE Open(pieces)

\* A parser that has all the pieces so far takes the next one for what it is.
LEMMA PieceFollows ==
  ASSUME NEW q \in Seq(Stamp), NEW n \in Stamp, NEW last \in BOOLEAN
  PROVE  Pushed(At(q), Piece(n, q = <<>>, last)) =
           [next |-> IF last THEN Closed ELSE Open(q \o <<n>>),
            out  |-> IF last THEN <<Sysex(q \o <<n>>)>> ELSE <<>>]
<1> DEFINE item == Piece(n, q = <<>>, last)
           p == At(q)
<1>1. item.pieces = <<n>> /\ (item.first <=> q = <<>>) /\ (item.last <=> last)
  BY PieceIs
<1> HIDE DEF item
<1>2. CASE q = <<>>
  <2>1. p.at = "closed" /\ q \o <<n>> = <<n>>
    BY <1>2, ConcatNothing DEF At, Closed
  <2> HIDE DEF p
  <2>2. Pushed(p, item) = IF item.last THEN [next |-> Closed, out |-> <<>> \o <<Sysex(<<n>>)>>]
                          ELSE [next |-> Open(<<n>>), out |-> <<>>]
    BY <1>1, <1>2, <2>1, Zenon DEF Pushed
  <2>3. <<>> \o <<Sysex(<<n>>)>> = <<Sysex(<<n>>)>>
    BY ConcatNothing
  <2> QED BY <1>1, <2>1, <2>2, <2>3, Zenon DEF item, p
<1>3. CASE q # <<>>
  <2>1. p.at = "sysex" /\ p.pieces = q
    BY <1>3 DEF At, Open
  <2> HIDE DEF p
  <2>2. Pushed(p, item) = IF item.last
                          THEN [next |-> Closed, out |-> <<>> \o <<Sysex(q \o <<n>>)>>]
                          ELSE [next |-> Open(q \o <<n>>), out |-> <<>>]
    BY <1>1, <1>3, <2>1, Zenon DEF Pushed
  <2>3. <<>> \o <<Sysex(q \o <<n>>)>> = <<Sysex(q \o <<n>>)>>
    BY ConcatNothing
  <2> QED BY <1>1, <2>2, <2>3, Zenon DEF item, p
<1> QED BY <1>2, <1>3

\* Whatever a parser has, a SysEx it completes is made of the pieces it has, and
\* those of an open one come from its first piece on.
LEMMA PieceWhole ==
  ASSUME NEW p \in ParserState, NEW n \in Stamp, NEW first \in BOOLEAN, NEW last \in BOOLEAN
  PROVE  LET a == Pushed(p, Piece(n, first, last))
             q == IF first THEN <<n>> ELSE p.pieces \o <<n>>
         IN /\ a.next \in ParserState /\ a.out \in Seq(Item)
            /\ a.next.at = "sysex" => /\ ~last /\ a.next.pieces = q
                                      /\ first \/ p.at = "sysex"
            /\ \A i \in DOMAIN a.out : a.out[i].type = "sysex" =>
                 /\ last /\ a.out[i] = Sysex(q)
                 /\ first \/ p.at = "sysex"
<1> DEFINE item == Piece(n, first, last)
           a == Pushed(p, item)
           q == IF first THEN <<n>> ELSE p.pieces \o <<n>>
           before == IF first /\ p.at # "closed" THEN <<Broken>> ELSE <<>>
<1>1. item.pieces = <<n>> /\ (item.first <=> first) /\ (item.last <=> last)
  BY PieceIs
<1>2. q \in Seq(Stamp)
  <2>1. <<n>> \in Seq(Stamp) /\ p.pieces \in Seq(Stamp)
    BY DEF ParserState
  <2> QED BY <2>1
<1>3. /\ Closed \in ParserState /\ Orphans \in ParserState /\ Open(q) \in ParserState
      /\ Closed.at = "closed" /\ Orphans.at = "orphans" /\ Open(q).pieces = q
      /\ Broken \in Item /\ Sysex(q) \in Item /\ Broken.type = "broken"
  <2>1. <<>> \in Seq(Stamp)
    OBVIOUS
  <2> QED BY <1>2, <2>1 DEF Closed, Orphans, Open, Broken, Sysex, ParserState, Item
<1> HIDE DEF item
<1>4. CASE ~first /\ p.at # "sysex"
  <2>1. a = IF item.last THEN [next |-> Closed, out |-> <<Broken>>]
                         ELSE [next |-> Orphans, out |-> <<>>]
    BY <1>1, <1>4, Zenon DEF Pushed
  <2> HIDE DEF a, q
  <2>2. CASE item.last
    <3>1. a.next = Closed /\ a.out = <<Broken>>
      BY <2>1, <2>2
    <3>2. \A i \in DOMAIN <<Broken>> : <<Broken>>[i] = Broken
      OBVIOUS
    <3>3. <<Broken>> \in Seq(Item)
      BY <1>3
    <3>4. a.next.at # "sysex" /\ \A i \in DOMAIN a.out : a.out[i].type # "sysex"
      BY <1>3, <3>1, <3>2
    <3> QED BY <1>3, <3>1, <3>3, <3>4, Zenon DEF a, q, item
  <2>3. CASE ~item.last
    <3>1. a.next = Orphans /\ a.out = <<>>
      BY <2>1, <2>3
    <3>2. a.out \in Seq(Item) /\ a.next.at # "sysex" /\ \A i \in DOMAIN a.out : a.out[i].type # "sysex"
      BY <1>3, <3>1
    <3> QED BY <1>3, <3>1, <3>2, Zenon DEF a, q, item
  <2> QED BY <2>2, <2>3
<1>5. CASE ~(~first /\ p.at # "sysex")
  <2>1. a = IF item.last THEN [next |-> Closed, out |-> before \o <<Sysex(q)>>]
                         ELSE [next |-> Open(q), out |-> before]
    <3>1. first \/ ~(p.at # "sysex")
      BY <1>5
    <3>2. q = IF item.first THEN item.pieces ELSE p.pieces \o item.pieces
      BY <1>1, Zenon
    <3> HIDE DEF q
    <3> QED BY <1>1, <3>1, <3>2, Zenon DEF Pushed
  <2>0. first \/ p.at = "sysex"
    BY <1>5
  <2> HIDE DEF a, q
  <2>2. before \in Seq(Item) /\ \A i \in DOMAIN before : before[i].type # "sysex"
    <3>1. <<Broken>> \in Seq(Item) /\ \A i \in DOMAIN <<Broken>> : <<Broken>>[i] = Broken
      BY <1>3
    <3>2. <<>> \in Seq(Item) /\ DOMAIN <<>> = {}
      OBVIOUS
    <3> QED BY <1>3, <3>1, <3>2
  <2> HIDE DEF before
  <2>3. CASE item.last
    <3>1. a.next = Closed /\ a.out = before \o <<Sysex(q)>>
      BY <2>1, <2>3
    <3>2. <<Sysex(q)>> \in Seq(Item) /\ Len(<<Sysex(q)>>) = 1 /\ <<Sysex(q)>>[1] = Sysex(q)
      BY <1>3
    <3>3. /\ a.out \in Seq(Item) /\ Len(a.out) = Len(before) + 1
          /\ \A i \in DOMAIN a.out : (i \in DOMAIN before /\ a.out[i] = before[i])
                                     \/ a.out[i] = Sysex(q)
      BY <2>2, <3>1, <3>2
    <3>4. \A i \in DOMAIN a.out : a.out[i].type = "sysex" => a.out[i] = Sysex(q)
      BY <2>2, <3>3, Zenon
    <3>5. a.next.at # "sysex" /\ last /\ a.next \in ParserState
      BY <1>1, <1>3, <2>3, <3>1
    <3> QED BY <2>0, <3>3, <3>4, <3>5, Zenon DEF a, q, item
  <2>4. CASE ~item.last
    <3>1. a.next = Open(q) /\ a.out = before
      BY <2>1, <2>4
    <3>2. ~last /\ a.next \in ParserState /\ a.next.pieces = q
      BY <1>1, <1>3, <2>4, <3>1
    <3> QED BY <2>0, <2>2, <3>1, <3>2, Zenon DEF a, q, item
  <2> QED BY <2>3, <2>4
<1> QED BY <1>4, <1>5

-----------------------------------------------------------------------------
(* Prefixes, what is promised and the items of one writer.                 *)

LEMMA PrefixIs ==
  ASSUME NEW S, NEW s \in Seq(S), NEW t \in Seq(S)
  PROVE  IsPrefix(s, t) <=> Len(s) <= Len(t) /\ \A i \in 1..Len(s) : s[i] = t[i]
<1>1. Len(s) \in Nat /\ Len(t) \in Nat
  OBVIOUS
<1>2. SubSeq(s, 1, Len(s)) = s
  BY SubSeqFull
<1>3. ASSUME Len(s) <= Len(t)
      PROVE  s = SubSeq(t, 1, Len(s)) <=> \A i \in 1..Len(s) : s[i] = t[i]
  <2> DEFINE u == SubSeq(t, 1, Len(s))
  <2>1. u \in Seq(S) /\ Len(u) = Len(s) /\ \A i \in 1..Len(s) : u[i] = t[i]
    <3>1. \A i \in 1..Len(s) : t[i] \in S
      BY <1>1, <1>3
    <3>2. /\ u \in Seq(S) /\ Len(u) = IF 1 <= Len(s) THEN Len(s) - 1 + 1 ELSE 0
          /\ \A i \in 1..Len(s) - 1 + 1 : u[i] = t[1 + i - 1]
      BY <1>1, <3>1, SubSeqProperties
    <3> HIDE DEF u
    <3> QED BY <1>1, <3>2
  <2> HIDE DEF u
  <2>2. s = u <=> \A i \in 1..Len(s) : s[i] = u[i]
    BY <2>1, SeqEqual
  <2> QED BY <2>1, <2>2 DEF u
<1> QED BY <1>2, <1>3, Zenon DEF IsPrefix

LEMMA PrefixGrows ==
  ASSUME NEW S, NEW s \in Seq(S), NEW t \in Seq(S), NEW x \in S
  PROVE  /\ IsPrefix(t, t)
         /\ IsPrefix(s, t) => IsPrefix(s, Append(t, x))
<1>1. IsPrefix(t, t)
  BY PrefixIs
<1>2. ASSUME IsPrefix(s, t) PROVE IsPrefix(s, Append(t, x))
  <2>1. Len(s) <= Len(t) /\ \A i \in 1..Len(s) : s[i] = t[i]
    BY <1>2, PrefixIs
  <2> DEFINE u == Append(t, x)
  <2>2. u \in Seq(S) /\ Len(u) = Len(t) + 1 /\ \A i \in 1..Len(t) : u[i] = t[i]
    OBVIOUS
  <2> HIDE DEF u
  <2>3. Len(s) <= Len(u) /\ \A i \in 1..Len(s) : s[i] = u[i]
    BY <2>1, <2>2
  <2> QED BY <2>2, <2>3, PrefixIs DEF u
<1> QED BY <1>1, <1>2

\* What is written next comes after what was promised.
LEMMA SuffixGrows ==
  ASSUME NEW S, NEW t \in Seq(S), NEW x \in S, NEW k \in 0..Len(t)
  PROVE  /\ SubSeq(t, k + 1, Len(t)) \in Seq(S)
         /\ SubSeq(t, Len(t) + 1, Len(t)) = <<>>
         /\ SubSeq(Append(t, x), k + 1, Len(Append(t, x))) = Append(SubSeq(t, k + 1, Len(t)), x)
<1> DEFINE u == Append(t, x)
           a == SubSeq(t, k + 1, Len(t))
           b == SubSeq(u, k + 1, Len(u))
           c == Append(a, x)
<1>1. /\ u \in Seq(S) /\ Len(u) = Len(t) + 1 /\ Len(t) \in Nat
      /\ \A i \in 1..Len(t) : u[i] = t[i] /\ t[i] \in S
      /\ u[Len(t) + 1] = x
  OBVIOUS
<1>2. SubSeq(t, Len(t) + 1, Len(t)) = <<>>
  BY <1>1, SubSeqEmpty
<1> HIDE DEF u
<1>3. a \in Seq(S) /\ Len(a) = Len(t) - k /\ \A i \in 1..Len(t) - k : a[i] = t[k + i]
  <2>1. \A i \in k + 1..Len(t) : t[i] \in S
    BY <1>1
  <2>2. /\ a \in Seq(S) /\ Len(a) = IF k + 1 <= Len(t) THEN Len(t) - (k + 1) + 1 ELSE 0
        /\ \A i \in 1..Len(t) - (k + 1) + 1 : a[i] = t[k + 1 + i - 1]
    BY <1>1, <2>1, SubSeqProperties
  <2> HIDE DEF a
  <2> QED BY <1>1, <2>2
<1>4. b \in Seq(S) /\ Len(b) = Len(t) + 1 - k /\ \A i \in 1..Len(t) + 1 - k : b[i] = u[k + i]
  <2>1. \A i \in k + 1..Len(u) : u[i] \in S
    BY <1>1
  <2>2. /\ b \in Seq(S) /\ Len(b) = IF k + 1 <= Len(u) THEN Len(u) - (k + 1) + 1 ELSE 0
        /\ \A i \in 1..Len(u) - (k + 1) + 1 : b[i] = u[k + 1 + i - 1]
    BY <1>1, <2>1, SubSeqProperties
  <2> HIDE DEF b
  <2> QED BY <1>1, <2>2
<1> HIDE DEF a, b
<1>5. c \in Seq(S) /\ Len(c) = Len(t) - k + 1 /\ c[Len(t) - k + 1] = x
      /\ \A i \in 1..Len(t) - k : c[i] = a[i]
  BY <1>3
<1> HIDE DEF c
<1>6. b = c
  <2>1. ASSUME NEW i \in 1..Len(b) PROVE b[i] = c[i]
    <3>1. CASE i = Len(t) + 1 - k
      <4>1. k + i = Len(t) + 1
        BY <1>1, <3>1
      <4> QED BY <1>1, <1>4, <1>5, <3>1, <4>1
    <3>2. CASE i # Len(t) + 1 - k
      <4>1. i \in 1..Len(t) - k /\ k + i \in 1..Len(t) /\ i \in 1..Len(t) + 1 - k
        <5> DEFINE l == Len(t)
        <5>1. l \in Nat /\ i \in 1..l + 1 - k
          BY <1>1, <1>4
        <5> HIDE DEF l
        <5>2. i \in 1..l - k /\ k + i \in 1..l
          BY <3>2, <5>1 DEF l
        <5> QED BY <5>1, <5>2 DEF l
      <4>2. b[i] = u[k + i] /\ u[k + i] = t[k + i]
        BY <1>1, <1>4, <4>1, Zenon
      <4>3. c[i] = a[i] /\ a[i] = t[k + i]
        BY <1>3, <1>5, <4>1, Zenon
      <4> QED BY <4>2, <4>3
    <3> QED BY <3>1, <3>2
  <2>2. Len(b) = Len(c)
    BY <1>1, <1>4, <1>5
  <2> QED BY <1>4, <1>5, <2>1, <2>2, SeqEqual
<1> QED BY <1>2, <1>3, <1>6 DEF a, b, c, u

LEMMA Least ==
  ASSUME NEW S, S \subseteq Nat, S # {}
  PROVE  \E k \in S : \A i \in S : k <= i
<1>1. PICK k \in S : \A i \in S : ~ (<<i, k>> \in OpToRel(<, Nat))
  BY NatLessThanWellFounded, WFMin
<1>2. ASSUME NEW i \in S, i < k PROVE FALSE
  BY <1>1, <1>2 DEF OpToRel
<1>3. \A i \in S : k <= i
  BY <1>2
<1> QED BY <1>3

\* The items of w among the first i items of s, for every i up to m.
Picked(g, s, w, m) ==
  /\ g[0] = <<>>
  /\ \A i \in 1..m : g[i] = IF By(s[i], w) THEN Append(g[i - 1], s[i]) ELSE g[i - 1]

LEMMA PickedExists ==
  ASSUME NEW s \in Seq(Item), NEW w
  PROVE  \E g \in [0..Len(s) -> Seq(Item)] : Picked(g, s, w, Len(s))
<1> DEFINE Has(m) == \E g \in [0..m -> Seq(Item)] : Picked(g, s, w, m)
           Lacks  == {m \in 0..Len(s) : ~Has(m)}
<1>1. Has(0)
  <2>1. /\ [i \in 0..0 |-> <<>>] \in [0..0 -> Seq(Item)]
        /\ Picked([i \in 0..0 |-> <<>>], s, w, 0)
    BY DEF Picked
  <2> QED BY <2>1
<1>2. ASSUME NEW m \in 1..Len(s), Has(m - 1) PROVE Has(m)
  <2>1. PICK g \in [0..m - 1 -> Seq(Item)] : Picked(g, s, w, m - 1)
    BY <1>2
  <2>2. PICK x : x = IF By(s[m], w) THEN Append(g[m - 1], s[m]) ELSE g[m - 1]
    OBVIOUS
  <2>3. x \in Seq(Item)
    <3>1. s[m] \in Item /\ g[m - 1] \in Seq(Item)
      OBVIOUS
    <3>2. Append(g[m - 1], s[m]) \in Seq(Item)
      BY <3>1
    <3> QED BY <2>2, <3>1, <3>2, Zenon
  <2> DEFINE h == [i \in 0..m |-> IF i = m THEN x ELSE g[i]]
  <2>4. h \in [0..m -> Seq(Item)]
    BY <2>3
  <2>5. h[0] = g[0] /\ h[m] = x /\ \A i \in 0..m - 1 : h[i] = g[i]
    OBVIOUS
  <2> HIDE DEF h
  <2>6. \A i \in 1..m : h[i] = IF By(s[i], w) THEN Append(h[i - 1], s[i]) ELSE h[i - 1]
    <3> SUFFICES ASSUME NEW i \in 1..m
                 PROVE  h[i] = IF By(s[i], w) THEN Append(h[i - 1], s[i]) ELSE h[i - 1]
      OBVIOUS
    <3>1. CASE i = m
      <4>1. h[m - 1] = g[m - 1]
        BY <2>5
      <4> QED BY <2>2, <2>5, <3>1, <4>1, Zenon
    <3>2. CASE i # m
      <4>1. i \in 1..m - 1 /\ i \in 0..m - 1 /\ i - 1 \in 0..m - 1
        BY <3>2
      <4>2. h[i] = g[i] /\ h[i - 1] = g[i - 1]
        BY <2>5, <4>1
      <4> QED BY <2>1, <4>1, <4>2, Zenon DEF Picked
    <3> QED BY <3>1, <3>2
  <2>7. Picked(h, s, w, m)
    BY <2>1, <2>5, <2>6, Zenon DEF Picked
  <2> QED BY <2>4, <2>7
<1>3. CASE Lacks # {}
  <2>1. Lacks \subseteq Nat
    OBVIOUS
  <2> HIDE DEF Has
  <2>2. PICK m \in Lacks : \A i \in Lacks : m <= i
    BY <1>3, <2>1, Least
  <2>3. m \in 1..Len(s)
    BY <1>1, <2>2
  <2>4. Has(m - 1)
    BY <2>2, <2>3
  <2> QED BY <1>2, <2>2, <2>3, <2>4
<1>4. CASE Lacks = {}
  <2>1. Len(s) \in 0..Len(s)
    OBVIOUS
  <2>2. Has(Len(s))
    BY <1>4, <2>1
  <2> QED BY <2>2
<1> QED BY <1>3, <1>4

LEMMA PickedUnique ==
  ASSUME NEW s, NEW w, NEW m \in Nat, NEW g, Picked(g, s, w, m), NEW h, Picked(h, s, w, m)
  PROVE  \A i \in 0..m : h[i] = g[i]
<1> DEFINE Differ == {i \in 0..m : h[i] # g[i]}
<1> SUFFICES ASSUME Differ # {} PROVE FALSE
  OBVIOUS
<1>1. PICK i \in Differ : \A j \in Differ : i <= j
  <2>1. Differ \subseteq Nat
    OBVIOUS
  <2> HIDE DEF Differ
  <2> QED BY <2>1, Least
<1>2. i # 0
  BY DEF Picked
<1>3. i \in 1..m /\ i - 1 \in 0..m /\ i - 1 \notin Differ
  BY <1>1, <1>2
<1>4. h[i - 1] = g[i - 1] /\ h[i] # g[i]
  BY <1>1, <1>3
<1> QED BY <1>3, <1>4, Zenon DEF Picked

LEMMA ItemsOfIs ==
  ASSUME NEW s \in Seq(Item), NEW w, NEW g \in [0..Len(s) -> Seq(Item)], Picked(g, s, w, Len(s))
  PROVE  ItemsOf(s, w) = g[Len(s)]
<1> DEFINE Picks(f) == f = [i \in 0..Len(s) |->
                             IF i = 0 THEN <<>>
                             ELSE IF By(s[i], w) THEN Append(f[i - 1], s[i]) ELSE f[i - 1]]
<1>0. Len(s) \in Nat /\ Len(s) \in 0..Len(s)
  OBVIOUS
<1>1. Picks(g)
  <2>1. \A i \in 0..Len(s) : g[i] = IF i = 0 THEN <<>>
                                    ELSE IF By(s[i], w) THEN Append(g[i - 1], s[i]) ELSE g[i - 1]
    <3>1. \A i \in 0..Len(s) : i = 0 \/ i \in 1..Len(s)
      BY <1>0
    <3> QED BY <3>1, Zenon DEF Picked
  <2> QED BY <2>1
<1>2. ASSUME NEW f, Picks(f) PROVE f[Len(s)] = g[Len(s)]
  <2>1. Picked(f, s, w, Len(s))
    <3>1. f[0] = <<>>
      BY <1>0, <1>2
    <3>2. \A i \in 1..Len(s) : i \in 0..Len(s) /\ i # 0
      BY <1>0
    <3>3. \A i \in 1..Len(s) : f[i] = IF By(s[i], w) THEN Append(f[i - 1], s[i]) ELSE f[i - 1]
      BY <1>2, <3>2, Zenon
    <3> QED BY <3>1, <3>3, Zenon DEF Picked
  <2> QED BY <1>0, <2>1, PickedUnique
<1>3. Picks(CHOOSE f : Picks(f))
  BY <1>1, Zenon
<1> HIDE DEF Picks
<1>4. ItemsOf(s, w) = (CHOOSE f : Picks(f))[Len(s)]
  BY DEF ItemsOf, Picks
<1> QED BY <1>2, <1>3, <1>4

\* One more item is one more of those of w or is not one of them.
LEMMA ItemsOfGrows ==
  ASSUME NEW s \in Seq(Item), NEW x \in Item, NEW w
  PROVE  /\ ItemsOf(<<>>, w) = <<>>
         /\ ItemsOf(s, w) \in Seq(Item)
         /\ ItemsOf(Append(s, x), w) = IF By(x, w) THEN Append(ItemsOf(s, w), x) ELSE ItemsOf(s, w)
<1> DEFINE t == Append(s, x)
<1>1. /\ t \in Seq(Item) /\ Len(t) = Len(s) + 1 /\ t[Len(s) + 1] = x /\ Len(s) \in Nat
      /\ \A i \in 1..Len(s) : t[i] = s[i]
  OBVIOUS
<1>2. PICK g \in [0..Len(s) -> Seq(Item)] : Picked(g, s, w, Len(s))
  BY PickedExists
<1>3. PICK h \in [0..Len(t) -> Seq(Item)] : Picked(h, t, w, Len(t))
  BY <1>1, PickedExists
<1> HIDE DEF t
<1>4. Picked(h, s, w, Len(s))
  <2>1. \A i \in 1..Len(s) : i \in 1..Len(t) /\ t[i] = s[i]
    BY <1>1
  <2> QED BY <1>3, <2>1, Zenon DEF Picked
<1>5. h[Len(s)] = g[Len(s)]
  BY <1>1, <1>2, <1>4, PickedUnique
<1>6. h[Len(t)] = IF By(x, w) THEN Append(h[Len(s)], x) ELSE h[Len(s)]
  <2>1. Len(t) \in 1..Len(t) /\ Len(t) - 1 = Len(s) /\ t[Len(t)] = x
    BY <1>1
  <2> QED BY <1>3, <2>1, Zenon DEF Picked
<1>7. ItemsOf(s, w) = g[Len(s)] /\ ItemsOf(t, w) = h[Len(t)]
  BY <1>1, <1>2, <1>3, ItemsOfIs
<1>8. ItemsOf(<<>>, w) = <<>>
  <2>1. <<>> \in Seq(Item) /\ Len(<<>>) = 0
    OBVIOUS
  <2>2. PICK f \in [0..0 -> Seq(Item)] : Picked(f, <<>>, w, 0)
    BY <2>1, PickedExists
  <2>3. ItemsOf(<<>>, w) = f[0]
    BY <2>1, <2>2, ItemsOfIs
  <2> QED BY <2>2, <2>3, Zenon DEF Picked
<1>9. g[Len(s)] \in Seq(Item)
  BY <1>1, <1>2
<1> QED BY <1>5, <1>6, <1>7, <1>8, <1>9 DEF t

-----------------------------------------------------------------------------
(* Types.                                                                  *)

Typed == /\ routes \subseteq Writers \X Virtuals
         /\ writing \in [Writers -> Seq(Stamp)]
         /\ queue \in Seq(Entry)
         /\ writes \in Nat
         /\ conn \subseteq Writers
         /\ parser \in [Streams -> ParserState]
         /\ stream \in [Streams -> Seq(Item)]
         /\ written \in [Writers -> Seq(Item)]
         /\ since \in [Writers -> Nat]
         /\ \A w \in Writers : since[w] <= Len(written[w])
         /\ fresh \subseteq conn
         /\ clean \subseteq fresh
         /\ mixed \subseteq Virtuals

LEMMA InputIs ==
  ASSUME NEW item \in Input
  PROVE  \/ item \in Item /\ item.type = "event"
         \/ /\ item.type = "piece"
            /\ \E n \in Stamp, first, last \in BOOLEAN : item = Piece(n, first, last)
<1>1. CASE item \in EventItem
  BY <1>1 DEF EventItem, Item
<1>2. CASE item \in PieceItem
  <2>1. PICK n \in Stamp, first \in BOOLEAN, last \in BOOLEAN : item = Piece(n, first, last)
    BY <1>2 DEF PieceItem
  <2>2. item.type = "piece"
    BY <2>1, PieceIs
  <2> QED BY <2>1, <2>2, Zenon
<1> QED BY <1>1, <1>2 DEF Input

LEMMA FedTyped ==
  ASSUME NEW r \in Reading, NEW item \in Input
  PROVE  Fed(r, item) \in Reading
<1>1. r.p \in ParserState /\ r.s \in Seq(Item)
  BY DEF Reading
<1>2. CASE item \in Item /\ item.type = "event"
  <2>1. Append(r.s, item) \in Seq(Item)
    BY <1>1, <1>2
  <2>2. Fed(r, item) = [p |-> r.p, s |-> Append(r.s, item)]
    BY <1>2 DEF Fed
  <2> QED BY <1>1, <2>1, <2>2 DEF Reading
<1>3. CASE item.type = "piece" /\ \E n \in Stamp, first, last \in BOOLEAN : item = Piece(n, first, last)
  <2> DEFINE a == Pushed(r.p, item)
  <2>1. PICK n \in Stamp, first \in BOOLEAN, last \in BOOLEAN : item = Piece(n, first, last)
    BY <1>3
  <2>2. a.next \in ParserState /\ a.out \in Seq(Item)
    BY <1>1, <2>1, PieceWhole
  <2>3. Fed(r, item) = [p |-> a.next, s |-> r.s \o a.out]
    BY <1>3 DEF Fed
  <2> HIDE DEF a
  <2>4. r.s \o a.out \in Seq(Item)
    BY <1>1, <2>2
  <2> QED BY <2>2, <2>3, <2>4 DEF Reading
<1> QED BY <1>2, <1>3, InputIs, Zenon

-----------------------------------------------------------------------------
(* A run of a stream: what it comes to as the queue is taken, entry by     *)
(* entry.                                                                  *)

Gets(s, ev) == \/ s \in Virtuals /\ ev.dest = s
               \/ s \in Writers /\ ev.src = s

Then(s, r, ev) == IF Gets(s, ev) THEN Fed(r, ev.item) ELSE r

Run(R, s) == /\ R \in [0..Len(queue) -> Reading]
             /\ R[0] = [p |-> parser[s], s |-> stream[s]]
             /\ \A i \in 1..Len(queue) : R[i] = Then(s, R[i - 1], queue[i])

\* Taking an entry leaves the rest of the run.
LEMMA TakeRun ==
  ASSUME Typed, NEW s \in Virtuals \cup conn, NEW R, Run(R, s), RouteEvent \/ RoutePiece
  PROVE  /\ Len(queue) \in Nat \ {0} /\ Len(queue') = Len(queue) - 1
         /\ \E Q : Run(Q, s)' /\ \A i \in 0..Len(queue') : Q[i] = R[i + 1]
<1> DEFINE n  == Len(queue)
           ev == Head(queue)
<1>1. queue # <<>> /\ queue' = Tail(queue) /\ queue \in Seq(Entry) /\ s \in Streams
  BY DEF RouteEvent, RoutePiece, Take, Typed, Streams
<1>2. /\ n \in Nat \ {0} /\ Len(queue') = n - 1 /\ ev \in Entry /\ ev = queue[1]
      /\ \A i \in 1..n - 1 : queue'[i] = queue[i + 1]
      /\ \A i \in 1..n : queue[i] \in Entry
  BY <1>1
<1>3. s \in Targets(ev) <=> Gets(s, ev)
  <2>1. Writers \cap Virtuals = {} /\ conn \subseteq Writers
    BY DEF Typed
  <2> QED BY <2>1 DEF Targets, Gets
<1>4. [p |-> parser'[s], s |-> stream'[s]] = Then(s, R[0], ev)
  <2>0. R[0] = [p |-> parser[s], s |-> stream[s]] /\ R[0].p = parser[s] /\ R[0].s = stream[s]
    BY DEF Run
  <2>1. CASE RouteEvent
    <3>1. /\ ev.item.type = "event" /\ parser' = parser
          /\ stream' = [t \in Streams |-> IF t \in Targets(ev) THEN Append(stream[t], ev.item)
                                          ELSE stream[t]]
      BY <2>1, Zenon DEF RouteEvent
    <3>2. stream'[s] = IF s \in Targets(ev) THEN Append(stream[s], ev.item) ELSE stream[s]
      BY <1>1, <3>1
    <3> QED BY <1>3, <2>0, <3>1, <3>2, Zenon DEF Then, Fed
  <2>2. CASE RoutePiece
    <3> DEFINE after == [t \in Targets(ev) |-> Pushed(parser[t], ev.item)]
    <3>1. /\ ev.item.type = "piece"
          /\ parser' = [t \in Streams |-> IF t \in Targets(ev) THEN after[t].next ELSE parser[t]]
          /\ stream' = [t \in Streams |-> IF t \in Targets(ev) THEN stream[t] \o after[t].out
                                          ELSE stream[t]]
      BY <2>2, Zenon DEF RoutePiece
    <3>2. s \in Targets(ev) => after[s] = Pushed(parser[s], ev.item)
      OBVIOUS
    <3> HIDE DEF after
    <3>3. /\ parser'[s] = IF s \in Targets(ev) THEN after[s].next ELSE parser[s]
          /\ stream'[s] = IF s \in Targets(ev) THEN stream[s] \o after[s].out ELSE stream[s]
      BY <1>1, <3>1
    <3>4. ev.item.type # "event"
      BY <3>1
    <3> QED BY <1>3, <2>0, <3>2, <3>3, <3>4, Zenon DEF Then, Fed
  <2> QED BY <2>1, <2>2
<1>5. PICK Q : Q = [i \in 0..n - 1 |-> R[i + 1]]
  OBVIOUS
<1>6. Q \in [0..n - 1 -> Reading] /\ \A i \in 0..n - 1 : Q[i] = R[i + 1]
  <2>1. \A i \in 0..n - 1 : R[i + 1] \in Reading
    BY <1>2 DEF Run
  <2> QED BY <1>5, <2>1
<1>7. R[1] = Then(s, R[0], ev)
  <2>1. 1 \in 1..n /\ 1 - 1 = 0
    BY <1>2
  <2> QED BY <1>2, <2>1 DEF Run
<1>8. Q[0] = [p |-> parser'[s], s |-> stream'[s]]
  <2>1. Q[0] = R[1]
    BY <1>2, <1>6
  <2> QED BY <1>4, <1>7, <2>1
<1>9. ASSUME NEW i \in 1..n - 1 PROVE Q[i] = Then(s, Q[i - 1], queue'[i])
  <2>1. i \in 0..n - 1 /\ i - 1 \in 0..n - 1 /\ i + 1 \in 1..n /\ i - 1 + 1 = i /\ i + 1 - 1 = i
    BY <1>2
  <2>2. Q[i] = R[i + 1] /\ Q[i - 1] = R[i] /\ queue'[i] = queue[i + 1]
    BY <1>2, <1>6, <2>1
  <2>3. R[i + 1] = Then(s, R[i], queue[i + 1])
    <3>1. \A k \in 1..n : R[k] = Then(s, R[k - 1], queue[k])
      BY Zenon DEF Run
    <3>2. PICK k : k = i + 1
      OBVIOUS
    <3>3. k \in 1..n /\ k - 1 = i
      BY <2>1, <3>2
    <3>4. R[k] = Then(s, R[k - 1], queue[k])
      BY <3>1, <3>3, Zenon
    <3> QED BY <3>2, <3>3, <3>4, Zenon
  <2> QED BY <2>2, <2>3
<1>10. Run(Q, s)'
  BY <1>2, <1>6, <1>8, <1>9, Zenon DEF Run
<1> QED BY <1>2, <1>6, <1>10

\* The entry of new that the stream gets is the one at j, and there is none if j is past them.
Once(s, new, j) == \A k \in 1..Len(new) : Gets(s, new[k]) <=> k = j

Longer(R, s, new, j, X) ==
  /\ Len(queue) \in Nat /\ Len(queue') \in Nat /\ Len(queue') >= Len(queue)
  /\ \E Q : /\ Run(Q, s)'
            /\ \A i \in 0..Len(queue) : Q[i] = R[i]
            /\ \A i \in Len(queue)..Len(queue') :
                 Q[i] = R[Len(queue)] \/ (j <= Len(new) /\ Q[i] = X)
            /\ Q[Len(queue')] = IF j <= Len(new) THEN X ELSE R[Len(queue)]

\* What is delivered lengthens the run, by one item if one of it is for the stream.
LEMMA AppendRun ==
  ASSUME Typed, NEW s, NEW R, Run(R, s),
         NEW new \in Seq(Entry), queue' = queue \o new, parser' = parser, stream' = stream,
         NEW j \in 1..Len(new) + 1, Once(s, new, j),
         NEW X \in Reading, j <= Len(new) => X = Fed(R[Len(queue)], new[j].item)
  PROVE  Longer(R, s, new, j, X)
<1> DEFINE n == Len(queue)
           m == Len(new)
           q == queue \o new
<1>1. /\ queue \in Seq(Entry) /\ n \in Nat /\ m \in Nat /\ q \in Seq(Entry) /\ Len(q) = n + m
      /\ \A i \in 1..n : q[i] = queue[i]
      /\ \A k \in 1..m : q[n + k] = new[k]
      /\ j \in Nat /\ \A k \in 1..m : Gets(s, new[k]) <=> k = j
  BY DEF Typed, Once
<1>2. queue' = q
  OBVIOUS
<1> HIDE DEF q
<1>3. /\ R \in [0..n -> Reading] /\ R[n] \in Reading
      /\ R[0] = [p |-> parser[s], s |-> stream[s]]
      /\ \A k \in 1..n : R[k] = Then(s, R[k - 1], queue[k])
  <2>1. R \in [0..n -> Reading]
    BY Zenon DEF Run
  <2>2. R[n] \in Reading
    BY <1>1, <2>1
  <2> QED BY <2>1, <2>2, Zenon DEF Run
<1>4. PICK Q : Q = [i \in 0..n + m |-> IF i <= n THEN R[i] ELSE IF i < n + j THEN R[n] ELSE X]
  OBVIOUS
<1>5. /\ \A i \in 0..n : Q[i] = R[i]
      /\ \A i \in n..n + m : i < n + j => Q[i] = R[n]
      /\ \A i \in n..n + m : ~(i < n + j) => Q[i] = X
      /\ Q \in [0..n + m -> Reading]
  BY <1>1, <1>3, <1>4
<1>6. ASSUME NEW i \in 1..n + m PROVE Q[i] = Then(s, Q[i - 1], q[i])
  <2>1. CASE i <= n
    <3>1. i \in 0..n /\ i - 1 \in 0..n /\ i \in 1..n
      BY <1>1, <2>1
    <3>2. Q[i] = R[i] /\ Q[i - 1] = R[i - 1] /\ q[i] = queue[i]
      BY <1>1, <1>5, <3>1
    <3>3. R[i] = Then(s, R[i - 1], queue[i])
      BY <1>3, <3>1
    <3> QED BY <3>2, <3>3, Zenon
  <2>2. CASE ~(i <= n)
    <3>1. PICK k \in 1..m : i = n + k
      <4>1. i - n \in 1..m /\ i = n + (i - n)
        BY <1>1, <2>2
      <4> QED BY <4>1
    <3>2. q[i] = new[k] /\ i \in n..n + m /\ i - 1 \in n..n + m
      BY <1>1, <3>1
    <3>3. CASE k < j
      <4>1. i < n + j /\ i - 1 < n + j /\ k # j
        BY <1>1, <3>1, <3>3
      <4>2. Q[i] = R[n] /\ Q[i - 1] = R[n]
        BY <1>5, <3>2, <4>1
      <4>3. ~Gets(s, q[i])
        BY <1>1, <3>1, <3>2, <4>1
      <4> QED BY <4>2, <4>3, Zenon DEF Then
    <3>4. CASE k = j
      <4>1. ~(i < n + j) /\ i - 1 < n + j /\ j <= m
        BY <1>1, <3>1, <3>4
      <4>2. Q[i] = X /\ Q[i - 1] = R[n]
        BY <1>5, <3>2, <4>1
      <4>3. Gets(s, q[i]) /\ X = Fed(R[n], q[i].item)
        BY <1>1, <3>1, <3>2, <3>4, <4>1
      <4> QED BY <4>2, <4>3, Zenon DEF Then
    <3>5. CASE k > j
      <4>1. ~(i < n + j) /\ ~(i - 1 < n + j) /\ k # j
        BY <1>1, <3>1, <3>5
      <4>2. Q[i] = X /\ Q[i - 1] = X
        BY <1>5, <3>2, <4>1
      <4>3. ~Gets(s, q[i])
        BY <1>1, <3>1, <3>2, <4>1
      <4> QED BY <4>2, <4>3, Zenon DEF Then
    <3> QED BY <1>1, <3>1, <3>3, <3>4, <3>5
  <2> QED BY <2>1, <2>2
<1>7. Run(Q, s)'
  <2>1. Q[0] = [p |-> parser'[s], s |-> stream'[s]]
    BY <1>1, <1>3, <1>5
  <2>2. Len(queue') = n + m
    BY <1>1, <1>2
  <2>3. \A i \in 1..Len(queue') : Q[i] = Then(s, Q[i - 1], queue'[i])
    BY <1>2, <1>6, <2>2
  <2> QED BY <1>5, <2>1, <2>2, <2>3, Zenon DEF Run
<1>8. \A i \in n..n + m : Q[i] = R[n] \/ (j <= m /\ Q[i] = X)
  <2> SUFFICES ASSUME NEW i \in n..n + m PROVE Q[i] = R[n] \/ (j <= m /\ Q[i] = X)
    OBVIOUS
  <2>1. ~(i < n + j) => j <= m
    BY <1>1
  <2> QED BY <1>5, <2>1
<1>9. Q[n + m] = IF j <= m THEN X ELSE R[n]
  <2>1. n + m \in n..n + m /\ (j <= m <=> ~(n + m < n + j))
    BY <1>1
  <2> QED BY <1>5, <2>1
<1>10. Len(queue') = n + m /\ n + m \in Nat /\ n + m >= n
  BY <1>1, <1>2
<1> QED BY <1>1, <1>5, <1>7, <1>8, <1>9, <1>10 DEF Longer

\* The ports of ours that a stream's items come through.
Reaches(w, s) == s = w \/ <<w, s>> \in routes

\* What w writes is for its own connection and the virtual destinations it is
\* subscribed to, once for each.
LEMMA DeliverIs ==
  ASSUME Typed, NEW w \in Writers, NEW item \in Input, Deliver(w, item)
  PROVE  \E new \in Seq(Entry) :
           /\ queue' = queue \o new
           /\ \A s \in Streams : (s \in Writers => s \in conn /\ ~OnRoute(s)) =>
                \E j \in 1..Len(new) + 1 :
                  /\ \A k \in 1..Len(new) : Gets(s, new[k]) <=> k = j
                  /\ j <= Len(new) <=> Reaches(w, s)
                  /\ j <= Len(new) => new[j].item = item
<1>1. PICK order \in SetToSeqs(Copies(w)) :
        queue' = queue \o [i \in DOMAIN order |-> [src |-> w, dest |-> order[i], item |-> item]]
  BY Zenon DEF Deliver
<1> DEFINE C == Copies(w)
           c == Cardinality(C)
           new == [i \in 1..c |-> [src |-> w, dest |-> order[i], item |-> item]]
<1>2. /\ order \in [1..c -> C]
      /\ \A i, k \in 1..c : i # k => order[i] # order[k]
  BY DEF SetToSeqs
<1>3. IsFiniteSet(C) /\ c \in Nat /\ C \subseteq Virtuals \cup {In}
  <2>1. C \subseteq Virtuals \cup {In}
    BY DEF Copies
  <2>2. IsFiniteSet(Virtuals \cup {In})
    BY FS_Singleton, FS_Union
  <2> HIDE DEF C
  <2> QED BY <2>1, <2>2, FS_Subset, FS_CardinalityType
<1>4. \A d \in C : \E i \in 1..c : order[i] = d
  <2> HIDE DEF C
  <2> SUFFICES ASSUME NEW d \in C, \A i \in 1..c : order[i] # d PROVE FALSE
    OBVIOUS
  <2> DEFINE S == 1..c
             T == C \ {d}
  <2>1. IsFiniteSet(S) /\ Cardinality(S) = c
    BY <1>3, FS_Interval
  <2>2. IsFiniteSet(T) /\ Cardinality(T) = c - 1
    BY <1>3, FS_RemoveElement
  <2>3. order \in [S -> T]
    BY <1>2
  <2> HIDE DEF S, T, c
  <2>4. Cardinality(T) < Cardinality(S)
    BY <1>3, <2>1, <2>2
  <2>5. PICK i \in S, k \in S : i # k /\ order[i] = order[k]
    BY <2>1, <2>2, <2>3, <2>4, FS_PigeonHole
  <2> QED BY <1>2, <2>5 DEF S
<1>5. DOMAIN order = 1..c
  BY <1>2
<1>6. queue' = queue \o new
  BY <1>1, <1>5
<1> HIDE DEF C, c
<1>7. new \in Seq(Entry) /\ Len(new) = c
  <2>1. \A i \in 1..c : new[i] \in Entry
    BY <1>2, <1>3 DEF Entry
  <2> QED BY <1>3, <2>1
<1>8. \A i \in 1..c : new[i].src = w /\ new[i].dest = order[i] /\ new[i].item = item
  OBVIOUS
<1> HIDE DEF new
<1>9. ASSUME NEW s \in Streams, s \in Writers => s \in conn /\ ~OnRoute(s)
      PROVE  \E j \in 1..c + 1 : /\ \A k \in 1..c : Gets(s, new[k]) <=> k = j
                                 /\ j <= c <=> Reaches(w, s)
                                 /\ j <= c => new[j].item = item
  <2>0. (s \in Virtuals /\ s \notin Writers) \/ (s \in Writers /\ s \notin Virtuals)
    BY DEF Streams
  <2>1. CASE Reaches(w, s)
    <3>1. PICK d \in C : \A k \in 1..c : Gets(s, new[k]) <=> order[k] = d
      <4>1. CASE s \in Virtuals /\ s \notin Writers
        <5>1. <<w, s>> \in routes
          BY <2>1, <4>1 DEF Reaches
        <5>2. s \in C
          BY <4>1, <5>1 DEF C, Copies
        <5> QED BY <1>8, <4>1, <5>2, Zenon DEF Gets
      <4>2. CASE s \in Writers /\ s \notin Virtuals
        <5>1. s = w /\ s \in conn /\ ~OnRoute(w)
          BY <1>9, <2>1, <4>2 DEF Reaches, Typed
        <5>2. C = {In}
          BY <5>1 DEF C, Copies, OnRoute
        <5>3. \A k \in 1..c : order[k] = In
          BY <1>2, <5>2
        <5> QED BY <1>8, <4>2, <5>1, <5>2, <5>3, Zenon DEF Gets
      <4> QED BY <2>0, <4>1, <4>2
    <3>2. PICK j \in 1..c : order[j] = d
      BY <1>4
    <3>3. \A k \in 1..c : Gets(s, new[k]) <=> k = j
      BY <1>2, <3>1, <3>2, Zenon
    <3>4. j \in 1..c + 1 /\ j <= c
      BY <1>3
    <3> QED BY <1>8, <2>1, <3>3, <3>4, Zenon
  <2>2. CASE ~Reaches(w, s)
    <3>1. ASSUME NEW k \in 1..c PROVE ~Gets(s, new[k])
      <4>1. order[k] \in C
        BY <1>2
      <4>2. CASE s \in Virtuals /\ s \notin Writers
        <5>1. order[k] # s
          BY <2>2, <4>1, <4>2 DEF C, Copies, Reaches
        <5> QED BY <1>8, <4>2, <5>1, Zenon DEF Gets
      <4>3. CASE s \in Writers /\ s \notin Virtuals
        <5>1. s # w
          BY <2>2 DEF Reaches
        <5> QED BY <1>8, <4>3, <5>1, Zenon DEF Gets
      <4> QED BY <2>0, <4>2, <4>3
    <3>2. c + 1 \in 1..c + 1 /\ ~(c + 1 <= c) /\ \A k \in 1..c : k # c + 1
      BY <1>3
    <3> QED BY <2>2, <3>1, <3>2, Zenon
  <2> QED BY <2>1, <2>2
<1>10. new \in Seq(Entry) /\ queue' = queue \o new
       /\ \A s \in Streams : (s \in Writers => s \in conn /\ ~OnRoute(s)) =>
            \E j \in 1..Len(new) + 1 :
              /\ \A k \in 1..Len(new) : Gets(s, new[k]) <=> k = j
              /\ j <= Len(new) <=> Reaches(w, s)
              /\ j <= Len(new) => new[j].item = item
  BY <1>6, <1>7, <1>9, Zenon
<1> QED BY <1>10, Zenon

Onward(R, s, w, item) ==
  /\ Len(queue) \in Nat /\ Len(queue') \in Nat /\ Len(queue') >= Len(queue)
  /\ R[Len(queue)] \in Reading
  /\ \E Q : /\ Run(Q, s)'
            /\ \A i \in 0..Len(queue') : \/ i \in 0..Len(queue) /\ Q[i] = R[i]
                                         \/ Q[i] = R[Len(queue)]
                                         \/ Reaches(w, s) /\ Q[i] = Fed(R[Len(queue)], item)
            /\ Q[Len(queue')] = IF Reaches(w, s) THEN Fed(R[Len(queue)], item)
                                                 ELSE R[Len(queue)]

\* What a write makes of a run.
LEMMA WriteRun ==
  ASSUME Typed, NEW w \in Writers, NEW item \in Input, Deliver(w, item),
         parser' = parser, stream' = stream,
         NEW s \in Streams, s \in Writers => s \in conn /\ ~OnRoute(s),
         NEW R, Run(R, s)
  PROVE  Onward(R, s, w, item)
<1>1. R[Len(queue)] \in Reading /\ Len(queue) \in Nat
  <2>1. Len(queue) \in Nat
    BY DEF Typed
  <2>2. R \in [0..Len(queue) -> Reading]
    BY Zenon DEF Run
  <2> QED BY <2>1, <2>2
<1>2. PICK new \in Seq(Entry) :
        /\ queue' = queue \o new
        /\ \A t \in Streams : (t \in Writers => t \in conn /\ ~OnRoute(t)) =>
             \E j \in 1..Len(new) + 1 :
               /\ \A k \in 1..Len(new) : Gets(t, new[k]) <=> k = j
               /\ j <= Len(new) <=> Reaches(w, t)
               /\ j <= Len(new) => new[j].item = item
  BY DeliverIs
<1>3. PICK j \in 1..Len(new) + 1 :
               /\ \A k \in 1..Len(new) : Gets(s, new[k]) <=> k = j
               /\ j <= Len(new) <=> Reaches(w, s)
               /\ j <= Len(new) => new[j].item = item
  BY <1>2, Zenon
<1>4. PICK X \in Reading : X = Fed(R[Len(queue)], item)
  BY <1>1, FedTyped
<1>5. j <= Len(new) => X = Fed(R[Len(queue)], new[j].item)
  BY <1>3, <1>4, Zenon
<1>6. Longer(R, s, new, j, X)
  <2>1. queue' = queue \o new /\ Once(s, new, j)
    BY <1>2, <1>3, Zenon DEF Once
  <2>2. new \in Seq(Entry) /\ j \in 1..Len(new) + 1 /\ X \in Reading
    BY <1>2, <1>3, <1>4
  <2> QED BY <1>5, <2>1, <2>2, AppendRun, Zenon
<1>7. PICK Q : /\ Run(Q, s)'
               /\ \A i \in 0..Len(queue) : Q[i] = R[i]
               /\ \A i \in Len(queue)..Len(queue') :
                    Q[i] = R[Len(queue)] \/ (j <= Len(new) /\ Q[i] = X)
               /\ Q[Len(queue')] = IF j <= Len(new) THEN X ELSE R[Len(queue)]
  BY <1>6, Zenon DEF Longer
<1>0. Len(queue) \in Nat /\ Len(queue') \in Nat /\ Len(queue') >= Len(queue)
  BY <1>6, Zenon DEF Longer
<1>8. \A i \in 0..Len(queue') : i \in 0..Len(queue) \/ i \in Len(queue)..Len(queue')
  BY <1>0
<1>9. \A i \in 0..Len(queue') : \/ i \in 0..Len(queue) /\ Q[i] = R[i]
                                \/ Q[i] = R[Len(queue)]
                                \/ Reaches(w, s) /\ Q[i] = Fed(R[Len(queue)], item)
  BY <1>3, <1>4, <1>7, <1>8, Zenon
<1>10. Q[Len(queue')] = IF Reaches(w, s) THEN Fed(R[Len(queue)], item) ELSE R[Len(queue)]
  BY <1>3, <1>4, <1>7, Zenon
<1> QED BY <1>0, <1>1, <1>7, <1>9, <1>10, Zenon DEF Onward

LEMMA RunStays ==
  ASSUME NEW s, NEW R, Run(R, s), queue' = queue, parser'[s] = parser[s], stream'[s] = stream[s]
  PROVE  Run(R, s)'
BY Zenon DEF Run

-----------------------------------------------------------------------------
(* The invariant.                                                          *)

\* A SysEx is made of pieces of its writer.
OwnPieces == \A w \in Writers : \A i \in DOMAIN writing[w] : writing[w][i][1] = w

\* In the end a connection has what is promised and is amid what its source is.
ConnectionRun(w, R) ==
  /\ Run(R, w)
  /\ R[Len(queue)] = [p |-> At(writing[w]), s |-> Promised(w)]
  /\ \A i \in 0..Len(queue) : IsPrefix(R[i].s, Promised(w))

ConnectionOK == \A w \in clean : ~OnRoute(w) => \E R : ConnectionRun(w, R)

Whole(s, t) ==
  \A k \in DOMAIN s : s[k].type = "sysex" => \E j \in DOMAIN t : t[j] = s[k]

\* In the end a parser that is amid a SysEx has it from its first piece.
SysexRun(w, R) ==
  /\ Run(R, w)
  /\ R[Len(queue)].p.at = "sysex" =>
       writing[w] # <<>> /\ R[Len(queue)].p.pieces = writing[w]
  /\ \A i \in 0..Len(queue) : Whole(R[i].s, written[w])

SysexOK == \A w \in fresh : ~OnRoute(w) => \E R : SysexRun(w, R)

\* One writer at a time is amid a SysEx to v.
Alone(v) == \A u, w \in Writers : /\ <<u, v>> \in routes /\ writing[u] # <<>>
                                  /\ <<w, v>> \in routes /\ writing[w] # <<>>
                                  => u = w

FromRoutes(s, v) == \A k \in DOMAIN s : \E w \in Writers : <<w, v>> \in routes /\ By(s[k], w)

\* What a parser of v is when it is amid the SysEx that a writer of v is amid.
Amid(p, v) ==
  /\ \A u \in Writers : <<u, v>> \in routes /\ writing[u] # <<>> => p = Open(writing[u])
  /\ (\A u \in Writers : <<u, v>> \in routes => writing[u] = <<>>) => p = Closed

\* In the end a virtual destination has what each of its writers wrote and is
\* amid what one of them is.
VirtualRun(v, R) ==
  /\ Run(R, v)
  /\ Amid(R[Len(queue)].p, v)
  /\ \A i \in 0..Len(queue) : FromRoutes(R[i].s, v)
  /\ \A w \in Writers : <<w, v>> \in routes =>
       /\ ItemsOf(R[Len(queue)].s, w) = written[w]
       /\ \A i \in 0..Len(queue) : IsPrefix(ItemsOf(R[i].s, w), written[w])

VirtualOK == \A v \in Virtuals \ mixed : Alone(v) /\ \E R : VirtualRun(v, R)

Consistent == Typed /\ OwnPieces /\ ConnectionOK /\ SysexOK /\ VirtualOK

-----------------------------------------------------------------------------
(* What is written.                                                        *)

LEMMA AppendIs ==
  ASSUME NEW S, NEW s \in Seq(S)
  PROVE  /\ \A x \in S : s \o <<x>> = Append(s, x)
         /\ s \o <<>> = s
<1>1. ASSUME NEW x \in S PROVE s \o <<x>> = Append(s, x)
  <2> DEFINE a == s \o <<x>>
             b == Append(s, x)
  <2>1. <<x>> \in Seq(S) /\ Len(<<x>>) = 1 /\ <<x>>[1] = x
    OBVIOUS
  <2>2. /\ a \in Seq(S) /\ Len(a) = Len(s) + 1 /\ a[Len(s) + 1] = x
        /\ \A i \in 1..Len(s) : a[i] = s[i]
    BY <2>1
  <2>3. /\ b \in Seq(S) /\ Len(b) = Len(s) + 1 /\ b[Len(s) + 1] = x
        /\ \A i \in 1..Len(s) : b[i] = s[i]
    OBVIOUS
  <2> HIDE DEF a, b
  <2>4. \A i \in 1..Len(a) : i \in 1..Len(s) \/ i = Len(s) + 1
    BY <2>2
  <2>5. \A i \in 1..Len(a) : a[i] = b[i]
    BY <2>2, <2>3, <2>4
  <2>6. a = b
    BY <2>2, <2>3, <2>5, SeqEqual
  <2> QED BY <2>6 DEF a, b
<1>2. s \o <<>> = s
  BY ConcatEmptySeq
<1> QED BY <1>1, <1>2

\* What the writers write is theirs alone.
LEMMA WrittenBy ==
  ASSUME NEW w \in Writers, NEW k \in Nat, NEW q \in Seq(Stamp),
         \A i \in DOMAIN q : q[i][1] = w
  PROVE  LET n == <<w, k>>
         IN /\ n \in Stamp
            /\ Event(n) \in Item /\ Event(n) \in Input /\ Event(n).type = "event"
            /\ \A u : By(Event(n), u) <=> u = w
            /\ q \o <<n>> \in Seq(Stamp) /\ q \o <<n>> # <<>>
            /\ \A i \in DOMAIN (q \o <<n>>) : (q \o <<n>>)[i][1] = w
            /\ Sysex(q \o <<n>>) \in Item
            /\ \A u : By(Sysex(q \o <<n>>), u) <=> u = w
<1> DEFINE n == <<w, k>>
           z == q \o <<n>>
<1>1. n \in Stamp /\ n[1] = w
  BY DEF Stamp
<1> HIDE DEF n
<1>2. <<n>> \in Seq(Stamp) /\ Len(<<n>>) = 1 /\ <<n>>[1] = n /\ DOMAIN <<n>> = 1..1
  BY <1>1
<1>3. Event(n) \in Item /\ Event(n) \in Input /\ Event(n).type = "event" /\ Event(n).pieces = <<n>>
  BY <1>2 DEF Event, Item, Input, EventItem
<1>4. \A u : By(Event(n), u) <=> u = w
  <2> SUFFICES ASSUME NEW u PROVE By(Event(n), u) <=> u = w
    OBVIOUS
  <2>1. By(Event(n), u) <=> \A i \in 1..1 : <<n>>[i][1] = u
    BY <1>2, <1>3, Zenon DEF By
  <2>2. 1 \in 1..1 /\ \A i \in 1..1 : i = 1
    OBVIOUS
  <2> QED BY <1>1, <1>2, <2>1, <2>2, Zenon
<1>5. /\ z \in Seq(Stamp) /\ Len(z) = Len(q) + 1 /\ z[Len(q) + 1] = n /\ Len(q) \in Nat
      /\ \A i \in 1..Len(q) : z[i] = q[i]
      /\ DOMAIN z = 1..Len(z)
  BY <1>2
<1> HIDE DEF z
<1>6. z # <<>>
  BY <1>5
<1>7. ASSUME NEW i \in DOMAIN z PROVE z[i][1] = w
  <2>1. i \in 1..Len(q) \/ i = Len(q) + 1
    BY <1>5
  <2>2. i \in 1..Len(q) => i \in DOMAIN q
    OBVIOUS
  <2> QED BY <1>1, <1>5, <2>1, <2>2, Zenon
<1>8. Sysex(z) \in Item /\ Sysex(z).pieces = z
  BY <1>5 DEF Sysex, Item
<1>9. \A u : By(Sysex(z), u) <=> u = w
  <2> SUFFICES ASSUME NEW u PROVE By(Sysex(z), u) <=> u = w
    OBVIOUS
  <2>1. PICK k0 : k0 = Len(q) + 1
    OBVIOUS
  <2>2. k0 \in DOMAIN z
    BY <1>5, <2>1
  <2>3. By(Sysex(z), u) <=> \A i \in DOMAIN z : z[i][1] = u
    BY <1>8, Zenon DEF By
  <2>4. \A i \in DOMAIN z : z[i][1] = w
    BY <1>7
  <2>5. CASE u = w
    BY <2>3, <2>4, <2>5, Zenon
  <2>6. CASE u # w
    <3>1. z[k0][1] = w
      BY <2>2, <2>4, Zenon
    <3>2. By(Sysex(z), u) => z[k0][1] = u
      BY <2>2, <2>3, Zenon
    <3> QED BY <2>6, <3>1, <3>2, Zenon
  <2> QED BY <2>5, <2>6, Zenon
<1> QED BY <1>1, <1>3, <1>4, <1>5, <1>6, <1>7, <1>8, <1>9, Zenon DEF n, z

\* What the next piece makes of a reading that has all so far.
LEMMA PieceFed ==
  ASSUME NEW q \in Seq(Stamp), NEW n \in Stamp, NEW last \in BOOLEAN, NEW s \in Seq(Item)
  PROVE  Fed([p |-> At(q), s |-> s], Piece(n, q = <<>>, last)) =
           [p |-> At(IF last THEN <<>> ELSE q \o <<n>>),
            s |-> IF last THEN Append(s, Sysex(q \o <<n>>)) ELSE s]
<1> DEFINE item == Piece(n, q = <<>>, last)
           z == q \o <<n>>
           r == [p |-> At(q), s |-> s]
           a == Pushed(At(q), item)
<1>1. a = [next |-> IF last THEN Closed ELSE Open(z), out |-> IF last THEN <<Sysex(z)>> ELSE <<>>]
  BY PieceFollows
<1>2. item.type # "event"
  BY PieceIs
<1>3. r.p = At(q) /\ r.s = s
  OBVIOUS
<1>4. z \in Seq(Stamp) /\ z # <<>> /\ Sysex(z) \in Item
  BY DEF Sysex, Item
<1> HIDE DEF item, z, r
<1>5. Fed(r, item) = [p |-> a.next, s |-> s \o a.out]
  BY <1>2, <1>3, Zenon DEF Fed
<1> HIDE DEF a
<1>6. a.next = (IF last THEN Closed ELSE Open(z)) /\ a.out = IF last THEN <<Sysex(z)>> ELSE <<>>
  BY <1>1
<1>7. s \o <<Sysex(z)>> = Append(s, Sysex(z)) /\ s \o <<>> = s
  BY <1>4, AppendIs
<1>8. At(<<>>) = Closed /\ At(z) = Open(z)
  BY <1>4, Zenon DEF At
<1>9. CASE last
  BY <1>5, <1>6, <1>7, <1>8, <1>9, Zenon DEF item, z, r
<1>10. CASE ~last
  BY <1>5, <1>6, <1>7, <1>8, <1>10, Zenon DEF item, z, r
<1> QED BY <1>9, <1>10

Writing(w) == WriteEvent(w) \/ \E last \in BOOLEAN : WritePiece(w, last)

\* A write of item, which completes x if it is done.
Writes(w, item, x, done) ==
  /\ item \in Input /\ x \in Item /\ done \in BOOLEAN
  /\ \A u : By(x, u) <=> u = w
  /\ Deliver(w, item)
  /\ written' = IF done THEN [written EXCEPT ![w] = Append(@, x)] ELSE written
  /\ writing' \in [Writers -> Seq(Stamp)]
  /\ \A u \in Writers \ {w} : writing'[u] = writing[u]
  /\ \A i \in DOMAIN writing'[w] : writing'[w][i][1] = w
  /\ writes' \in Nat /\ UNCHANGED <<routes, registry, since, fresh, clean>>
  /\ \/ item.type = "event" /\ done /\ x = item /\ UNCHANGED <<writing, mixed>>
     \/ /\ item.type # "event"
        /\ \E n \in Stamp : /\ item = Piece(n, writing[w] = <<>>, done)
                            /\ x = Sysex(writing[w] \o <<n>>)
                            /\ writing[w] \o <<n>> \in Seq(Stamp) /\ writing[w] \o <<n>> # <<>>
                            /\ writing'[w] = IF done THEN <<>> ELSE writing[w] \o <<n>>
        /\ mixed' = mixed \cup {v \in Virtuals : <<w, v>> \in routes
                      /\ \E u \in Writers \ {w} : <<u, v>> \in routes /\ writing[u] # <<>>}

LEMMA WriteIs ==
  ASSUME Typed, OwnPieces, NEW w \in Writers, Writing(w)
  PROVE  \E item, x, done : Writes(w, item, x, done)
<1> DEFINE n == <<w, writes + 1>>
           q == writing[w]
           z == q \o <<n>>
<1>1. writes \in Nat /\ writes + 1 \in Nat /\ q \in Seq(Stamp) /\ \A i \in DOMAIN q : q[i][1] = w
  BY DEF Typed, OwnPieces
<1>2. /\ n \in Stamp
      /\ Event(n) \in Item /\ Event(n) \in Input /\ Event(n).type = "event"
      /\ \A u : By(Event(n), u) <=> u = w
      /\ z \in Seq(Stamp) /\ z # <<>>
      /\ \A i \in DOMAIN z : z[i][1] = w
      /\ Sysex(z) \in Item
      /\ \A u : By(Sysex(z), u) <=> u = w
  BY <1>1, WrittenBy
<1>3. CASE WriteEvent(w)
  <2>1. /\ writes' = writes + 1 /\ UNCHANGED <<routes, registry, since, fresh, clean>>
        /\ Deliver(w, Event(n)) /\ UNCHANGED <<writing, mixed>>
        /\ written' = [written EXCEPT ![w] = Append(@, Event(n))]
    BY <1>3, Zenon DEF WriteEvent, Write, Wrote
  <2>2. /\ writing' \in [Writers -> Seq(Stamp)]
        /\ \A u \in Writers \ {w} : writing'[u] = writing[u]
        /\ \A i \in DOMAIN writing'[w] : writing'[w][i][1] = w
        /\ writes' \in Nat /\ TRUE \in BOOLEAN
    BY <1>1, <2>1 DEF Typed
  <2> HIDE DEF n
  <2>3. Writes(w, Event(n), Event(n), TRUE)
    BY <1>2, <2>1, <2>2, Zenon DEF Writes
  <2> QED BY <2>3
<1>4. ASSUME NEW last \in BOOLEAN, WritePiece(w, last) PROVE \E item, x, done : Writes(w, item, x, done)
  <2> DEFINE item == Piece(n, q = <<>>, last)
  <2>0. item.pieces = <<n>> /\ item.type = "piece"
    BY PieceIs
  <2>1. /\ writes' = writes + 1 /\ UNCHANGED <<routes, registry, since, fresh, clean>>
        /\ Deliver(w, item)
        /\ writing' = [writing EXCEPT ![w] = IF last THEN <<>> ELSE q \o item.pieces]
        /\ (IF last THEN written' = [written EXCEPT ![w] = Append(@, Sysex(q \o item.pieces))]
                    ELSE UNCHANGED written)
        /\ mixed' = mixed \cup {v \in Virtuals : <<w, v>> \in routes
                      /\ \E u \in Writers \ {w} : <<u, v>> \in routes /\ writing[u] # <<>>}
    BY <1>4, Zenon DEF WritePiece, Write, Wrote
  <2>2. /\ writing' = [writing EXCEPT ![w] = IF last THEN <<>> ELSE z]
        /\ (IF last THEN written' = [written EXCEPT ![w] = Append(@, Sysex(z))]
                    ELSE UNCHANGED written)
    BY <2>0, <2>1, Zenon
  <2>3. item \in Input
    <3>1. PICK first \in BOOLEAN : first = (q = <<>>)
      OBVIOUS
    <3>2. Piece(n, first, last) \in PieceItem
      BY <1>2 DEF PieceItem
    <3>3. item \in PieceItem
      BY <3>1, <3>2, Zenon
    <3> QED BY <3>3 DEF Input
  <2>4. writes' \in Nat
    BY <1>1, <2>1
  <2>5. item.type # "event"
    BY <2>0
  <2> HIDE DEF n, z
  <2>6. /\ writing' \in [Writers -> Seq(Stamp)]
        /\ \A u \in Writers \ {w} : writing'[u] = writing[u]
        /\ writing'[w] = IF last THEN <<>> ELSE z
    <3>1. (IF last THEN <<>> ELSE z) \in Seq(Stamp)
      BY <1>2
    <3> QED BY <2>2, <3>1 DEF Typed
  <2>7. \A i \in DOMAIN writing'[w] : writing'[w][i][1] = w
    <3>1. DOMAIN <<>> = {}
      OBVIOUS
    <3>2. CASE last
      BY <2>6, <3>1, <3>2
    <3>3. CASE ~last
      BY <1>2, <2>6, <3>3
    <3> QED BY <3>2, <3>3
  <2> HIDE DEF item
  <2>8. Writes(w, item, Sysex(z), last)
    BY <1>2, <2>1, <2>2, <2>3, <2>4, <2>5, <2>6, <2>7, Zenon DEF Writes, item, z
  <2> QED BY <2>8, Zenon
<1> QED BY <1>3, <1>4, Zenon DEF Writing

FedBy(w, item, x, done, e) ==
  /\ e.p = At(writing[w]) =>
       Fed(e, item) = [p |-> At(writing'[w]), s |-> IF done THEN Append(e.s, x) ELSE e.s]
  /\ item.type = "event" => Fed(e, item) = [p |-> e.p, s |-> Append(e.s, x)]
  /\ (e.p.at = "sysex" => writing[w] # <<>> /\ e.p.pieces = writing[w]) =>
       /\ Fed(e, item).p.at = "sysex" =>
            writing'[w] # <<>> /\ Fed(e, item).p.pieces = writing'[w]
       /\ \A k \in DOMAIN Fed(e, item).s : Fed(e, item).s[k].type = "sysex" =>
            \/ k \in DOMAIN e.s /\ Fed(e, item).s[k] = e.s[k]
            \/ done /\ Fed(e, item).s[k] = x

\* What a write makes of a reading.
LEMMA FedIs ==
  ASSUME Typed, NEW w \in Writers, NEW item, NEW x, NEW done, Writes(w, item, x, done),
         NEW e \in Reading
  PROVE  FedBy(w, item, x, done, e)
<1> DEFINE r == Fed(e, item)
<1>1. e.p \in ParserState /\ e.s \in Seq(Item) /\ e = [p |-> e.p, s |-> e.s]
      /\ x \in Item /\ item \in Input /\ done \in BOOLEAN
  <2>1. x \in Item /\ item \in Input /\ done \in BOOLEAN
    BY Zenon DEF Writes
  <2> QED BY <2>1 DEF Reading
<1>2. CASE item.type = "event" /\ done /\ x = item /\ UNCHANGED <<writing, mixed>>
  <2>1. r = [p |-> e.p, s |-> Append(e.s, x)]
    BY <1>2, Zenon DEF Fed
  <2>2. writing' = writing /\ item.type = "event" /\ done
    BY <1>2
  <2>3. /\ r.p = e.p /\ r.s = Append(e.s, x)
        /\ \A k \in DOMAIN r.s : (k \in DOMAIN e.s /\ r.s[k] = e.s[k]) \/ r.s[k] = x
    <3>1. \A k \in DOMAIN Append(e.s, x) :
            (k \in DOMAIN e.s /\ Append(e.s, x)[k] = e.s[k]) \/ Append(e.s, x)[k] = x
      BY <1>1
    <3> HIDE DEF r
    <3> QED BY <2>1, <3>1
  <2> HIDE DEF r
  <2> QED BY <2>1, <2>2, <2>3, Zenon DEF r, FedBy
<1>3. CASE /\ item.type # "event"
           /\ \E n \in Stamp : /\ item = Piece(n, writing[w] = <<>>, done)
                               /\ x = Sysex(writing[w] \o <<n>>)
                               /\ writing[w] \o <<n>> \in Seq(Stamp) /\ writing[w] \o <<n>> # <<>>
                               /\ writing'[w] = IF done THEN <<>> ELSE writing[w] \o <<n>>
  <2> DEFINE q == writing[w]
  <2>1. PICK n \in Stamp : /\ item = Piece(n, q = <<>>, done)
                           /\ x = Sysex(q \o <<n>>)
                           /\ q \o <<n>> \in Seq(Stamp) /\ q \o <<n>> # <<>>
                           /\ writing'[w] = IF done THEN <<>> ELSE q \o <<n>>
    BY <1>3, Zenon
  <2>2. q \in Seq(Stamp)
    BY DEF Typed
  <2>3. ASSUME e.p = At(q)
        PROVE  r = [p |-> At(writing'[w]), s |-> IF done THEN Append(e.s, x) ELSE e.s]
    <3>1. Fed([p |-> At(q), s |-> e.s], Piece(n, q = <<>>, done)) =
            [p |-> At(IF done THEN <<>> ELSE q \o <<n>>),
             s |-> IF done THEN Append(e.s, Sysex(q \o <<n>>)) ELSE e.s]
      BY <1>1, <2>2, PieceFed
    <3>2. e = [p |-> At(q), s |-> e.s]
      BY <1>1, <2>3, Zenon
    <3> QED BY <2>1, <3>1, <3>2, Zenon
  <2> DEFINE a == Pushed(e.p, item)
             y == IF q = <<>> THEN <<n>> ELSE e.p.pieces \o <<n>>
  <2>4. /\ a.next \in ParserState /\ a.out \in Seq(Item)
        /\ a.next.at = "sysex" => ~done /\ a.next.pieces = y /\ (q = <<>> \/ e.p.at = "sysex")
        /\ \A i \in DOMAIN a.out : a.out[i].type = "sysex" =>
             done /\ a.out[i] = Sysex(y) /\ (q = <<>> \/ e.p.at = "sysex")
    <3>1. PICK first \in BOOLEAN : first = (q = <<>>)
      OBVIOUS
    <3> DEFINE b == Pushed(e.p, Piece(n, first, done))
               z == IF first THEN <<n>> ELSE e.p.pieces \o <<n>>
    <3>2. /\ b.next \in ParserState /\ b.out \in Seq(Item)
          /\ b.next.at = "sysex" => ~done /\ b.next.pieces = z /\ (first \/ e.p.at = "sysex")
          /\ \A i \in DOMAIN b.out : b.out[i].type = "sysex" =>
               done /\ b.out[i] = Sysex(z) /\ (first \/ e.p.at = "sysex")
      BY <1>1, PieceWhole
    <3>3. a = b /\ y = z
      BY <2>1, <3>1, Zenon
    <3> HIDE DEF a, b, y, z
    <3> QED BY <3>1, <3>2, <3>3, Zenon
  <2>5. r = [p |-> a.next, s |-> e.s \o a.out]
    BY <1>3, Zenon DEF Fed
  <2>6. <<>> \o <<n>> = <<n>>
    BY ConcatNothing
  <2>7. ASSUME e.p.at = "sysex" => q # <<>> /\ e.p.pieces = q, q = <<>> \/ e.p.at = "sysex"
        PROVE  y = q \o <<n>>
    BY <2>6, <2>7, Zenon
  <2> HIDE DEF a, y, r, q
  <2>8. r.p = a.next /\ r.s = e.s \o a.out
    BY <2>5
  <2>9. ASSUME e.p.at = "sysex" => q # <<>> /\ e.p.pieces = q
        PROVE  /\ r.p.at = "sysex" => writing'[w] # <<>> /\ r.p.pieces = writing'[w]
               /\ \A k \in DOMAIN r.s : r.s[k].type = "sysex" =>
                    \/ k \in DOMAIN e.s /\ r.s[k] = e.s[k]
                    \/ done /\ r.s[k] = x
    <3>1. ASSUME r.p.at = "sysex" PROVE writing'[w] # <<>> /\ r.p.pieces = writing'[w]
      <4>1. ~done /\ r.p.pieces = y /\ (q = <<>> \/ e.p.at = "sysex")
        BY <2>4, <2>8, <3>1, Zenon
      <4>2. y = q \o <<n>>
        BY <2>7, <2>9, <4>1
      <4> QED BY <2>1, <4>1, <4>2, Zenon
    <3>2. ASSUME NEW k \in DOMAIN r.s, r.s[k].type = "sysex"
          PROVE  (k \in DOMAIN e.s /\ r.s[k] = e.s[k]) \/ (done /\ r.s[k] = x)
      <4>1. (k \in DOMAIN e.s /\ r.s[k] = e.s[k]) \/ \E i \in DOMAIN a.out : r.s[k] = a.out[i]
        <5>1. /\ DOMAIN r.s = 1..Len(e.s) + Len(a.out) /\ Len(e.s) \in Nat /\ Len(a.out) \in Nat
              /\ DOMAIN e.s = 1..Len(e.s) /\ DOMAIN a.out = 1..Len(a.out)
              /\ \A i \in 1..Len(e.s) : r.s[i] = e.s[i]
              /\ \A i \in 1..Len(a.out) : r.s[Len(e.s) + i] = a.out[i]
          <6> DEFINE s == e.s
                     o == a.out
          <6>1. s \in Seq(Item) /\ o \in Seq(Item) /\ r.s = s \o o
            BY <1>1, <2>4, <2>8
          <6> HIDE DEF s, o
          <6>2. /\ Len(s) \in Nat /\ DOMAIN s = 1..Len(s)
                /\ Len(o) \in Nat /\ DOMAIN o = 1..Len(o)
                /\ DOMAIN (s \o o) = 1..Len(s) + Len(o)
                /\ \A i \in 1..Len(s) : (s \o o)[i] = s[i]
                /\ \A i \in 1..Len(o) : (s \o o)[Len(s) + i] = o[i]
            BY <6>1
          <6> QED BY <6>1, <6>2, Zenon DEF s, o
        <5>2. k \in 1..Len(e.s) \/ \E i \in 1..Len(a.out) : k = Len(e.s) + i
          <6>0. k \in 1..Len(e.s) + Len(a.out)
            BY <3>2, <5>1
          <6> DEFINE m == Len(e.s)
                     l == Len(a.out)
          <6>1. m \in Nat /\ l \in Nat
            BY <5>1
          <6> HIDE DEF m, l
          <6>2. k \in 1..m + l
            BY <6>0 DEF m, l
          <6>3. k \in 1..m \/ (k - m \in 1..l /\ k = m + (k - m))
            BY <6>1, <6>2
          <6>4. k \in 1..m \/ \E i \in 1..l : k = m + i
            BY <6>3
          <6> QED BY <6>4 DEF m, l
        <5> QED BY <5>1, <5>2, Zenon
      <4>2. ASSUME NEW i \in DOMAIN a.out, r.s[k] = a.out[i] PROVE done /\ r.s[k] = x
        <5>1. done /\ a.out[i] = Sysex(y) /\ (q = <<>> \/ e.p.at = "sysex")
          BY <2>4, <3>2, <4>2, Zenon
        <5>2. y = q \o <<n>>
          BY <2>7, <2>9, <5>1
        <5> QED BY <2>1, <4>2, <5>1, <5>2, Zenon
      <4> QED BY <4>1, <4>2, Zenon
    <3> QED BY <3>1, <3>2, Zenon
  <2> QED BY <1>3, <2>3, <2>9, Zenon DEF r, q, FedBy
<1> QED BY <1>2, <1>3, Zenon DEF Writes

-----------------------------------------------------------------------------
(* Types and pieces, step by step.                                         *)

LEMMA TypedWrite ==
  ASSUME Typed, OwnPieces, NEW w \in Writers, Writing(w)
  PROVE  Typed' /\ OwnPieces'
<1>1. PICK item, x, done : Writes(w, item, x, done)
  BY WriteIs
<1>2. /\ x \in Item /\ item \in Input /\ Deliver(w, item)
      /\ written' = IF done THEN [written EXCEPT ![w] = Append(@, x)] ELSE written
      /\ writing' \in [Writers -> Seq(Stamp)]
      /\ \A u \in Writers \ {w} : writing'[u] = writing[u]
      /\ \A i \in DOMAIN writing'[w] : writing'[w][i][1] = w
      /\ writes' \in Nat /\ UNCHANGED <<routes, conn, parser, stream, since, fresh, clean>>
  BY <1>1, Zenon DEF Writes, registry
<1>3. queue' \in Seq(Entry)
  <2>1. PICK new \in Seq(Entry) : queue' = queue \o new
    BY <1>2, DeliverIs, Zenon
  <2> QED BY <2>1 DEF Typed
<1>4. mixed' \subseteq Virtuals
  <2>1. mixed \subseteq Virtuals
    BY DEF Typed
  <2>2. CASE UNCHANGED mixed
    BY <2>1, <2>2
  <2>3. CASE mixed' = mixed \cup {v \in Virtuals : <<w, v>> \in routes
                      /\ \E u \in Writers \ {w} : <<u, v>> \in routes /\ writing[u] # <<>>}
    BY <2>1, <2>3
  <2> QED BY <1>1, <2>2, <2>3, Zenon DEF Writes
<1>5. written' \in [Writers -> Seq(Item)] /\ \A u \in Writers : since[u] <= Len(written'[u])
  <2>1. written \in [Writers -> Seq(Item)] /\ since \in [Writers -> Nat]
        /\ \A u \in Writers : since[u] <= Len(written[u])
    BY DEF Typed
  <2>2. CASE done
    <3>1. Append(written[w], x) \in Seq(Item) /\ Len(Append(written[w], x)) = Len(written[w]) + 1
          /\ Len(written[w]) \in Nat
      BY <1>2, <2>1
    <3>2. written' = [written EXCEPT ![w] = Append(written[w], x)]
      BY <1>2, <2>2
    <3>3. \A u \in Writers : written'[u] = IF u = w THEN Append(written[w], x) ELSE written[u]
      BY <2>1, <3>2
    <3>4. written' \in [Writers -> Seq(Item)]
      BY <2>1, <3>1, <3>2
    <3>5. ASSUME NEW u \in Writers PROVE since[u] <= Len(written'[u])
      <4>1. CASE u = w
        <5>1. written'[u] = Append(written[w], x) /\ since[w] <= Len(written[w]) /\ since[w] \in Nat
          BY <2>1, <3>3, <4>1
        <5> QED BY <3>1, <4>1, <5>1
      <4>2. CASE u # w
        BY <2>1, <3>3, <4>2
      <4> QED BY <4>1, <4>2
    <3> QED BY <3>4, <3>5
  <2>3. CASE ~done
    BY <1>2, <2>1, <2>3
  <2> QED BY <2>2, <2>3
<1>6. OwnPieces'
  BY <1>2 DEF OwnPieces
<1> QED BY <1>2, <1>3, <1>4, <1>5, <1>6 DEF Typed

LEMMA TypedRoute ==
  ASSUME Typed, OwnPieces, RouteEvent \/ RoutePiece
  PROVE  Typed' /\ OwnPieces'
<1> DEFINE ev == Head(queue)
<1>1. /\ queue # <<>> /\ queue' = Tail(queue)
      /\ UNCHANGED <<routes, writing, writes, conn, written, since, fresh, clean, mixed>>
  BY DEF RouteEvent, RoutePiece, Take, outside, history
<1>2. queue' \in Seq(Entry) /\ ev \in Entry
  BY <1>1 DEF Typed
<1>3. ev.item \in Input
  BY <1>2 DEF Entry
<1> HIDE DEF ev
<1>4. ASSUME NEW s \in Streams PROVE parser[s] \in ParserState /\ stream[s] \in Seq(Item)
  BY DEF Typed
<1>5. ASSUME NEW s \in Streams
      PROVE  Fed([p |-> parser[s], s |-> stream[s]], ev.item) \in Reading
  <2>1. [p |-> parser[s], s |-> stream[s]] \in Reading
    BY <1>4 DEF Reading
  <2> QED BY <1>3, <2>1, FedTyped
<1>6. CASE RouteEvent
  <2>1. /\ ev.item.type = "event" /\ parser' = parser
        /\ stream' = [s \in Streams |-> IF s \in Targets(ev) THEN Append(stream[s], ev.item)
                                        ELSE stream[s]]
    BY <1>6, Zenon DEF RouteEvent, ev
  <2>2. ASSUME NEW s \in Streams PROVE Append(stream[s], ev.item) \in Seq(Item)
    <3> DEFINE r == [p |-> parser[s], s |-> stream[s]]
               f == Fed(r, ev.item)
    <3>1. r.s = stream[s]
      OBVIOUS
    <3>2. f = [p |-> r.p, s |-> Append(r.s, ev.item)]
      BY <2>1, Zenon DEF Fed
    <3>3. f.s = Append(r.s, ev.item)
      BY <3>2
    <3>4. f.s \in Seq(Item)
      BY <1>5 DEF Reading
    <3> HIDE DEF r, f
    <3> QED BY <3>1, <3>3, <3>4, Zenon
  <2>3. stream' \in [Streams -> Seq(Item)]
    BY <1>4, <2>1, <2>2
  <2>4. OwnPieces'
    BY <1>1 DEF OwnPieces
  <2> QED BY <1>1, <1>2, <2>1, <2>3, <2>4 DEF Typed
<1>7. CASE RoutePiece
  <2> DEFINE after == [s \in Targets(ev) |-> Pushed(parser[s], ev.item)]
  <2>1. /\ ev.item.type = "piece"
        /\ parser' = [s \in Streams |-> IF s \in Targets(ev) THEN after[s].next ELSE parser[s]]
        /\ stream' = [s \in Streams |-> IF s \in Targets(ev) THEN stream[s] \o after[s].out
                                        ELSE stream[s]]
    BY <1>7, Zenon DEF RoutePiece, ev
  <2>2. ASSUME NEW s \in Streams, s \in Targets(ev)
        PROVE  after[s].next \in ParserState /\ stream[s] \o after[s].out \in Seq(Item)
    <3> DEFINE r == [p |-> parser[s], s |-> stream[s]]
               f == Fed(r, ev.item)
    <3>1. r.p = parser[s] /\ r.s = stream[s]
      OBVIOUS
    <3>2. after[s] = Pushed(parser[s], ev.item)
      BY <2>2
    <3> HIDE DEF after
    <3>3. ev.item.type # "event"
      BY <2>1
    <3>4. f = [p |-> Pushed(r.p, ev.item).next, s |-> r.s \o Pushed(r.p, ev.item).out]
      BY <3>3, Zenon DEF Fed
    <3>5. f.p = Pushed(r.p, ev.item).next /\ f.s = r.s \o Pushed(r.p, ev.item).out
      <4> DEFINE a == Pushed(r.p, ev.item)
      <4>1. f = [p |-> a.next, s |-> r.s \o a.out]
        BY <3>4
      <4> HIDE DEF a, f
      <4>2. f.p = a.next /\ f.s = r.s \o a.out
        BY <4>1
      <4> QED BY <4>2 DEF a, f
    <3>6. f.p \in ParserState /\ f.s \in Seq(Item)
      BY <1>5 DEF Reading
    <3> HIDE DEF r, f
    <3> QED BY <3>1, <3>2, <3>5, <3>6, Zenon
  <2> HIDE DEF after
  <2>3. stream' \in [Streams -> Seq(Item)] /\ parser' \in [Streams -> ParserState]
    BY <1>4, <2>1, <2>2
  <2>4. OwnPieces'
    BY <1>1 DEF OwnPieces
  <2> QED BY <1>1, <1>2, <2>3, <2>4 DEF Typed
<1> QED BY <1>6, <1>7

LEMMA TypedConnect ==
  ASSUME Typed, OwnPieces, NEW w \in Writers, Connect(w) \/ Disconnect(w)
  PROVE  Typed' /\ OwnPieces'
<1>1. /\ UNCHANGED <<routes, writing, writes, queue, written, mixed>>
      /\ routes \subseteq Writers \X Virtuals
      /\ writing \in [Writers -> Seq(Stamp)] /\ queue \in Seq(Entry) /\ writes \in Nat
      /\ written \in [Writers -> Seq(Item)] /\ mixed \subseteq Virtuals
  BY DEF Connect, Disconnect, outside, Typed
<1>2. OwnPieces'
  BY <1>1 DEF OwnPieces
<1>3. CASE Connect(w)
  <2>1. Closed \in ParserState /\ <<>> \in Seq(Item) /\ Len(written[w]) \in Nat
    BY <1>1 DEF Closed, ParserState
  <2>2. /\ conn' \subseteq Writers /\ fresh' \subseteq conn' /\ clean' \subseteq fresh'
    <3>1. /\ conn' = conn \cup {w} /\ fresh' = fresh \cup Fresh(w)
          /\ clean' = clean \cup {u \in Fresh(w) : writing[u] = <<>>}
      BY <1>3 DEF Connect
    <3>2. Fresh(w) \subseteq {w}
      BY DEF Fresh
    <3>3. clean \subseteq fresh /\ fresh \subseteq conn /\ conn \subseteq Writers
      BY DEF Typed
    <3> QED BY <3>1, <3>2, <3>3
  <2>3. /\ parser' = [parser EXCEPT ![w] = Closed] /\ stream' = [stream EXCEPT ![w] = <<>>]
        /\ since' = [since EXCEPT ![w] = Len(written[w])]
    BY <1>3 DEF Connect
  <2>4. parser' \in [Streams -> ParserState] /\ stream' \in [Streams -> Seq(Item)]
    BY <2>1, <2>3 DEF Typed
  <2>5. since' \in [Writers -> Nat] /\ \A u \in Writers : since'[u] <= Len(written'[u])
    BY <1>1, <2>1, <2>3 DEF Typed
  <2> QED BY <1>1, <1>2, <2>2, <2>4, <2>5 DEF Typed
<1>4. CASE Disconnect(w)
  <2>1. /\ conn' = conn \ {w} /\ fresh' = fresh \ {w} /\ clean' = clean \ {w}
        /\ UNCHANGED <<parser, stream, since>>
    BY <1>4 DEF Disconnect
  <2> QED BY <1>1, <1>2, <2>1 DEF Typed
<1> QED BY <1>3, <1>4

-----------------------------------------------------------------------------
(* Steps that leave what is written and what is queued.                    *)

\* What every step but a write leaves.
Quiet == UNCHANGED <<routes, writing, written, mixed>>

\* A stream is left as it is or may be given the next of the queue.
Stays(s) == \/ queue' = queue /\ parser'[s] = parser[s] /\ stream'[s] = stream[s]
            \/ RouteEvent \/ RoutePiece

LEMMA RunGoesOn ==
  ASSUME Typed, NEW s \in Virtuals \cup conn, NEW R, Run(R, s), Stays(s)
  PROVE  \E Q : /\ Run(Q, s)'
                /\ Q[Len(queue')] = R[Len(queue)]
                /\ \A i \in 0..Len(queue') : \E k \in 0..Len(queue) : Q[i] = R[k]
<1>1. CASE queue' = queue /\ parser'[s] = parser[s] /\ stream'[s] = stream[s]
  <2>1. Run(R, s)'
    BY <1>1, RunStays
  <2>2. R[Len(queue')] = R[Len(queue)] /\ \A i \in 0..Len(queue') : \E k \in 0..Len(queue) : R[i] = R[k]
    BY <1>1
  <2> QED BY <2>1, <2>2, Zenon
<1>2. CASE RouteEvent \/ RoutePiece
  <2>1. /\ Len(queue) \in Nat \ {0} /\ Len(queue') = Len(queue) - 1
        /\ \E Q : Run(Q, s)' /\ \A i \in 0..Len(queue') : Q[i] = R[i + 1]
    BY <1>2, TakeRun
  <2>2. PICK Q : Run(Q, s)' /\ \A i \in 0..Len(queue') : Q[i] = R[i + 1]
    BY <2>1, Zenon
  <2>3. Q[Len(queue')] = R[Len(queue)]
    <3>1. Len(queue') \in 0..Len(queue') /\ Len(queue') + 1 = Len(queue)
      BY <2>1
    <3> QED BY <2>2, <3>1
  <2>4. \A i \in 0..Len(queue') : i + 1 \in 0..Len(queue)
    BY <2>1
  <2>5. \A i \in 0..Len(queue') : \E k \in 0..Len(queue) : Q[i] = R[k]
    BY <2>2, <2>4, Zenon
  <2> QED BY <2>2, <2>3, <2>5, Zenon
<1> QED BY <1>1, <1>2 DEF Stays

LEMMA ConnectionStays ==
  ASSUME Typed, NEW w \in conn, NEW R, ConnectionRun(w, R), Stays(w), Quiet, since'[w] = since[w]
  PROVE  \E Q : ConnectionRun(w, Q)'
<1>1. /\ Run(R, w)
      /\ R[Len(queue)] = [p |-> At(writing[w]), s |-> Promised(w)]
      /\ \A i \in 0..Len(queue) : IsPrefix(R[i].s, Promised(w))
  BY Zenon DEF ConnectionRun
<1>2. PICK Q : /\ Run(Q, w)'
               /\ Q[Len(queue')] = R[Len(queue)]
               /\ \A i \in 0..Len(queue') : \E k \in 0..Len(queue) : Q[i] = R[k]
  <2>1. w \in Virtuals \cup conn
    OBVIOUS
  <2> QED BY <1>1, <2>1, RunGoesOn, Zenon
<1>3. writing'[w] = writing[w] /\ Promised(w)' = Promised(w)
  BY DEF Quiet, Promised
<1>4. \A i \in 0..Len(queue') : IsPrefix(Q[i].s, Promised(w))
  BY <1>1, <1>2, Zenon
<1>5. ConnectionRun(w, Q)'
  BY <1>1, <1>2, <1>3, <1>4, Zenon DEF ConnectionRun
<1> QED BY <1>5

LEMMA SysexStays ==
  ASSUME Typed, NEW w \in conn, NEW R, SysexRun(w, R), Stays(w), Quiet
  PROVE  \E Q : SysexRun(w, Q)'
<1>1. /\ Run(R, w)
      /\ R[Len(queue)].p.at = "sysex" => writing[w] # <<>> /\ R[Len(queue)].p.pieces = writing[w]
      /\ \A i \in 0..Len(queue) : Whole(R[i].s, written[w])
  BY Zenon DEF SysexRun
<1>2. PICK Q : /\ Run(Q, w)'
               /\ Q[Len(queue')] = R[Len(queue)]
               /\ \A i \in 0..Len(queue') : \E k \in 0..Len(queue) : Q[i] = R[k]
  <2>1. w \in Virtuals \cup conn
    OBVIOUS
  <2> QED BY <1>1, <2>1, RunGoesOn, Zenon
<1>3. writing' = writing /\ written' = written
  BY DEF Quiet
<1>4. \A i \in 0..Len(queue') : Whole(Q[i].s, written[w])
  BY <1>1, <1>2, Zenon
<1>5. SysexRun(w, Q)'
  BY <1>1, <1>2, <1>3, <1>4, Zenon DEF SysexRun
<1> QED BY <1>5

LEMMA VirtualStays ==
  ASSUME Typed, NEW v \in Virtuals, NEW R, VirtualRun(v, R), Stays(v), Quiet
  PROVE  \E Q : VirtualRun(v, Q)'
<1> DEFINE e == R[Len(queue)]
<1>1. /\ Run(R, v)
      /\ \A w \in Writers : <<w, v>> \in routes /\ writing[w] # <<>> => e.p = Open(writing[w])
      /\ (\A w \in Writers : <<w, v>> \in routes => writing[w] = <<>>) => e.p = Closed
      /\ \A i \in 0..Len(queue) : FromRoutes(R[i].s, v)
      /\ \A w \in Writers : <<w, v>> \in routes =>
           /\ ItemsOf(e.s, w) = written[w]
           /\ \A i \in 0..Len(queue) : IsPrefix(ItemsOf(R[i].s, w), written[w])
  BY Zenon DEF VirtualRun, Amid
<1>2. PICK Q : /\ Run(Q, v)'
               /\ Q[Len(queue')] = R[Len(queue)]
               /\ \A i \in 0..Len(queue') : \E k \in 0..Len(queue) : Q[i] = R[k]
  <2>1. v \in Virtuals \cup conn
    OBVIOUS
  <2> QED BY <1>1, <2>1, RunGoesOn, Zenon
<1>3. writing' = writing /\ written' = written /\ routes' = routes
  BY DEF Quiet
<1>4. \A i \in 0..Len(queue') : FromRoutes(Q[i].s, v)
  BY <1>1, <1>2, Zenon
<1>5. \A i \in 0..Len(queue') : FromRoutes(Q[i].s, v)'
  BY <1>3, <1>4, Zenon DEF FromRoutes
<1>6. \A w \in Writers : <<w, v>> \in routes =>
        /\ ItemsOf(Q[Len(queue')].s, w) = written[w]
        /\ \A i \in 0..Len(queue') : IsPrefix(ItemsOf(Q[i].s, w), written[w])
  BY <1>1, <1>2, Zenon
<1>7. VirtualRun(v, Q)'
  BY <1>1, <1>2, <1>3, <1>5, <1>6, Zenon DEF VirtualRun, Amid
<1> QED BY <1>7

\* The streams of all but one source stay what they are.
LEMMA OthersStay ==
  ASSUME Typed, ConnectionOK, SysexOK, VirtualOK, Quiet, NEW w,
         \A v \in Virtuals : Stays(v),
         \A u \in fresh' \ {w} : u \in fresh /\ Stays(u) /\ since'[u] = since[u],
         \A u \in clean' \ {w} : u \in clean
  PROVE  /\ VirtualOK'
         /\ \A u \in fresh' \ {w} : ~OnRoute(u)' => \E R : SysexRun(u, R)'
         /\ clean' \subseteq fresh' =>
              \A u \in clean' \ {w} : ~OnRoute(u)' => \E R : ConnectionRun(u, R)'
<1>0. fresh \subseteq conn
  BY DEF Typed
<1>1. VirtualOK'
  <2> SUFFICES ASSUME NEW v \in Virtuals \ mixed' PROVE Alone(v)' /\ \E R : VirtualRun(v, R)'
    BY Zenon DEF VirtualOK
  <2>1. v \in Virtuals \ mixed /\ Stays(v)
    BY DEF Quiet
  <2>2. Alone(v) /\ \E R : VirtualRun(v, R)
    BY <2>1, Zenon DEF VirtualOK
  <2>3. Alone(v)'
    BY <2>2 DEF Alone, Quiet
  <2>4. \E R : VirtualRun(v, R)'
    BY <2>1, <2>2, VirtualStays, Zenon
  <2> QED BY <2>3, <2>4
<1>2. ASSUME NEW u PROVE OnRoute(u)' <=> OnRoute(u)
  BY DEF OnRoute, Quiet
<1>3. ASSUME NEW u \in fresh' \ {w}, ~OnRoute(u)' PROVE \E R : SysexRun(u, R)'
  <2>1. u \in fresh /\ u \in conn /\ Stays(u) /\ ~OnRoute(u)
    BY <1>0, <1>2, <1>3
  <2>2. \E R : SysexRun(u, R)
    BY <2>1, Zenon DEF SysexOK
  <2> QED BY <2>1, <2>2, SysexStays, Zenon
<1>4. ASSUME clean' \subseteq fresh', NEW u \in clean' \ {w}, ~OnRoute(u)'
      PROVE  \E R : ConnectionRun(u, R)'
  <2>1. u \in clean /\ u \in conn /\ Stays(u) /\ ~OnRoute(u) /\ since'[u] = since[u]
    BY <1>0, <1>2, <1>4
  <2>2. \E R : ConnectionRun(u, R)
    BY <2>1, Zenon DEF ConnectionOK
  <2> QED BY <2>1, <2>2, ConnectionStays, Zenon
<1> QED BY <1>1, <1>3, <1>4

LEMMA QuietStep ==
  ASSUME Typed, OwnPieces, ConnectionOK, SysexOK, VirtualOK,
         \/ RouteEvent \/ RoutePiece
         \/ \E w \in Writers : Disconnect(w)
         \/ UNCHANGED vars
  PROVE  ConnectionOK' /\ SysexOK' /\ VirtualOK'
<1>1. PICK w : w \notin Writers
  BY NoSetContainsEverything
<1>2. /\ Quiet /\ fresh' \subseteq fresh /\ clean' \subseteq clean /\ clean' \subseteq fresh'
      /\ since' = since /\ \A s : Stays(s)
  <2>0. clean \subseteq fresh
    BY DEF Typed
  <2>1. CASE RouteEvent \/ RoutePiece
    <3>1. UNCHANGED <<outside, history>>
      BY <2>1 DEF RouteEvent, RoutePiece, Take
    <3>2. \A s : Stays(s)
      BY <2>1, Zenon DEF Stays
    <3> QED BY <2>0, <3>1, <3>2 DEF Quiet, outside, history
  <2>2. CASE \E u \in Writers : Disconnect(u)
    <3>1. PICK u \in Writers : Disconnect(u)
      BY <2>2
    <3>2. /\ UNCHANGED <<outside, queue, parser, stream, written, since, mixed>>
          /\ fresh' = fresh \ {u} /\ clean' = clean \ {u}
      BY <3>1 DEF Disconnect
    <3> QED BY <2>0, <3>2 DEF Quiet, Stays, outside
  <2>3. CASE UNCHANGED vars
    BY <2>0, <2>3 DEF Quiet, Stays, vars, outside, registry, history
  <2> QED BY <2>1, <2>2, <2>3
<1>3. fresh' \subseteq Writers
  BY <1>2 DEF Typed
<1>4. /\ VirtualOK'
      /\ \A u \in fresh' \ {w} : ~OnRoute(u)' => \E R : SysexRun(u, R)'
      /\ clean' \subseteq fresh' =>
           \A u \in clean' \ {w} : ~OnRoute(u)' => \E R : ConnectionRun(u, R)'
  <2>1. /\ \A v \in Virtuals : Stays(v)
        /\ \A u \in fresh' \ {w} : u \in fresh /\ Stays(u) /\ since'[u] = since[u]
        /\ \A u \in clean' \ {w} : u \in clean
    BY <1>2
  <2> QED BY <1>2, <2>1, OthersStay, Zenon
<1>5. \A u : (u \in fresh' => u \in fresh' \ {w}) /\ (u \in clean' => u \in clean' \ {w})
  BY <1>1, <1>2, <1>3
<1>6. ConnectionOK'
  BY <1>2, <1>4, <1>5, Zenon DEF ConnectionOK
<1>7. SysexOK'
  BY <1>4, <1>5, Zenon DEF SysexOK
<1> QED BY <1>4, <1>6, <1>7

-----------------------------------------------------------------------------
(* A connection made with nothing of its source queued.                    *)

LEMMA ConnectStep ==
  ASSUME Typed, OwnPieces, ConnectionOK, SysexOK, VirtualOK, NEW w \in Writers, Connect(w)
  PROVE  ConnectionOK' /\ SysexOK' /\ VirtualOK'
<1>1. /\ w \notin conn
      /\ parser' = [parser EXCEPT ![w] = Closed]
      /\ stream' = [stream EXCEPT ![w] = <<>>]
      /\ since' = [since EXCEPT ![w] = Len(written[w])]
      /\ fresh' = fresh \cup Fresh(w)
      /\ clean' = clean \cup {u \in Fresh(w) : writing[u] = <<>>}
      /\ UNCHANGED <<routes, writing, writes, queue, written, mixed>>
  BY DEF Connect, outside
<1>2. /\ clean \subseteq fresh /\ fresh \subseteq conn /\ Fresh(w) \subseteq {w}
      /\ parser \in [Streams -> ParserState] /\ stream \in [Streams -> Seq(Item)]
      /\ since \in [Writers -> Nat] /\ conn \subseteq Writers
      /\ Writers \cap Virtuals = {} /\ w \in Streams /\ queue \in Seq(Entry)
      /\ written \in [Writers -> Seq(Item)]
  BY DEF Typed, Fresh, Streams
<1>3. Quiet
  BY <1>1 DEF Quiet
<1>4. \A s \in Streams : s # w => Stays(s)
  BY <1>1, <1>2 DEF Stays
<1>5. /\ VirtualOK'
      /\ \A u \in fresh' \ {w} : ~OnRoute(u)' => \E R : SysexRun(u, R)'
      /\ clean' \subseteq fresh' =>
           \A u \in clean' \ {w} : ~OnRoute(u)' => \E R : ConnectionRun(u, R)'
  <2>1. \A v \in Virtuals : Stays(v)
    BY <1>2, <1>4 DEF Streams
  <2>2. \A u \in clean' \ {w} : u \in clean
    BY <1>1, <1>2
  <2>3. ASSUME NEW u \in fresh' \ {w} PROVE u \in fresh /\ Stays(u) /\ since'[u] = since[u]
    <3>1. u \in fresh
      BY <1>1, <1>2
    <3>2. u \in Writers /\ u # w /\ u \in Streams
      BY <1>2, <3>1 DEF Streams
    <3>3. since'[u] = since[u]
      BY <1>1, <1>2, <3>2
    <3> QED BY <1>4, <3>1, <3>2, <3>3
  <2> QED BY <1>3, <2>1, <2>2, <2>3, OthersStay, Zenon
<1>6. clean' \subseteq fresh'
  BY <1>1, <1>2
<1>7. ASSUME w \in fresh'
      PROVE  \E R : /\ Run(R, w)'
                    /\ \A i \in 0..Len(queue') : R[i] = [p |-> Closed, s |-> <<>>]
  <2>1. \A i \in DOMAIN queue : queue[i].src # w
    <3>1. w \in Fresh(w)
      BY <1>1, <1>2, <1>7
    <3> QED BY <3>1 DEF Fresh
  <2> DEFINE c == [p |-> Closed, s |-> <<>>]
  <2>2. PICK R : R = [i \in 0..Len(queue) |-> c]
    OBVIOUS
  <2>3. c \in Reading
    BY DEF Reading, Closed, ParserState
  <2>4. Len(queue) \in Nat /\ DOMAIN queue = 1..Len(queue)
    BY <1>2
  <2>5. parser'[w] = Closed /\ stream'[w] = <<>>
    BY <1>1, <1>2
  <2>6. queue' = queue
    BY <1>1
  <2> HIDE DEF c
  <2>7. R \in [0..Len(queue) -> Reading] /\ \A i \in 0..Len(queue) : R[i] = c
    BY <2>2, <2>3
  <2>8. R[0] = [p |-> parser'[w], s |-> stream'[w]]
    <3>1. 0 \in 0..Len(queue)
      BY <2>4
    <3> QED BY <2>5, <2>7, <3>1, Zenon DEF c
  <2>9. ASSUME NEW i \in 1..Len(queue) PROVE R[i] = Then(w, R[i - 1], queue[i])
    <3>1. i \in 0..Len(queue) /\ i - 1 \in 0..Len(queue)
      BY <2>4
    <3>2. w \notin Virtuals
      BY <1>2
    <3>3. ~Gets(w, queue[i])
      BY <2>1, <2>4, <3>2, Zenon DEF Gets
    <3> QED BY <2>7, <3>1, <3>3, Zenon DEF Then
  <2>10. Run(R, w)'
    BY <2>6, <2>7, <2>8, <2>9, Zenon DEF Run
  <2> QED BY <2>6, <2>7, <2>10, Zenon DEF c
<1>8. Len(queue') \in Nat /\ Len(queue') \in 0..Len(queue')
  BY <1>1, <1>2
<1>9. [p |-> Closed, s |-> <<>>].p.at # "sysex" /\ [p |-> Closed, s |-> <<>>].s = <<>>
  BY DEF Closed
<1>10. ASSUME w \in fresh' PROVE \E R : SysexRun(w, R)'
  <2>1. PICK R : /\ Run(R, w)'
                 /\ \A i \in 0..Len(queue') : R[i] = [p |-> Closed, s |-> <<>>]
    BY <1>7, <1>10
  <2>2. R[Len(queue')].p.at # "sysex" /\ \A i \in 0..Len(queue') : R[i].s = <<>>
    BY <1>8, <1>9, <2>1
  <2>3. \A i \in 0..Len(queue') : Whole(R[i].s, written'[w])
    BY <2>2 DEF Whole
  <2>4. SysexRun(w, R)'
    BY <2>1, <2>2, <2>3, Zenon DEF SysexRun
  <2> QED BY <2>4
<1>11. ASSUME w \in clean' PROVE \E R : ConnectionRun(w, R)'
  <2>1. PICK R : /\ Run(R, w)'
                 /\ \A i \in 0..Len(queue') : R[i] = [p |-> Closed, s |-> <<>>]
    BY <1>6, <1>7, <1>11
  <2>2. writing'[w] = <<>>
    BY <1>1, <1>2, <1>11
  <2>3. Promised(w)' = <<>>
    <3>1. since'[w] = Len(written[w]) /\ written' = written /\ written[w] \in Seq(Item)
          /\ Len(written[w]) \in Nat
      BY <1>1, <1>2
    <3>2. Promised(w)' = SubSeq(written[w], Len(written[w]) + 1, Len(written[w]))
      BY <3>1, Zenon DEF Promised
    <3>3. SubSeq(written[w], Len(written[w]) + 1, Len(written[w])) = <<>>
      BY <3>1, SubSeqEmpty
    <3> QED BY <3>2, <3>3
  <2>4. R[Len(queue')] = [p |-> At(writing'[w]), s |-> Promised(w)']
    BY <1>8, <2>1, <2>2, <2>3, Zenon DEF At
  <2>5. \A i \in 0..Len(queue') : IsPrefix(R[i].s, Promised(w)')
    <3>1. <<>> \in Seq(Item) /\ Broken \in Item
      BY DEF Item, Broken
    <3>2. IsPrefix(<<>>, <<>>)
      BY <3>1, PrefixGrows, Zenon
    <3> QED BY <1>9, <2>1, <2>3, <3>2, Zenon
  <2>6. ConnectionRun(w, R)'
    BY <2>1, <2>4, <2>5, Zenon DEF ConnectionRun
  <2> QED BY <2>6
<1>12. ConnectionOK'
  BY <1>5, <1>6, <1>11, Zenon DEF ConnectionOK
<1>13. SysexOK'
  BY <1>5, <1>10, Zenon DEF SysexOK
<1> QED BY <1>5, <1>12, <1>13

-----------------------------------------------------------------------------
(* A write.                                                                *)

Grown(w, x, done, u) ==
  /\ written'[u] = IF done /\ u = w THEN Append(written[u], x) ELSE written[u]
  /\ written[u] \in Seq(Item) /\ x \in Item
  /\ \A s \in Seq(Item) : IsPrefix(s, written[u]) => IsPrefix(s, written'[u])
  /\ \A s : Whole(s, written[u]) => Whole(s, written'[u])
  /\ done /\ u = w => \E j \in DOMAIN written'[u] : written'[u][j] = x

\* What everybody had written is still there, and x is, if it is done.
LEMMA WrittenGrows ==
  ASSUME Typed, NEW w \in Writers, NEW item, NEW x, NEW done, Writes(w, item, x, done),
         NEW u \in Writers
  PROVE  Grown(w, x, done, u)
<1>1. /\ x \in Item /\ written \in [Writers -> Seq(Item)]
      /\ written' = IF done THEN [written EXCEPT ![w] = Append(@, x)] ELSE written
  BY DEF Writes, Typed
<1>2. written'[u] = IF done /\ u = w THEN Append(written[u], x) ELSE written[u]
  BY <1>1
<1>3. CASE done /\ u = w
  <2> DEFINE t == written[u]
             z == Append(t, x)
  <2>1. t \in Seq(Item) /\ written'[u] = z
    BY <1>1, <1>2, <1>3
  <2>2. /\ z \in Seq(Item) /\ Len(z) = Len(t) + 1 /\ Len(t) \in Nat
        /\ \A i \in DOMAIN t : i \in DOMAIN z /\ z[i] = t[i]
        /\ Len(t) + 1 \in DOMAIN z /\ z[Len(t) + 1] = x
    BY <1>1, <2>1
  <2>3. \A s \in Seq(Item) : IsPrefix(s, t) => IsPrefix(s, z)
    BY <1>1, <2>1, PrefixGrows
  <2> HIDE DEF t, z
  <2>4. \A s : Whole(s, t) => Whole(s, z)
    BY <2>2, Zenon DEF Whole
  <2>5. \E j \in DOMAIN z : z[j] = x
    BY <2>2, Zenon
  <2> QED BY <1>1, <1>2, <2>1, <2>3, <2>4, <2>5, Zenon DEF t, Grown
<1>4. CASE ~(done /\ u = w)
  <2>1. written'[u] = written[u] /\ written[u] \in Seq(Item)
    BY <1>1, <1>2, <1>4
  <2> QED BY <1>1, <1>2, <1>4, <2>1, Zenon DEF Grown
<1> QED BY <1>3, <1>4

LEMMA ConnectionWrite ==
  ASSUME Typed, NEW w \in Writers, NEW item, NEW x, NEW done, Writes(w, item, x, done),
         NEW u \in conn, ~OnRoute(u), NEW R, ConnectionRun(u, R)
  PROVE  \E Q : ConnectionRun(u, Q)'
<1> DEFINE e == R[Len(queue)]
           f == Fed(e, item)
<1>1. /\ Run(R, u)
      /\ e = [p |-> At(writing[u]), s |-> Promised(u)]
      /\ \A i \in 0..Len(queue) : IsPrefix(R[i].s, Promised(u))
  BY Zenon DEF ConnectionRun
<1>2. /\ item \in Input /\ Deliver(w, item) /\ x \in Item
      /\ UNCHANGED <<routes, parser, stream, since>>
      /\ \A t \in Writers \ {w} : writing'[t] = writing[t]
  BY Zenon DEF Writes, registry
<1>3. u \in Writers /\ u \in Streams /\ u \notin Virtuals /\ routes \subseteq Writers \X Virtuals
  BY DEF Typed, Streams
<1>4. Onward(R, u, w, item)
  BY <1>1, <1>2, <1>3, WriteRun, Zenon
<1>5. Reaches(w, u) <=> u = w
  BY <1>3 DEF Reaches
<1>6. Len(queue) \in Nat /\ Len(queue') \in Nat /\ Len(queue') >= Len(queue) /\ e \in Reading
  BY <1>4, Zenon DEF Onward
<1>7. PICK Q : /\ Run(Q, u)'
               /\ \A i \in 0..Len(queue') : \/ i \in 0..Len(queue) /\ Q[i] = R[i]
                                            \/ Q[i] = e
                                            \/ Reaches(w, u) /\ Q[i] = f
               /\ Q[Len(queue')] = IF Reaches(w, u) THEN f ELSE e
  BY <1>4, Zenon DEF Onward
<1>8. written[u] \in Seq(Item) /\ since[u] \in 0..Len(written[u])
  BY <1>3 DEF Typed
<1>9. /\ Promised(u) \in Seq(Item)
      /\ Promised(u)' = IF done /\ u = w THEN Append(Promised(u), x) ELSE Promised(u)
  <2>1. /\ SubSeq(written[u], since[u] + 1, Len(written[u])) \in Seq(Item)
        /\ SubSeq(Append(written[u], x), since[u] + 1, Len(Append(written[u], x))) =
             Append(SubSeq(written[u], since[u] + 1, Len(written[u])), x)
    <3>1. PICK t \in Seq(Item) : t = written[u]
      BY <1>8
    <3>2. PICK k \in 0..Len(t) : k = since[u]
      BY <1>8, <3>1
    <3>3. SubSeq(t, k + 1, Len(t)) \in Seq(Item)
      BY <1>2, SuffixGrows
    <3>4. SubSeq(Append(t, x), k + 1, Len(Append(t, x))) = Append(SubSeq(t, k + 1, Len(t)), x)
      BY <1>2, SuffixGrows, ZenonT(60)
    <3> QED BY <3>1, <3>2, <3>3, <3>4, Zenon
  <2>2. written'[u] = IF done /\ u = w THEN Append(written[u], x) ELSE written[u]
    <3>1. Grown(w, x, done, u)
      BY <1>3, WrittenGrows
    <3> QED BY <3>1, Zenon DEF Grown
  <2>3. since'[u] = since[u]
    BY <1>2
  <2> QED BY <2>1, <2>2, <2>3, Zenon DEF Promised
<1>10. e.p = At(writing[u]) /\ e.s = Promised(u)
  BY <1>1
<1>11. Len(queue) \in 0..Len(queue)
  BY <1>6
<1> HIDE DEF e, f
<1>12. ASSUME NEW s \in Seq(Item), IsPrefix(s, Promised(u)) PROVE IsPrefix(s, Promised(u)')
  <2>1. IsPrefix(s, Append(Promised(u), x))
    BY <1>2, <1>9, <1>12, PrefixGrows
  <2> QED BY <1>9, <1>12, <2>1, Zenon
<1>13. \A i \in 0..Len(queue) : R[i] \in Reading /\ R[i].s \in Seq(Item)
  <2>1. R \in [0..Len(queue) -> Reading]
    BY <1>1, Zenon DEF Run
  <2> QED BY <2>1 DEF Reading
<1>14. CASE u = w
  <2>1. f = [p |-> At(writing'[u]), s |-> Promised(u)']
    <3>1. f = [p |-> At(writing'[w]), s |-> IF done THEN Append(e.s, x) ELSE e.s]
      <4>1. FedBy(w, item, x, done, e)
        BY <1>6, FedIs, Zenon
      <4> QED BY <1>10, <1>14, <4>1, Zenon DEF f, FedBy
    <3> QED BY <1>9, <1>10, <1>14, <3>1, Zenon
  <2>2. IsPrefix(f.s, Promised(u)')
    <3>1. Promised(u)' \in Seq(Item)
      <4>1. Append(Promised(u), x) \in Seq(Item)
        BY <1>2, <1>9
      <4> QED BY <1>9, <4>1, Zenon
    <3>2. f.s = Promised(u)'
      BY <2>1
    <3>3. IsPrefix(Promised(u)', Promised(u)')
      BY <1>2, <3>1, PrefixGrows, Zenon
    <3> QED BY <3>2, <3>3
  <2>3. IsPrefix(e.s, Promised(u)')
    <3>1. IsPrefix(e.s, Promised(u)) /\ e.s \in Seq(Item)
      BY <1>1, <1>11, <1>13, Zenon DEF e
    <3> QED BY <1>12, <3>1
  <2>4. \A i \in 0..Len(queue') : IsPrefix(Q[i].s, Promised(u)')
    BY <1>1, <1>7, <1>12, <1>13, <2>2, <2>3, Zenon
  <2>5. Q[Len(queue')] = [p |-> At(writing'[u]), s |-> Promised(u)']
    BY <1>5, <1>7, <1>14, <2>1, Zenon
  <2>6. ConnectionRun(u, Q)'
    BY <1>7, <2>4, <2>5, Zenon DEF ConnectionRun
  <2> QED BY <2>6
<1>15. CASE u # w
  <2>1. writing'[u] = writing[u] /\ Promised(u)' = Promised(u)
    BY <1>2, <1>3, <1>9, <1>15
  <2>2. Q[Len(queue')] = [p |-> At(writing'[u]), s |-> Promised(u)']
    BY <1>1, <1>5, <1>7, <1>15, <2>1, Zenon
  <2>3. IsPrefix(e.s, Promised(u))
    BY <1>1, <1>11, Zenon DEF e
  <2>4. \A i \in 0..Len(queue') : IsPrefix(Q[i].s, Promised(u)')
    BY <1>1, <1>5, <1>7, <1>15, <2>1, <2>3, Zenon
  <2>5. ConnectionRun(u, Q)'
    BY <1>7, <2>2, <2>4, Zenon DEF ConnectionRun
  <2> QED BY <2>5
<1> QED BY <1>14, <1>15

LEMMA SysexWrite ==
  ASSUME Typed, NEW w \in Writers, NEW item, NEW x, NEW done, Writes(w, item, x, done),
         NEW u \in conn, ~OnRoute(u), NEW R, SysexRun(u, R)
  PROVE  \E Q : SysexRun(u, Q)'
<1> DEFINE e == R[Len(queue)]
           f == Fed(e, item)
<1>1. /\ Run(R, u)
      /\ e.p.at = "sysex" => writing[u] # <<>> /\ e.p.pieces = writing[u]
      /\ \A i \in 0..Len(queue) : Whole(R[i].s, written[u])
  BY Zenon DEF SysexRun
<1>2. /\ item \in Input /\ Deliver(w, item) /\ x \in Item
      /\ UNCHANGED <<routes, parser, stream, since>>
      /\ \A t \in Writers \ {w} : writing'[t] = writing[t]
  BY Zenon DEF Writes, registry
<1>3. u \in Writers /\ u \in Streams /\ u \notin Virtuals /\ routes \subseteq Writers \X Virtuals
  BY DEF Typed, Streams
<1>4. Onward(R, u, w, item)
  BY <1>1, <1>2, <1>3, WriteRun, Zenon
<1>5. Reaches(w, u) <=> u = w
  BY <1>3 DEF Reaches
<1>6. Len(queue) \in Nat /\ Len(queue') \in Nat /\ Len(queue') >= Len(queue) /\ e \in Reading
  BY <1>4, Zenon DEF Onward
<1>7. PICK Q : /\ Run(Q, u)'
               /\ \A i \in 0..Len(queue') : \/ i \in 0..Len(queue) /\ Q[i] = R[i]
                                            \/ Q[i] = e
                                            \/ Reaches(w, u) /\ Q[i] = f
               /\ Q[Len(queue')] = IF Reaches(w, u) THEN f ELSE e
  BY <1>4, Zenon DEF Onward
<1>8. Len(queue) \in 0..Len(queue)
  BY <1>6
<1>9. Whole(e.s, written[u])
  BY <1>1, <1>8, Zenon
<1> HIDE DEF e, f
<1>10. /\ \A s : Whole(s, written[u]) => Whole(s, written'[u])
       /\ done /\ u = w => \E j \in DOMAIN written'[u] : written'[u][j] = x
  <2>1. Grown(w, x, done, u)
    BY <1>3, WrittenGrows
  <2> QED BY <2>1, Zenon DEF Grown
<1>11. CASE u = w
  <2>1. /\ f.p.at = "sysex" => writing'[w] # <<>> /\ f.p.pieces = writing'[w]
        /\ \A k \in DOMAIN f.s : f.s[k].type = "sysex" =>
             (k \in DOMAIN e.s /\ f.s[k] = e.s[k]) \/ (done /\ f.s[k] = x)
    <3>1. FedBy(w, item, x, done, e)
      BY <1>6, FedIs, Zenon
    <3>2. e.p.at = "sysex" => writing[w] # <<>> /\ e.p.pieces = writing[w]
      BY <1>1, <1>11
    <3> QED BY <3>1, <3>2, Zenon DEF f, FedBy
  <2>2. Whole(f.s, written'[u])
    <3>1. Whole(e.s, written'[u])
      BY <1>9, <1>10, Zenon
    <3> SUFFICES ASSUME NEW k \in DOMAIN f.s, f.s[k].type = "sysex"
                 PROVE  \E j \in DOMAIN written'[u] : written'[u][j] = f.s[k]
      BY Zenon DEF Whole
    <3>2. CASE k \in DOMAIN e.s /\ f.s[k] = e.s[k]
      BY <3>1, <3>2 DEF Whole
    <3>3. CASE done /\ f.s[k] = x
      BY <1>10, <1>11, <3>3, Zenon
    <3> QED BY <2>1, <3>2, <3>3, Zenon
  <2>3. \A i \in 0..Len(queue') : Whole(Q[i].s, written'[u])
    BY <1>1, <1>7, <1>9, <1>10, <2>2, Zenon
  <2>4. Q[Len(queue')] = f
    BY <1>5, <1>7, <1>11, Zenon
  <2>5. SysexRun(u, Q)'
    BY <1>7, <1>11, <2>1, <2>3, <2>4, Zenon DEF SysexRun
  <2> QED BY <2>5
<1>12. CASE u # w
  <2>1. writing'[u] = writing[u] /\ Q[Len(queue')] = e
    BY <1>2, <1>3, <1>5, <1>7, <1>12, Zenon
  <2>2. \A i \in 0..Len(queue') : Whole(Q[i].s, written'[u])
    BY <1>1, <1>5, <1>7, <1>9, <1>10, <1>12, Zenon
  <2>3. SysexRun(u, Q)'
    BY <1>1, <1>7, <2>1, <2>2, Zenon DEF SysexRun
  <2> QED BY <2>3
<1> QED BY <1>11, <1>12

\* Those who write to v other than w are not amid a SysEx.
OthersIdle(w, v) == \A u \in Writers \ {w} : <<u, v>> \in routes => writing'[u] = <<>>

\* To a virtual destination a writer of no two at once writes on where it was.
LEMMA AloneFollows ==
  ASSUME Typed, NEW w \in Writers, NEW item, NEW x, NEW done, Writes(w, item, x, done),
         NEW v \in Virtuals \ mixed', Alone(v), <<w, v>> \in routes, NEW p,
         Amid(p, v), item.type # "event"
  PROVE  p = At(writing[w]) /\ OthersIdle(w, v)
<1>1. /\ mixed' = mixed \cup {t \in Virtuals : <<w, t>> \in routes
                      /\ \E u \in Writers \ {w} : <<u, t>> \in routes /\ writing[u] # <<>>}
      /\ \A u \in Writers \ {w} : writing'[u] = writing[u]
  BY Zenon DEF Writes
<1>2. \A u \in Writers \ {w} : <<u, v>> \in routes => writing[u] = <<>>
  BY <1>1
<1>3. p = At(writing[w])
  <2>1. CASE writing[w] = <<>>
    <3>1. \A u \in Writers : <<u, v>> \in routes => writing[u] = <<>>
      BY <1>2, <2>1
    <3> QED BY <2>1, <3>1, Zenon DEF At, Amid
  <2>2. CASE writing[w] # <<>>
    BY <2>2, Zenon DEF At, Amid
  <2> QED BY <2>1, <2>2
<1> QED BY <1>1, <1>2, <1>3 DEF OthersIdle

LEMMA VirtualWrite ==
  ASSUME Typed, NEW w \in Writers, NEW item, NEW x, NEW done, Writes(w, item, x, done),
         NEW v \in Virtuals \ mixed', Alone(v), NEW R, VirtualRun(v, R)
  PROVE  Alone(v)' /\ \E Q : VirtualRun(v, Q)'
<1> DEFINE e == R[Len(queue)]
           f == Fed(e, item)
<1>1. /\ Run(R, v)
      /\ \A u \in Writers : <<u, v>> \in routes /\ writing[u] # <<>> => e.p = Open(writing[u])
      /\ (\A u \in Writers : <<u, v>> \in routes => writing[u] = <<>>) => e.p = Closed
      /\ \A i \in 0..Len(queue) : FromRoutes(R[i].s, v)
      /\ \A u \in Writers : <<u, v>> \in routes =>
           /\ ItemsOf(e.s, u) = written[u]
           /\ \A i \in 0..Len(queue) : IsPrefix(ItemsOf(R[i].s, u), written[u])
  BY Zenon DEF VirtualRun, Amid
<1>2. /\ item \in Input /\ Deliver(w, item) /\ x \in Item
      /\ UNCHANGED <<routes, parser, stream>>
      /\ \A u \in Writers \ {w} : writing'[u] = writing[u]
      /\ \A u : By(x, u) <=> u = w
      /\ item.type = "event" => done /\ UNCHANGED writing
  <2>1. item.type = "event" => done /\ UNCHANGED writing
    BY Zenon DEF Writes
  <2> QED BY <2>1, Zenon DEF Writes, registry
<1>3. v \in Streams /\ v \notin Writers /\ routes \subseteq Writers \X Virtuals
  BY DEF Typed, Streams
<1>4. Onward(R, v, w, item)
  BY <1>1, <1>2, <1>3, WriteRun, Zenon
<1>5. Reaches(w, v) <=> <<w, v>> \in routes
  BY <1>3 DEF Reaches
<1>6. Len(queue) \in Nat /\ Len(queue') \in Nat /\ Len(queue') >= Len(queue) /\ e \in Reading
  BY <1>4, Zenon DEF Onward
<1>7. PICK Q : /\ Run(Q, v)'
               /\ \A i \in 0..Len(queue') : \/ i \in 0..Len(queue) /\ Q[i] = R[i]
                                            \/ Q[i] = e
                                            \/ Reaches(w, v) /\ Q[i] = f
               /\ Q[Len(queue')] = IF Reaches(w, v) THEN f ELSE e
  BY <1>4, Zenon DEF Onward
<1>8. Len(queue) \in 0..Len(queue) /\ e.s \in Seq(Item)
  BY <1>6 DEF Reading
<1>9. FromRoutes(e.s, v)
  BY <1>1, <1>8, Zenon
<1>10. ASSUME NEW i \in 0..Len(queue) PROVE R[i].s \in Seq(Item)
  <2>1. R \in [0..Len(queue) -> Reading]
    BY <1>1, Zenon DEF Run
  <2> QED BY <2>1 DEF Reading
<1> HIDE DEF e, f
<1>11. ASSUME NEW u \in Writers PROVE Grown(w, x, done, u)
  BY WrittenGrows
<1>12. ASSUME NEW u \in Writers, NEW s \in Seq(Item), IsPrefix(ItemsOf(s, u), written[u])
       PROVE  IsPrefix(ItemsOf(s, u), written'[u])
  <2>1. ItemsOf(s, u) \in Seq(Item)
    BY <1>2, ItemsOfGrows, Zenon
  <2> QED BY <1>11, <1>12, <2>1, Zenon DEF Grown
<1>13. CASE <<w, v>> \notin routes
  <2>1. \A u \in Writers : <<u, v>> \in routes => writing'[u] = writing[u] /\ written'[u] = written[u]
    BY <1>2, <1>11, <1>13, Zenon DEF Grown
  <2>2. Alone(v)'
    BY <1>2, <2>1, Zenon DEF Alone
  <2>3. Q[Len(queue')] = e
    BY <1>5, <1>7, <1>13, Zenon
  <2>4. \A i \in 0..Len(queue') : FromRoutes(Q[i].s, v)
    BY <1>1, <1>5, <1>7, <1>9, <1>13, Zenon
  <2>5. \A i \in 0..Len(queue') : FromRoutes(Q[i].s, v)'
    BY <1>2, <2>4, Zenon DEF FromRoutes
  <2>6. ASSUME NEW u \in Writers, <<u, v>> \in routes
        PROVE  /\ ItemsOf(Q[Len(queue')].s, u) = written'[u]
               /\ \A i \in 0..Len(queue') : IsPrefix(ItemsOf(Q[i].s, u), written'[u])
    <3>1. IsPrefix(ItemsOf(e.s, u), written[u])
      BY <1>1, <1>8, <2>6, Zenon DEF e
    <3>2. \A i \in 0..Len(queue') : IsPrefix(ItemsOf(Q[i].s, u), written[u])
      BY <1>1, <1>5, <1>7, <1>13, <2>6, <3>1, Zenon
    <3>3. written'[u] = written[u]
      BY <2>1, <2>6
    <3> QED BY <1>1, <2>3, <2>6, <3>2, <3>3, Zenon
  <2>7. /\ \A u \in Writers : <<u, v>> \in routes /\ writing'[u] # <<>> => e.p = Open(writing'[u])
        /\ (\A u \in Writers : <<u, v>> \in routes => writing'[u] = <<>>) => e.p = Closed
    BY <1>1, <2>1, Zenon
  <2>8. routes' = routes
    BY <1>2
  <2>9. VirtualRun(v, Q)'
    BY <1>7, <2>3, <2>5, <2>6, <2>7, <2>8, Zenon DEF VirtualRun, Amid
  <2> QED BY <2>2, <2>9
<1>14. CASE <<w, v>> \in routes
  <2>0. FedBy(w, item, x, done, e)
    BY <1>6, FedIs, Zenon
  <2>1. /\ Alone(v)'
        /\ f.s = IF done THEN Append(e.s, x) ELSE e.s
        /\ \A u \in Writers : <<u, v>> \in routes /\ writing'[u] # <<>> => f.p = Open(writing'[u])
        /\ (\A u \in Writers : <<u, v>> \in routes => writing'[u] = <<>>) => f.p = Closed
    <3>1. CASE item.type = "event"
      <4>1. f = [p |-> e.p, s |-> Append(e.s, x)] /\ done /\ writing' = writing
        BY <1>2, <2>0, <3>1, Zenon DEF FedBy, f
      <4>2. f.p = e.p /\ f.s = Append(e.s, x)
        BY <4>1
      <4>3. Alone(v)'
        BY <1>2, <4>1 DEF Alone
      <4> QED BY <1>1, <4>1, <4>2, <4>3, Zenon
    <3>2. CASE item.type # "event"
      <4>1. /\ e.p = At(writing[w])
            /\ \A u \in Writers \ {w} : <<u, v>> \in routes => writing'[u] = <<>>
        <5>1. Amid(e.p, v)
          BY <1>1, Zenon DEF Amid
        <5>2. e.p = At(writing[w]) /\ OthersIdle(w, v)
          BY <1>14, <3>2, <5>1, AloneFollows
        <5> QED BY <5>2, Zenon DEF OthersIdle
      <4>2. f = [p |-> At(writing'[w]), s |-> IF done THEN Append(e.s, x) ELSE e.s]
        BY <2>0, <4>1, Zenon DEF FedBy, f
      <4>3. f.p = At(writing'[w]) /\ f.s = IF done THEN Append(e.s, x) ELSE e.s
        BY <4>2
      <4>4. Alone(v)'
        BY <1>2, <4>1 DEF Alone
      <4>5. \A u \in Writers : <<u, v>> \in routes /\ writing'[u] # <<>> => f.p = Open(writing'[u])
        <5> SUFFICES ASSUME NEW u \in Writers, <<u, v>> \in routes, writing'[u] # <<>>
                     PROVE  f.p = Open(writing'[u])
          OBVIOUS
        <5>1. u = w
          BY <4>1
        <5> QED BY <4>3, <5>1, Zenon DEF At
      <4>6. (\A u \in Writers : <<u, v>> \in routes => writing'[u] = <<>>) => f.p = Closed
        BY <1>14, <4>3, Zenon DEF At
      <4> QED BY <4>3, <4>4, <4>5, <4>6
    <3> QED BY <3>1, <3>2
  <2>2. Q[Len(queue')] = f
    BY <1>5, <1>7, <1>14, Zenon
  <2>3. FromRoutes(f.s, v)
    <3>1. CASE done
      <4>1. f.s = Append(e.s, x)
        BY <2>1, <3>1
      <4>2. \A k \in DOMAIN f.s : (k \in DOMAIN e.s /\ f.s[k] = e.s[k]) \/ f.s[k] = x
        BY <1>2, <1>8, <4>1
      <4>3. By(x, w)
        BY <1>2, Zenon
      <4> QED BY <1>9, <1>14, <4>2, <4>3, Zenon DEF FromRoutes
    <3>2. CASE ~done
      BY <1>9, <2>1, <3>2, Zenon
    <3> QED BY <3>1, <3>2
  <2>4. \A i \in 0..Len(queue') : FromRoutes(Q[i].s, v)
    BY <1>1, <1>7, <1>9, <2>3, Zenon
  <2>5. \A i \in 0..Len(queue') : FromRoutes(Q[i].s, v)'
    BY <1>2, <2>4, Zenon DEF FromRoutes
  <2>6. ASSUME NEW u \in Writers, <<u, v>> \in routes
        PROVE  /\ ItemsOf(f.s, u) = written'[u]
               /\ \A i \in 0..Len(queue') : IsPrefix(ItemsOf(Q[i].s, u), written'[u])
    <3>1. ItemsOf(Append(e.s, x), u) = IF By(x, u) THEN Append(ItemsOf(e.s, u), x) ELSE ItemsOf(e.s, u)
      BY <1>2, <1>8, ItemsOfGrows, Zenon
    <3>2. ItemsOf(e.s, u) = written[u]
      BY <1>1, <2>6
    <3>3. written'[u] = IF done /\ u = w THEN Append(written[u], x) ELSE written[u]
      BY <1>11, Zenon DEF Grown
    <3>4. ItemsOf(f.s, u) = written'[u]
      <4>1. CASE done /\ u = w
        BY <1>2, <2>1, <3>1, <3>2, <3>3, <4>1, Zenon
      <4>2. CASE done /\ u # w
        BY <1>2, <2>1, <3>1, <3>2, <3>3, <4>2, Zenon
      <4>3. CASE ~done
        BY <2>1, <3>2, <3>3, <4>3, Zenon
      <4> QED BY <4>1, <4>2, <4>3
    <3>5. IsPrefix(ItemsOf(f.s, u), written'[u])
      <4>1. written'[u] \in Seq(Item)
        <5>1. written[u] \in Seq(Item)
          BY <1>11, Zenon DEF Grown
        <5>2. Append(written[u], x) \in Seq(Item)
          BY <1>2, <5>1
        <5> QED BY <3>3, <5>1, <5>2, Zenon
      <4> QED BY <1>2, <3>4, <4>1, PrefixGrows, Zenon
    <3>6. IsPrefix(ItemsOf(e.s, u), written'[u])
      <4>1. IsPrefix(ItemsOf(e.s, u), written[u])
        BY <1>1, <1>8, <2>6, Zenon DEF e
      <4> QED BY <1>8, <1>12, <4>1
    <3>7. \A i \in 0..Len(queue) : IsPrefix(ItemsOf(R[i].s, u), written'[u])
      BY <1>1, <1>10, <1>12, <2>6, Zenon
    <3>8. \A i \in 0..Len(queue') : IsPrefix(ItemsOf(Q[i].s, u), written'[u])
      BY <1>7, <3>5, <3>6, <3>7, Zenon
    <3> QED BY <3>4, <3>8
  <2>7. routes' = routes
    BY <1>2
  <2>8. VirtualRun(v, Q)'
    BY <1>7, <2>1, <2>2, <2>5, <2>6, <2>7, Zenon DEF VirtualRun, Amid
  <2> QED BY <2>1, <2>8
<1> QED BY <1>13, <1>14

LEMMA WriteStep ==
  ASSUME Typed, OwnPieces, ConnectionOK, SysexOK, VirtualOK, NEW w \in Writers, Writing(w)
  PROVE  ConnectionOK' /\ SysexOK' /\ VirtualOK'
<1>1. PICK item, x, done : Writes(w, item, x, done)
  BY WriteIs
<1>2. fresh' = fresh /\ clean' = clean /\ routes' = routes /\ mixed \subseteq mixed'
  <2>1. fresh' = fresh /\ clean' = clean /\ routes' = routes
    BY <1>1 DEF Writes
  <2>2. CASE UNCHANGED mixed
    BY <2>1, <2>2
  <2>3. CASE mixed' = mixed \cup {v \in Virtuals : <<w, v>> \in routes
                      /\ \E u \in Writers \ {w} : <<u, v>> \in routes /\ writing[u] # <<>>}
    BY <2>1, <2>3
  <2> QED BY <1>1, <2>2, <2>3, Zenon DEF Writes
<1>3. clean \subseteq fresh /\ fresh \subseteq conn
  BY DEF Typed
<1>4. \A u : OnRoute(u)' <=> OnRoute(u)
  BY <1>2 DEF OnRoute
<1>5. ASSUME NEW u \in clean, ~OnRoute(u) PROVE \E Q : ConnectionRun(u, Q)'
  <2>1. PICK R : ConnectionRun(u, R)
    BY <1>5 DEF ConnectionOK
  <2>2. u \in conn
    BY <1>3
  <2> QED BY <1>1, <1>5, <2>1, <2>2, ConnectionWrite, Zenon
<1>6. ASSUME NEW u \in fresh, ~OnRoute(u) PROVE \E Q : SysexRun(u, Q)'
  <2>1. PICK R : SysexRun(u, R)
    BY <1>6 DEF SysexOK
  <2>2. u \in conn
    BY <1>3
  <2> QED BY <1>1, <1>6, <2>1, <2>2, SysexWrite, Zenon
<1>7. ASSUME NEW v \in Virtuals \ mixed' PROVE Alone(v)' /\ \E Q : VirtualRun(v, Q)'
  <2>1. Alone(v) /\ \E R : VirtualRun(v, R)
    BY <1>2 DEF VirtualOK
  <2>2. PICK R : VirtualRun(v, R)
    BY <2>1
  <2> QED BY <1>1, <2>1, <2>2, VirtualWrite, Zenon
<1>8. ConnectionOK'
  BY <1>2, <1>4, <1>5, Zenon DEF ConnectionOK
<1>9. SysexOK'
  BY <1>2, <1>4, <1>6, Zenon DEF SysexOK
<1>10. VirtualOK'
  BY <1>7, Zenon DEF VirtualOK
<1> QED BY <1>8, <1>9, <1>10

-----------------------------------------------------------------------------
(* The theorems.                                                           *)

LEMMA ConsistentInit == Init => Consistent
<1> SUFFICES ASSUME Init PROVE Consistent
  OBVIOUS
<1>1. /\ routes \subseteq Writers \X Virtuals /\ writing = [w \in Writers |-> <<>>]
      /\ queue = <<>> /\ writes = 0 /\ conn = {}
      /\ parser = [s \in Streams |-> Closed] /\ stream = [s \in Streams |-> <<>>]
      /\ written = [w \in Writers |-> <<>>] /\ since = [w \in Writers |-> 0]
      /\ fresh = {} /\ clean = {} /\ mixed = {}
  BY DEF Init
<1>2. <<>> \in Seq(Item) /\ <<>> \in Seq(Stamp) /\ <<>> \in Seq(Entry) /\ Len(<<>>) = 0
      /\ Broken \in Item
  BY DEF Broken, Item
<1>3. Closed \in ParserState
  BY <1>2 DEF Closed, ParserState
<1>4. Typed
  BY <1>1, <1>2, <1>3 DEF Typed
<1>5. OwnPieces
  BY <1>1 DEF OwnPieces
<1>6. ConnectionOK /\ SysexOK
  BY <1>1 DEF ConnectionOK, SysexOK
<1>7. ASSUME NEW v \in Virtuals \ mixed PROVE Alone(v) /\ \E R : VirtualRun(v, R)
  <2>1. Alone(v)
    BY <1>1 DEF Alone
  <2> DEFINE c == [p |-> Closed, s |-> <<>>]
  <2>2. PICK R : R = [i \in 0..0 |-> c]
    OBVIOUS
  <2>3. c \in Reading /\ c.p = Closed /\ c.s = <<>>
    BY <1>2, <1>3 DEF Reading
  <2>4. v \in Streams
    BY DEF Streams
  <2>5. parser[v] = Closed /\ stream[v] = <<>> /\ Len(queue) = 0
    BY <1>1, <2>4
  <2> HIDE DEF c
  <2>6. R \in [0..0 -> Reading] /\ R[0] = c /\ \A i \in 0..0 : R[i] = c
    BY <2>2, <2>3
  <2>7. Run(R, v)
    <3>1. \A i \in 1..0 : R[i] = Then(v, R[i - 1], queue[i])
      OBVIOUS
    <3> QED BY <2>5, <2>6, <3>1, Zenon DEF Run, c
  <2>8. FromRoutes(<<>>, v)
    BY DEF FromRoutes
  <2>9. ASSUME NEW w \in Writers
        PROVE  /\ writing[w] = <<>> /\ ItemsOf(<<>>, w) = written[w]
               /\ IsPrefix(ItemsOf(<<>>, w), written[w])
    <3>1. writing[w] = <<>> /\ written[w] = <<>>
      BY <1>1
    <3>2. ItemsOf(<<>>, w) = <<>> /\ IsPrefix(<<>>, <<>>)
      BY <1>2, ItemsOfGrows, PrefixGrows, Zenon
    <3> QED BY <3>1, <3>2
  <2>10. VirtualRun(v, R)
    BY <2>3, <2>5, <2>6, <2>7, <2>8, <2>9, Zenon DEF VirtualRun, Amid
  <2> QED BY <2>1, <2>10
<1>8. VirtualOK
  BY <1>7, Zenon DEF VirtualOK
<1> QED BY <1>4, <1>5, <1>6, <1>8 DEF Consistent

LEMMA ConsistentStep == Consistent /\ [Next]_vars => Consistent'
<1> SUFFICES ASSUME Consistent, [Next]_vars PROVE Consistent'
  OBVIOUS
<1>1. Typed /\ OwnPieces /\ ConnectionOK /\ SysexOK /\ VirtualOK
  BY DEF Consistent
<1>2. CASE \E w \in Writers : Writing(w)
  BY <1>1, <1>2, TypedWrite, WriteStep, Zenon DEF Consistent
<1>3. CASE \E w \in Writers : Connect(w)
  BY <1>1, <1>3, TypedConnect, ConnectStep, Zenon DEF Consistent
<1>4. CASE \E w \in Writers : Disconnect(w)
  <2>1. Typed' /\ OwnPieces'
    BY <1>1, <1>4, TypedConnect, Zenon
  <2>2. ConnectionOK' /\ SysexOK' /\ VirtualOK'
    BY <1>1, <1>4, QuietStep, Zenon
  <2> QED BY <2>1, <2>2 DEF Consistent
<1>5. CASE RouteEvent \/ RoutePiece
  <2>1. Typed' /\ OwnPieces'
    BY <1>1, <1>5, TypedRoute, Zenon
  <2>2. ConnectionOK' /\ SysexOK' /\ VirtualOK'
    BY <1>1, <1>5, QuietStep, Zenon
  <2> QED BY <2>1, <2>2 DEF Consistent
<1>6. CASE UNCHANGED vars
  <2>1. Typed' /\ OwnPieces'
    BY <1>1, <1>6 DEF Typed, OwnPieces, vars, outside, registry, history
  <2>2. ConnectionOK' /\ SysexOK' /\ VirtualOK'
    BY <1>1, <1>6, QuietStep, Zenon
  <2> QED BY <2>1, <2>2 DEF Consistent
<1>7. \/ \E w \in Writers : Writing(w) \/ Connect(w) \/ Disconnect(w)
      \/ RouteEvent \/ RoutePiece \/ UNCHANGED vars
  BY Zenon DEF Next, Writing
<1> QED BY <1>2, <1>3, <1>4, <1>5, <1>6, <1>7, Zenon

\* Every connection and every virtual destination has a run over what is queued
\* that ends in what its writers wrote and are amid.
THEOREM ConsistentAlways == Spec => []Consistent
<1>1. Init => Consistent
  BY ConsistentInit
<1>2. Consistent /\ [Next]_vars => Consistent'
  BY ConsistentStep
<1> QED BY <1>1, <1>2, PTL DEF Spec

\* The ends of a run.
LEMMA RunEnds ==
  ASSUME Typed, NEW s \in Streams, NEW R, Run(R, s)
  PROVE  /\ 0 \in 0..Len(queue) /\ R[0].s = stream[s]
         /\ queue = <<>> => R[Len(queue)].s = stream[s]
<1>1. Len(queue) \in Nat /\ (queue = <<>> => Len(queue) = 0)
  BY DEF Typed
<1>2. R[0] = [p |-> parser[s], s |-> stream[s]]
  BY Zenon DEF Run
<1>3. R[0].s = stream[s]
  BY <1>2
<1> QED BY <1>1, <1>3

\* A connection made between two SysEx is given what its source writes, once, in
\* order and nothing else, up to what is queued.
THEOREM ConnectionExactAlways == Spec => []ConnectionExact
<1>1. Consistent => ConnectionExact
  <2> SUFFICES ASSUME Consistent, NEW w \in clean, ~OnRoute(w)
               PROVE  /\ IsPrefix(stream[w], Promised(w))
                      /\ queue = <<>> => stream[w] = Promised(w)
    BY Zenon DEF ConnectionExact
  <2>1. Typed /\ w \in Streams
    BY DEF Consistent, Typed, Streams
  <2>2. PICK R : ConnectionRun(w, R)
    BY DEF Consistent, ConnectionOK
  <2>3. /\ Run(R, w)
        /\ R[Len(queue)] = [p |-> At(writing[w]), s |-> Promised(w)]
        /\ \A i \in 0..Len(queue) : IsPrefix(R[i].s, Promised(w))
    BY <2>2, Zenon DEF ConnectionRun
  <2>4. /\ 0 \in 0..Len(queue) /\ R[0].s = stream[w]
        /\ queue = <<>> => R[Len(queue)].s = stream[w]
    BY <2>1, <2>3, RunEnds
  <2>5. R[Len(queue)].s = Promised(w)
    BY <2>3
  <2>6. IsPrefix(stream[w], Promised(w))
    BY <2>3, <2>4, Zenon
  <2> QED BY <2>4, <2>5, <2>6
<1> QED BY <1>1, ConsistentAlways, PTL

\* A SysEx of a connection is one its source wrote whole.
THEOREM SysexWholeAlways == Spec => []SysexWhole
<1>1. Consistent => SysexWhole
  <2> SUFFICES ASSUME Consistent, NEW w \in fresh, ~OnRoute(w) PROVE Whole(stream[w], written[w])
    BY Zenon DEF SysexWhole, Whole
  <2>1. Typed /\ w \in Streams
    BY DEF Consistent, Typed, Streams
  <2>2. PICK R : SysexRun(w, R)
    BY DEF Consistent, SysexOK
  <2>3. Run(R, w) /\ \A i \in 0..Len(queue) : Whole(R[i].s, written[w])
    BY <2>2, Zenon DEF SysexRun
  <2>4. 0 \in 0..Len(queue) /\ R[0].s = stream[w]
    BY <2>1, <2>3, RunEnds
  <2> QED BY <2>3, <2>4, Zenon
<1> QED BY <1>1, ConsistentAlways, PTL

\* A virtual destination that no two writers wrote SysEx to at once is given what
\* each of them wrote, once, in order and nothing else, up to what is queued.
THEOREM VirtualExactAlways == Spec => []VirtualExact
<1>1. Consistent => VirtualExact
  <2> SUFFICES ASSUME Consistent, NEW v \in Virtuals \ mixed
               PROVE  /\ FromRoutes(stream[v], v)
                      /\ \A w \in Writers : <<w, v>> \in routes =>
                           /\ IsPrefix(ItemsOf(stream[v], w), written[w])
                           /\ queue = <<>> => ItemsOf(stream[v], w) = written[w]
    BY Zenon DEF VirtualExact, FromRoutes
  <2>1. Typed /\ v \in Streams
    BY DEF Consistent, Streams
  <2>2. PICK R : VirtualRun(v, R)
    BY DEF Consistent, VirtualOK
  <2>3. /\ Run(R, v)
        /\ \A i \in 0..Len(queue) : FromRoutes(R[i].s, v)
        /\ \A w \in Writers : <<w, v>> \in routes =>
             /\ ItemsOf(R[Len(queue)].s, w) = written[w]
             /\ \A i \in 0..Len(queue) : IsPrefix(ItemsOf(R[i].s, w), written[w])
    BY <2>2, Zenon DEF VirtualRun
  <2>4. /\ 0 \in 0..Len(queue) /\ R[0].s = stream[v]
        /\ queue = <<>> => R[Len(queue)].s = stream[v]
    BY <2>1, <2>3, RunEnds
  <2> QED BY <2>3, <2>4, Zenon
<1> QED BY <1>1, ConsistentAlways, PTL

=============================================================================
