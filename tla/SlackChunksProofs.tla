-------------------------- MODULE SlackChunksProofs --------------------------
(***************************************************************************)
(* Proofs about splitIntoChunks, for every limit and for texts of any      *)
(* number of lines of any length.                                          *)
(***************************************************************************)
EXTENDS SlackChunks, TLAPS

-----------------------------------------------------------------------------
(* Arithmetic of hardSplit.                                                *)

LEMMA ProductType == ASSUME NEW a \in Nat, NEW b \in Nat PROVE a * b \in Nat
OBVIOUS

LEMMA ProductMonotonic ==
  ASSUME NEW a \in Nat, NEW b \in Nat, NEW m \in Nat, a <= b
  PROVE  a * m <= b * m
OBVIOUS

\* A line of x characters is x \div m whole pieces of m and a shorter one.
LEMMA Division ==
  ASSUME NEW x \in Nat, NEW m \in Nat \ {0}
  PROVE  /\ x \div m \in Nat /\ x % m \in 0..(m - 1)
         /\ x = (x \div m) * m + (x % m)
OBVIOUS

\* The bounds of piece p, counted from 1.
LEMMA PieceBounds ==
  ASSUME NEW p \in Nat \ {0}, NEW m \in Nat \ {0}
  PROVE  /\ (p - 1) * m \in Nat /\ p * m \in Nat
         /\ p * m = (p - 1) * m + m
         /\ ((p + 1) - 1) * m = p * m
OBVIOUS

LEMMA WholePieceInside ==
  ASSUME NEW x \in Nat, NEW m \in Nat \ {0}, NEW p \in 1..(x \div m)
  PROVE  p * m <= x
<1>1. x \div m \in Nat /\ x % m \in Nat /\ x = (x \div m) * m + (x % m)
  BY Division
<1>2. p \in Nat /\ p <= x \div m
  BY <1>1
<1>3. p * m <= (x \div m) * m
  BY <1>1, <1>2, ProductMonotonic
<1>4. p * m \in Nat /\ (x \div m) * m \in Nat
  BY <1>1, <1>2, ProductType
<1> QED
  BY <1>1, <1>3, <1>4

\* Position q of a line is in one of the pieces.
LEMMA PieceOfPosition ==
  ASSUME NEW x \in Nat, NEW m \in Nat \ {0}, NEW q \in 1..x
  PROVE  \/ \E p \in 1..(x \div m) : \E r \in 1..m : q = (p - 1) * m + r
         \/ \E r \in 1..(x % m) : q = (x \div m) * m + r
<1> DEFINE d == (q - 1) \div m
           r == ((q - 1) % m) + 1
           w == x \div m
<1>1. q - 1 \in Nat
  OBVIOUS
<1>2. /\ d \in Nat /\ r \in 1..m /\ q - 1 = d * m + (r - 1)
      /\ w \in Nat /\ x % m \in Nat /\ x = w * m + (x % m)
  BY <1>1, Division
<1>3. d * m \in Nat /\ w * m \in Nat
  BY <1>2, ProductType
<1> HIDE DEF d, r, w
<1>4. q = d * m + r
  BY <1>1, <1>2, <1>3
<1>5. CASE d < w
  <2>1. d + 1 \in 1..w /\ (d + 1) - 1 = d
    BY <1>2, <1>5
  <2> QED
    BY <1>2, <1>4, <2>1 DEF w
<1>6. CASE ~(d < w)
  <2>1. w <= d
    BY <1>2, <1>6
  <2>2. w * m <= d * m
    BY <1>2, <2>1, ProductMonotonic
  <2> DEFINE rest == q - w * m
  <2>3. rest \in 1..(x % m) /\ q = w * m + rest
    BY <1>2, <1>3, <1>4, <2>2
  <2> QED
    BY <2>3 DEF w
<1> QED
  BY <1>5, <1>6

-----------------------------------------------------------------------------
(* The invariant over a text, its lines seen and its chunks, as constants.  *)

CharOf(ls) == (1..Len(ls)) \X Nat

WholeIn(ls, s) ==
  \A p \in DOMAIN s : ls[s[p][1]].len \in 1..MaxLen =>
    \A q \in 1..ls[s[p][1]].len : Holds(s, <<s[p][1], q>>)

Good(ls, s) == Len(s) \in 1..MaxLen /\ Joined(s) /\ WholeIn(ls, s)

TextOf(ls, seen, s) ==
  \A p \in DOMAIN s : s[p][1] \in 1..seen /\ s[p][2] \in 0..ls[s[p][1]].len

Present(ls, seen, all) ==
  \A l \in 1..seen : \A q \in 1..ls[l].len : \E k \in DOMAIN all : Holds(all[k], <<l, q>>)

InOrder(ls, seen, all) ==
  \A k \in DOMAIN all :
    /\ TextOf(ls, seen, all[k])
    /\ Ascending(all[k])
    /\ k > 1 => Follows(all[k - 1], all[k])

LEMMA ShapeMeans ==
  ShapeInv <=> /\ \A k \in DOMAIN chunks : Good(lines, chunks[k])
               /\ Joined(current) /\ WholeIn(lines, current)
BY Zenon DEF ShapeInv, ChunksFit, LinesKept, ShortLinesWhole, WholeLines, Good, WholeIn

LEMMA ShapeMeansNext ==
  ShapeInv' <=> /\ \A k \in DOMAIN chunks' : Good(lines', chunks'[k])
                /\ Joined(current') /\ WholeIn(lines', current')
BY Zenon DEF ShapeInv, ChunksFit, LinesKept, ShortLinesWhole, WholeLines, Good, WholeIn, Joined

LEMMA TextMeans ==
  NothingLost <=> Present(lines, Seen, AllChunks) /\ InOrder(lines, Seen, AllChunks)
BY Zenon DEF NothingLost, Present, InOrder, TextOf, OfText

LEMMA TextMeansNext ==
  NothingLost' <=> Present(lines', Seen', AllChunks') /\ InOrder(lines', Seen', AllChunks')
BY Zenon DEF NothingLost, Present, InOrder, TextOf, OfText

-----------------------------------------------------------------------------
(* Chunks of characters.                                                   *)

LEMMA SequenceOf ==
  ASSUME NEW n \in Nat, NEW S, NEW f \in [1..n -> S]
  PROVE  f \in Seq(S) /\ Len(f) = n
OBVIOUS

LEMMA LineType ==
  ASSUME NEW ls \in Seq(Line), NEW k \in 1..Len(ls)
  PROVE  ls[k].len \in Nat /\ ls[k].bytes \in Nat /\ ls[k].bytes >= 1
<1>1. ls[k] \in Line
  OBVIOUS
<1> QED
  BY <1>1, ChunkAssumption DEF Line

\* Characters that stand as in the text are in the order of the text.
LEMMA JoinedAscends ==
  ASSUME NEW ls, NEW s \in Seq(CharOf(ls)), Joined(s)
  PROVE  Ascending(s)
<1> SUFFICES ASSUME NEW p \in DOMAIN s, p > 1
             PROVE  Before(s[p - 1], s[p])
  BY DEF Ascending
<1>1. p - 1 \in DOMAIN s /\ s[p - 1] \in CharOf(ls)
  OBVIOUS
<1>2. s[p - 1][1] \in Int /\ s[p - 1][2] \in Int
  BY <1>1 DEF CharOf
<1>3. \/ s[p] = <<s[p - 1][1], s[p - 1][2] + 1>>
      \/ s[p] = <<s[p - 1][1] + 1, 0>>
  BY DEF Joined, Newline
<1>4. CASE s[p] = <<s[p - 1][1], s[p - 1][2] + 1>>
  <2>1. s[p][1] = s[p - 1][1] /\ s[p][2] = s[p - 1][2] + 1
    BY <1>4
  <2> QED
    BY <1>2, <2>1 DEF Before
<1>5. CASE s[p] = <<s[p - 1][1] + 1, 0>>
  <2>1. s[p][1] = s[p - 1][1] + 1
    BY <1>5
  <2> QED
    BY <1>2, <2>1 DEF Before
<1> QED
  BY <1>3, <1>4, <1>5

\* A line that fits a chunk has no piece but itself.
WholeIfShort(ls, k, a, b) ==
  ls[k].len \in 1..MaxLen /\ a < b => a = 0 /\ b = ls[k].len

\* s is a part of line k: the characters after the first a, up to b.
IsPart(ls, k, a, b, s) ==
  /\ s \in Seq(CharOf(ls)) /\ Len(s) = b - a
  /\ \A p \in 1..(b - a) : s[p] = <<k, a + p>>
  /\ Joined(s) /\ WholeIn(ls, s) /\ TextOf(ls, k, s)

LEMMA PieceFacts ==
  ASSUME NEW ls \in Seq(Line), NEW k \in 1..Len(ls), NEW a \in Nat, NEW b \in Nat,
         a <= b, b <= ls[k].len,
         WholeIfShort(ls, k, a, b),
         NEW s, s = Chars(k, a + 1, b)
  PROVE  IsPart(ls, k, a, b, s)
<1> DEFINE n == ls[k].len
<1>1. k \in Nat /\ k >= 1 /\ n \in Nat /\ b - a \in Nat
  BY LineType
<1>2. s = [p \in 1..(b - a) |-> <<k, a + p>>]
  <2>1. b - (a + 1) + 1 = b - a /\ \A p \in 1..(b - a) : a + 1 + p - 1 = a + p
    BY <1>1
  <2> QED
    BY <2>1 DEF Chars
<1>3. \A p \in 1..(b - a) : a + p \in Nat /\ <<k, a + p>> \in CharOf(ls)
  BY <1>1 DEF CharOf
<1>4. s \in Seq(CharOf(ls)) /\ Len(s) = b - a /\ \A p \in 1..(b - a) : s[p] = <<k, a + p>>
  <2>1. s \in [1..(b - a) -> CharOf(ls)]
    BY <1>2, <1>3
  <2>2. s \in Seq(CharOf(ls)) /\ Len(s) = b - a
    BY <1>1, <2>1, SequenceOf
  <2> QED
    BY <1>2, <2>2
<1>5. DOMAIN s = 1..(b - a) /\ \A p \in 1..(b - a) : s[p][1] = k /\ s[p][2] = a + p
  BY <1>2
<1>6. Joined(s)
  <2> SUFFICES ASSUME NEW p \in 1..(b - a), p > 1
               PROVE  s[p][2] > 0 /\ s[p] = <<s[p - 1][1], s[p - 1][2] + 1>>
    BY <1>5 DEF Joined
  <2>1. p - 1 \in 1..(b - a) /\ a + p = (a + (p - 1)) + 1 /\ a + p > 0
    <3>1. b - a \in Nat /\ a \in Nat
      BY <1>1
    <3> HIDE DEF n
    <3> QED
      BY <3>1
  <2>2. s[p] = <<k, a + p>> /\ s[p][2] = a + p
    BY <1>4, <1>5
  <2>3. s[p - 1][1] = k /\ s[p - 1][2] = a + (p - 1)
    BY <1>5, <2>1
  <2> QED
    BY <2>1, <2>2, <2>3
<1>7. WholeIn(ls, s)
  <2> SUFFICES ASSUME NEW p \in 1..(b - a), n \in 1..MaxLen, NEW q \in 1..n
               PROVE  Holds(s, <<k, q>>)
    BY <1>4, <1>5 DEF WholeIn
  <2>1. a = 0 /\ b = n
    BY <1>1 DEF WholeIfShort
  <2>2. q \in 1..(b - a) /\ a + q = q
    BY <1>1, <2>1
  <2> QED
    BY <1>4, <1>5, <2>2 DEF Holds
<1>8. TextOf(ls, k, s)
  <2> SUFFICES ASSUME NEW p \in 1..(b - a)
               PROVE  k \in 1..k /\ a + p \in 0..n
    BY <1>5, Zenon DEF TextOf
  <2> QED
    BY <1>1
<1> QED
  BY <1>4, <1>6, <1>7, <1>8 DEF IsPart

LEMMA PlaceInLine ==
  ASSUME NEW p \in Nat, NEW m \in Nat, NEW j \in Nat, j <= 1, p > m + 1
  PROVE  p - m - j > 0 /\ p - m - j = ((p - 1) - m - j) + 1
OBVIOUS

\* The newlines between s and a line joined to it, and s with line k joined.
Gap(s) == IF s = <<>> THEN 0 ELSE 1

WithLine(ls, k, s) ==
  (IF s # <<>> THEN Append(s, Newline(k)) ELSE s) \o Chars(k, 1, ls[k].len)

\* t is s and line k, character by character.
Extends(t, s, k) ==
  \A p \in 1..Len(t) : t[p] = IF p <= Len(s) THEN s[p] ELSE <<k, p - Len(s) - Gap(s)>>

\* Line k joined to a chunk s that ends with the line before it, j newlines
\* between them: t is as good as s, and has the characters of both.
LEMMA Joining ==
  ASSUME NEW ls \in Seq(Line), NEW k \in 1..Len(ls),
         NEW s \in Seq(CharOf(ls)), NEW t \in Seq(CharOf(ls)),
         Len(t) = Len(s) + Gap(s) + ls[k].len, Extends(t, s, k),
         s # <<>> => s[Len(s)][1] = k - 1,
         Joined(s), WholeIn(ls, s), TextOf(ls, k - 1, s)
  PROVE  /\ Joined(t) /\ WholeIn(ls, t) /\ TextOf(ls, k, t)
         /\ \A c : Holds(s, c) => Holds(t, c)
         /\ \A q \in 1..ls[k].len : Holds(t, <<k, q>>)
         /\ t # <<>> => t[Len(t)][1] = k
<1> DEFINE n == ls[k].len
           m == Len(s)
           j == Gap(s)
<1>0. j = (IF s = <<>> THEN 0 ELSE 1) /\ \A p \in 1..Len(t) : t[p] = IF p <= m THEN s[p] ELSE <<k, p - m - j>>
  BY DEF Gap, Extends
<1>1. /\ k \in Nat /\ k >= 1 /\ n \in Nat /\ m \in Nat /\ j \in Nat /\ m + j + n \in Nat
      /\ DOMAIN s = 1..m /\ DOMAIN t = 1..(m + j + n) /\ j \in {0, 1} /\ Len(t) = m + j + n
  BY <1>0, LineType
<1>a. s # <<>> => s[m][1] = k - 1
  OBVIOUS
<1>b. m = 0 <=> s = <<>>
  OBVIOUS
<1> HIDE DEF m, j
<1>2. \A p \in 1..m : p \in DOMAIN t /\ t[p] = s[p]
  BY <1>0, <1>1
<1>3. \A p \in (m + 1)..(m + j + n) :
        p \in DOMAIN t /\ t[p] = <<k, p - m - j>> /\ p - m - j \in 0..n
  <2> TAKE p \in (m + 1)..(m + j + n)
  <2>1. p \in Int /\ p \in 1..(m + j + n) /\ ~(p <= m)
    BY <1>1
  <2>2. p - m - j \in 0..n
    BY <1>1, <2>1
  <2> QED
    BY <1>0, <1>1, <2>1, <2>2
<1>5. \A c : Holds(s, c) => Holds(t, c)
  BY <1>1, <1>2 DEF Holds
<1>6. \A q \in 1..n : Holds(t, <<k, q>>)
  <2> TAKE q \in 1..n
  <2>1. m + j + q \in (m + 1)..(m + j + n) /\ (m + j + q) - m - j = q
    BY <1>1
  <2>2. t[m + j + q] = <<k, q>> /\ m + j + q \in DOMAIN t
    BY <1>3, <2>1
  <2> QED
    BY <2>2 DEF Holds
<1>7. Joined(t)
  <2> SUFFICES ASSUME NEW p \in DOMAIN t, p > 1
               PROVE  \/ t[p][2] > 0 /\ t[p] = <<t[p - 1][1], t[p - 1][2] + 1>>
                      \/ t[p] = Newline(t[p - 1][1] + 1)
    BY DEF Joined
  <2>0. p \in Nat /\ p - 1 \in Nat /\ p <= m + j + n
    BY <1>1
  <2>1. CASE p <= m
    <3>1. p \in 1..m /\ p - 1 \in 1..m
      BY <1>1, <2>0, <2>1
    <3>2. t[p] = s[p] /\ t[p - 1] = s[p - 1]
      BY <1>2, <3>1
    <3>3. \/ s[p][2] > 0 /\ s[p] = <<s[p - 1][1], s[p - 1][2] + 1>>
          \/ s[p] = Newline(s[p - 1][1] + 1)
      BY <1>1, <3>1 DEF Joined
    <3> QED
      BY <3>2, <3>3
  <2>2. CASE p = m + 1
    <3>1. m \in 1..m /\ s # <<>> /\ j = 1 /\ p - 1 = m
      BY <1>0, <1>1, <1>b, <2>0, <2>2
    <3>2. t[p - 1][1] = k - 1
      BY <1>2, <1>a, <3>1
    <3>3. p \in (m + 1)..(m + j + n) /\ p - m - j = 0
      BY <1>1, <2>0, <2>2, <3>1
    <3>4. t[p] = <<k, 0>>
      BY <1>3, <3>3
    <3>5. (k - 1) + 1 = k
      BY <1>1
    <3> QED
      BY <3>2, <3>4, <3>5 DEF Newline
  <2>3. CASE p > m + 1
    <3>1. p \in (m + 1)..(m + j + n) /\ p - 1 \in (m + 1)..(m + j + n)
      BY <1>1, <2>0, <2>3
    <3>2. t[p] = <<k, p - m - j>> /\ t[p - 1] = <<k, (p - 1) - m - j>>
      BY <1>3, <3>1
    <3>3. p - m - j > 0 /\ p - m - j = ((p - 1) - m - j) + 1
      <4>1. j <= 1
        BY <1>1
      <4>2. p \in Nat /\ m \in Nat /\ j \in Nat /\ p > m + 1
        BY <1>1, <2>0, <2>3
      <4> QED
        BY <4>1, <4>2, PlaceInLine
    <3> QED
      BY <3>2, <3>3
  <2>4. p <= m \/ p = m + 1 \/ p > m + 1
    BY <1>1, <2>0
  <2> QED
    BY <2>1, <2>2, <2>3, <2>4
<1>8. WholeIn(ls, t)
  <2> SUFFICES ASSUME NEW p \in DOMAIN t, ls[t[p][1]].len \in 1..MaxLen,
                      NEW q \in 1..ls[t[p][1]].len
               PROVE  Holds(t, <<t[p][1], q>>)
    BY DEF WholeIn
  <2>1. CASE p <= m
    <3>1. p \in 1..m /\ t[p] = s[p]
      BY <1>1, <1>2, <2>1
    <3>2. Holds(s, <<s[p][1], q>>)
      BY <1>1, <3>1 DEF WholeIn
    <3> QED
      BY <1>5, <3>1, <3>2
  <2>2. CASE p > m
    <3>1. p \in (m + 1)..(m + j + n)
      BY <1>1, <2>2
    <3>2. t[p][1] = k
      BY <1>3, <3>1
    <3> QED
      BY <1>6, <3>2
  <2> QED
    BY <1>1, <2>1, <2>2
<1>9. TextOf(ls, k, t)
  <2> SUFFICES ASSUME NEW p \in DOMAIN t
               PROVE  t[p][1] \in 1..k /\ t[p][2] \in 0..ls[t[p][1]].len
    BY DEF TextOf
  <2>1. CASE p <= m
    <3>1. p \in 1..m /\ t[p] = s[p]
      BY <1>1, <1>2, <2>1
    <3>2. s[p][1] \in 1..(k - 1) /\ s[p][2] \in 0..ls[s[p][1]].len
      BY <1>1, <3>1 DEF TextOf
    <3>3. s[p][1] \in 1..k
      BY <1>1, <3>2
    <3> QED
      BY <3>1, <3>2, <3>3
  <2>2. CASE p > m
    <3>1. p \in (m + 1)..(m + j + n)
      BY <1>1, <2>2
    <3>2. t[p] = <<k, p - m - j>> /\ p - m - j \in 0..n
      BY <1>3, <3>1
    <3>3. t[p][1] = k /\ t[p][2] = p - m - j
      BY <3>2
    <3> QED
      BY <1>1, <3>2, <3>3
  <2> QED
    BY <1>1, <2>1, <2>2
<1>10. t # <<>> => t[Len(t)][1] = k
  <2> HAVE t # <<>>
  <2>1. Len(t) > 0
    BY <1>1
  <2>2. Len(t) \in (m + 1)..(m + j + n)
    BY <1>0, <1>1, <1>b, <2>1
  <2> QED
    BY <1>3, <2>2
<1> QED
  BY <1>5, <1>6, <1>7, <1>8, <1>9, <1>10

-----------------------------------------------------------------------------
(* Lists of chunks.                                                        *)

LEMMA AppendAt ==
  ASSUME NEW S, NEW c \in Seq(S), NEW s \in S
  PROVE  /\ Append(c, s) \in Seq(S) /\ Len(Append(c, s)) = Len(c) + 1
         /\ \A k \in 1..Len(c) : Append(c, s)[k] = c[k]
         /\ Append(c, s)[Len(c) + 1] = s
OBVIOUS

LEMMA ConcatAt ==
  ASSUME NEW S, NEW c \in Seq(S), NEW d \in Seq(S)
  PROVE  /\ c \o d \in Seq(S) /\ Len(c \o d) = Len(c) + Len(d)
         /\ \A k \in 1..Len(c) : (c \o d)[k] = c[k]
         /\ \A k \in 1..Len(d) : (c \o d)[Len(c) + k] = d[k]
OBVIOUS

\* Characters of the lines before k come before those of line k.
LEMMA OlderFirst ==
  ASSUME NEW ls, NEW k \in Nat, NEW u \in Seq(CharOf(ls)), NEW v \in Seq(CharOf(ls)),
         TextOf(ls, k - 1, u), v # <<>> => v[1][1] = k
  PROVE  Follows(u, v)
<1> SUFFICES ASSUME u # <<>>, v # <<>>
             PROVE  Before(u[Len(u)], v[1])
  BY DEF Follows
<1>1. Len(u) \in DOMAIN u
  OBVIOUS
<1>2. u[Len(u)][1] \in 1..(k - 1)
  BY <1>1 DEF TextOf
<1> QED
  BY <1>2 DEF Before

LEMMA SeesMore ==
  ASSUME NEW ls, NEW k \in Nat, NEW s, TextOf(ls, k - 1, s)
  PROVE  TextOf(ls, k, s)
<1> SUFFICES ASSUME NEW p \in DOMAIN s
             PROVE  s[p][1] \in 1..k /\ s[p][2] \in 0..ls[s[p][1]].len
  BY DEF TextOf
<1>1. s[p][1] \in 1..(k - 1) /\ s[p][2] \in 0..ls[s[p][1]].len
  BY DEF TextOf
<1>2. \A x \in 1..(k - 1) : x \in 1..k
  OBVIOUS
<1> QED
  BY <1>1, <1>2

\* A running chunk without characters may be left out.
LEMMA Flush ==
  ASSUME NEW ls, NEW seen, NEW c \in Seq(Seq(CharOf(ls))), NEW s \in Seq(CharOf(ls)),
         NEW F, F = IF s # <<>> THEN Append(c, s) ELSE c,
         Present(ls, seen, Append(c, s)), InOrder(ls, seen, Append(c, s)),
         \A k \in DOMAIN c : Good(ls, c[k]),
         MaxLen \in Nat, Len(s) <= MaxLen, Joined(s), WholeIn(ls, s)
  PROVE  /\ F \in Seq(Seq(CharOf(ls)))
         /\ Present(ls, seen, F) /\ InOrder(ls, seen, F)
         /\ \A k \in DOMAIN F : Good(ls, F[k])
<1> DEFINE all == Append(c, s)
<1>1. /\ all \in Seq(Seq(CharOf(ls))) /\ Len(all) = Len(c) + 1
      /\ \A k \in 1..Len(c) : all[k] = c[k]
      /\ all[Len(c) + 1] = s
  BY AppendAt
<1>2. /\ Len(c) \in Nat /\ DOMAIN c = 1..Len(c) /\ DOMAIN all = 1..(Len(c) + 1)
      /\ \A k \in 1..(Len(c) + 1) : k \in 1..Len(c) \/ k = Len(c) + 1
  BY <1>1
<1>3. CASE s # <<>>
  <2>1. F = all
    BY <1>3
  <2>2. Good(ls, s)
    <3>1. Len(s) \in 1..MaxLen
      BY <1>3
    <3> QED
      BY <3>1 DEF Good
  <2> HIDE DEF all
  <2> QED
    BY <1>1, <1>2, <2>1, <2>2 DEF all
<1>4. CASE s = <<>>
  <2>1. F = c
    BY <1>4
  <2> HIDE DEF all
  <2>2. \A x : ~Holds(s, x)
    BY <1>4 DEF Holds
  <2>3. Present(ls, seen, c)
    <3> SUFFICES ASSUME NEW l \in 1..seen, NEW q \in 1..ls[l].len
                 PROVE  \E k \in DOMAIN c : Holds(c[k], <<l, q>>)
      BY DEF Present
    <3>1. PICK k \in DOMAIN all : Holds(all[k], <<l, q>>)
      BY DEF Present, all
    <3> QED
      BY <1>1, <1>2, <2>2, <3>1
  <2>4. InOrder(ls, seen, c)
    <3> SUFFICES ASSUME NEW k \in DOMAIN c
                 PROVE  /\ TextOf(ls, seen, c[k]) /\ Ascending(c[k])
                        /\ k > 1 => Follows(c[k - 1], c[k])
      BY DEF InOrder
    <3>0. k \in 1..Len(c) /\ k \in 1..(Len(c) + 1) /\ (k > 1 => k - 1 \in 1..Len(c))
      BY <1>2
    <3>1. k \in DOMAIN all /\ all[k] = c[k] /\ (k > 1 => all[k - 1] = c[k - 1])
      BY <1>1, <1>2, <3>0
    <3> QED
      BY <3>1 DEF InOrder, all
  <2> QED
    BY <2>1, <2>3, <2>4
<1> QED
  BY <1>3, <1>4

\* The running chunk grown by line k, from s to t.
LEMMA GrowKeepsText ==
  ASSUME NEW ls, NEW k \in Nat \ {0}, NEW c \in Seq(Seq(CharOf(ls))),
         NEW s \in Seq(CharOf(ls)), NEW t \in Seq(CharOf(ls)),
         Present(ls, k - 1, Append(c, s)), InOrder(ls, k - 1, Append(c, s)),
         Joined(t), TextOf(ls, k, t),
         \A x : Holds(s, x) => Holds(t, x),
         \A q \in 1..ls[k].len : Holds(t, <<k, q>>),
         s # <<>> => t[1] = s[1],
         s = <<>> /\ t # <<>> => t[1][1] = k
  PROVE  Present(ls, k, Append(c, t)) /\ InOrder(ls, k, Append(c, t))
<1> DEFINE old == Append(c, s)
           new == Append(c, t)
<1>1. /\ old \in Seq(Seq(CharOf(ls))) /\ Len(old) = Len(c) + 1
      /\ \A d \in 1..Len(c) : old[d] = c[d]
      /\ old[Len(c) + 1] = s
  BY AppendAt
<1>2. /\ new \in Seq(Seq(CharOf(ls))) /\ Len(new) = Len(c) + 1
      /\ \A d \in 1..Len(c) : new[d] = c[d]
      /\ new[Len(c) + 1] = t
  BY AppendAt
<1>3. Present(ls, k - 1, old) /\ InOrder(ls, k - 1, old)
  OBVIOUS
<1> HIDE DEF old, new
<1>4. /\ Len(c) \in Nat /\ DOMAIN c = 1..Len(c)
      /\ DOMAIN old = 1..(Len(c) + 1) /\ DOMAIN new = 1..(Len(c) + 1)
      /\ \A d \in 1..(Len(c) + 1) : d \in 1..Len(c) \/ d = Len(c) + 1
      /\ \A d \in 1..Len(c) : d \in 1..(Len(c) + 1)
      /\ Len(c) + 1 \in 1..(Len(c) + 1)
  BY <1>1, <1>2
<1>5. Present(ls, k, new)
  <2> SUFFICES ASSUME NEW l \in 1..k, NEW q \in 1..ls[l].len
               PROVE  \E d \in DOMAIN new : Holds(new[d], <<l, q>>)
    BY DEF Present
  <2>1. CASE l = k
    BY <1>2, <1>4, <2>1
  <2>2. CASE l \in 1..(k - 1)
    <3>1. PICK d \in DOMAIN old : Holds(old[d], <<l, q>>)
      BY <1>3, <2>2 DEF Present
    <3> QED
      BY <1>1, <1>2, <1>4, <3>1
  <2>3. l = k \/ l \in 1..(k - 1)
    OBVIOUS
  <2> QED
    BY <2>1, <2>2, <2>3
<1>6. InOrder(ls, k, new)
  <2> SUFFICES ASSUME NEW d \in DOMAIN new
               PROVE  /\ TextOf(ls, k, new[d]) /\ Ascending(new[d])
                      /\ d > 1 => Follows(new[d - 1], new[d])
    BY DEF InOrder
  <2>0. \A e \in DOMAIN old : /\ TextOf(ls, k - 1, old[e]) /\ Ascending(old[e])
                              /\ e > 1 => Follows(old[e - 1], old[e])
    BY <1>3 DEF InOrder
  <2>1. CASE d \in 1..Len(c)
    <3>0. d > 1 => d - 1 \in 1..Len(c)
      BY <1>4, <2>1
    <3>1. new[d] = old[d] /\ d \in DOMAIN old /\ (d > 1 => new[d - 1] = old[d - 1])
      BY <1>1, <1>2, <1>4, <2>1, <3>0
    <3> QED
      BY <2>0, <3>1, SeesMore
  <2>2. CASE d = Len(c) + 1
    <3>1. new[d] = t /\ Ascending(t)
      BY <1>2, <2>2, JoinedAscends
    <3>2. ASSUME d > 1 PROVE Follows(new[d - 1], t)
      <4>1. d - 1 \in 1..Len(c) /\ d - 1 = Len(c)
        BY <1>4, <2>2, <3>2
      <4>2. new[d - 1] = c[d - 1] /\ old[d - 1] = c[d - 1] /\ c[d - 1] \in Seq(CharOf(ls))
        BY <1>1, <1>2, <1>4, <4>1
      <4>3. CASE s # <<>>
        <5>1. Follows(c[d - 1], s)
          BY <1>1, <1>4, <2>0, <2>2, <3>2, <4>2
        <5> QED
          BY <4>2, <4>3, <5>1 DEF Follows
      <4>4. CASE s = <<>>
        <5>1. TextOf(ls, k - 1, c[d - 1])
          BY <1>4, <2>0, <4>1, <4>2
        <5> QED
          BY <4>2, <4>4, <5>1, OlderFirst
      <4> QED
        BY <4>3, <4>4
    <3> QED
      BY <3>1, <3>2
  <2> QED
    BY <1>4, <2>1, <2>2
<1> QED
  BY <1>5, <1>6 DEF new

\* The pieces of line k, of m characters each, and what is left of it.
Pieces(ls, k, m) ==
  [p \in 1..(ls[k].len \div m) |-> Chars(k, (p - 1) * m + 1, p * m)]

Rest(ls, k, m) == Chars(k, (ls[k].len \div m) * m + 1, ls[k].len)

\* Piece p of line k, and what is known of it.
Piece(k, p) == Chars(k, (p - 1) * MaxLen + 1, p * MaxLen)

IsPiece(ls, k, p, s) ==
  /\ s \in Seq(CharOf(ls)) /\ Good(ls, s) /\ TextOf(ls, k, s) /\ Len(s) = MaxLen
  /\ \A r \in 1..MaxLen : s[r] = <<k, (p - 1) * MaxLen + r>>

LEMMA PieceAt ==
  ASSUME NEW ls \in Seq(Line), NEW k \in 1..Len(ls), MaxLen \in Nat \ {0},
         NEW p \in 1..(ls[k].len \div MaxLen)
  PROVE  IsPiece(ls, k, p, Piece(k, p))
<1> DEFINE s == Piece(k, p)
           n == ls[k].len
           a == (p - 1) * MaxLen
           b == p * MaxLen
<1>1. n \in Nat
  BY LineType
<1>2. p \in Nat \ {0}
  BY <1>1, Division
<1>3. a \in Nat /\ b \in Nat /\ b = a + MaxLen
  BY <1>2, PieceBounds
<1>4. b <= n
  BY <1>1, WholePieceInside
<1> HIDE DEF n, a, b
<1>5. n \in 1..MaxLen /\ a < b => a = 0 /\ b = n
  BY <1>1, <1>3, <1>4
<1>6. a <= b /\ b - a = MaxLen
  BY <1>3
<1>7. s = Chars(k, a + 1, b)
  BY DEF a, b, Piece
<1> HIDE DEF s
<1>8. /\ s \in Seq(CharOf(ls)) /\ Len(s) = b - a
      /\ \A r \in 1..(b - a) : s[r] = <<k, a + r>>
      /\ Joined(s) /\ WholeIn(ls, s) /\ TextOf(ls, k, s)
  <2>1. b <= ls[k].len /\ WholeIfShort(ls, k, a, b)
    BY <1>4, <1>5 DEF n, WholeIfShort
  <2>2. a \in Nat /\ b \in Nat /\ a <= b
    BY <1>3, <1>6
  <2>3. IsPart(ls, k, a, b, s)
    BY <1>7, <2>1, <2>2, PieceFacts, Zenon
  <2> QED
    BY <2>3, Zenon DEF IsPart
<1>9. Good(ls, s)
  BY <1>6, <1>8 DEF Good
<1>10. \A r \in 1..MaxLen : s[r] = <<k, a + r>>
  BY <1>6, <1>8
<1>11. IsPiece(ls, k, p, s)
  BY <1>6, <1>8, <1>9, <1>10 DEF a, IsPiece
<1> QED
  BY <1>11 DEF s

LEMMA RestAt ==
  ASSUME NEW ls \in Seq(Line), NEW k \in 1..Len(ls), MaxLen \in Nat \ {0},
         NEW s, s = Rest(ls, k, MaxLen)
  PROVE  /\ s \in Seq(CharOf(ls)) /\ Joined(s) /\ WholeIn(ls, s) /\ TextOf(ls, k, s)
         /\ Len(s) = ls[k].len % MaxLen
         /\ \A r \in 1..(ls[k].len % MaxLen) : s[r] = <<k, (ls[k].len \div MaxLen) * MaxLen + r>>
<1> DEFINE n == ls[k].len
           w == n \div MaxLen
           a == w * MaxLen
           e == n % MaxLen
<1>1. n \in Nat
  BY LineType
<1>2. w \in Nat /\ e \in 0..(MaxLen - 1) /\ n = a + e
  BY <1>1, Division
<1>3. a \in Nat
  BY <1>2, ProductType
<1>4. w >= 1 => a >= MaxLen
  <2>1. w >= 1 => 1 * MaxLen <= w * MaxLen
    BY <1>2, ProductMonotonic
  <2> QED
    BY <2>1
<1>5. w = 0 => a = 0
  BY <1>2
<1>6. s = Chars(k, a + 1, n)
  BY DEF Rest
<1> HIDE DEF n, w, a, e
<1>7. a <= n /\ n - a = e /\ (n \in 1..MaxLen /\ a < n => a = 0)
  BY <1>1, <1>2, <1>3, <1>4, <1>5
<1>8. /\ s \in Seq(CharOf(ls)) /\ Len(s) = n - a
      /\ \A r \in 1..(n - a) : s[r] = <<k, a + r>>
      /\ Joined(s) /\ WholeIn(ls, s) /\ TextOf(ls, k, s)
  <2>1. a <= ls[k].len /\ WholeIfShort(ls, k, a, ls[k].len)
    BY <1>7 DEF n, WholeIfShort
  <2>2. s = Chars(k, a + 1, ls[k].len) /\ ls[k].len \in Nat /\ ls[k].len <= ls[k].len
    BY <1>1, <1>6 DEF n
  <2>3. IsPart(ls, k, a, ls[k].len, s)
    BY <1>3, <2>1, <2>2, PieceFacts, Zenon
  <2> QED
    BY <2>3, Zenon DEF IsPart, n
<1> QED
  BY <1>7, <1>8 DEF a, w, e, n

\* The chunks F and line k cut into pieces.
LEMMA CutKeepsText ==
  ASSUME NEW ls \in Seq(Line), NEW k \in 1..Len(ls), MaxLen \in Nat \ {0},
         NEW F \in Seq(Seq(CharOf(ls))),
         Present(ls, k - 1, F), InOrder(ls, k - 1, F), \A d \in DOMAIN F : Good(ls, F[d]),
         NEW C, C = F \o Pieces(ls, k, MaxLen), NEW t, t = Rest(ls, k, MaxLen)
  PROVE  /\ C \in Seq(Seq(CharOf(ls))) /\ \A d \in DOMAIN C : Good(ls, C[d])
         /\ Present(ls, k, Append(C, t)) /\ InOrder(ls, k, Append(C, t))
<1> DEFINE n == ls[k].len
           w == n \div MaxLen
           f == Len(F)
           W == Pieces(ls, k, MaxLen)
           all == Append(C, t)
<1>1. n \in Nat /\ k \in Nat
  BY LineType
<1>2. w \in Nat /\ n % MaxLen \in Nat
  <2>1. w \in Nat /\ n % MaxLen \in 0..(MaxLen - 1)
    BY <1>1, Division
  <2> QED
    BY <2>1
<1>3. \A p \in 1..w :
        /\ W[p] \in Seq(CharOf(ls)) /\ Good(ls, W[p]) /\ TextOf(ls, k, W[p]) /\ Len(W[p]) = MaxLen
        /\ \A r \in 1..MaxLen : W[p][r] = <<k, (p - 1) * MaxLen + r>>
  <2> TAKE p \in 1..w
  <2>1. W[p] = Piece(k, p)
    BY DEF Pieces, Piece
  <2>2. IsPiece(ls, k, p, Piece(k, p))
    BY PieceAt, Zenon
  <2> HIDE DEF W, w, all
  <2> QED
    BY <2>1, <2>2, Zenon DEF IsPiece
<1>4. W \in Seq(Seq(CharOf(ls))) /\ Len(W) = w
  <2>1. W \in [1..w -> Seq(CharOf(ls))]
    <3>1. W = [p \in 1..w |-> W[p]]
      BY DEF Pieces
    <3> HIDE DEF W
    <3> QED
      BY <1>3, <3>1
  <2> HIDE DEF W, w
  <2> QED
    BY <1>2, <2>1, SequenceOf
<1>5. /\ t \in Seq(CharOf(ls)) /\ Joined(t) /\ TextOf(ls, k, t) /\ Len(t) = n % MaxLen
      /\ \A r \in 1..(n % MaxLen) : t[r] = <<k, w * MaxLen + r>>
  BY RestAt, Zenon
<1>6. \A q \in 1..n : Holds(t, <<k, q>>) \/ \E p \in 1..w : Holds(W[p], <<k, q>>)
  <2> TAKE q \in 1..n
  <2>1. \/ \E p \in 1..w : \E r \in 1..MaxLen : q = (p - 1) * MaxLen + r
        \/ \E r \in 1..(n % MaxLen) : q = w * MaxLen + r
    BY <1>1, PieceOfPosition
  <2> HIDE DEF W, w, n
  <2>2. ASSUME NEW p \in 1..w, NEW r \in 1..MaxLen, q = (p - 1) * MaxLen + r
        PROVE  Holds(W[p], <<k, q>>)
    <3>1. W[p][r] = <<k, q>> /\ r \in DOMAIN W[p]
      BY <1>3, <2>2
    <3> QED
      BY <3>1 DEF Holds
  <2>3. ASSUME NEW r \in 1..(n % MaxLen), q = w * MaxLen + r
        PROVE  Holds(t, <<k, q>>)
    <3>1. t[r] = <<k, q>> /\ r \in DOMAIN t
      BY <1>5, <2>3
    <3> QED
      BY <3>1 DEF Holds
  <2> QED
    BY <2>1, <2>2, <2>3
<1>7. C = F \o W
  OBVIOUS
<1> HIDE DEF W, w, n
<1>8. /\ C \in Seq(Seq(CharOf(ls))) /\ Len(C) = f + w
      /\ \A d \in 1..f : C[d] = F[d]
      /\ \A p \in 1..w : C[f + p] = W[p]
  <2>1. /\ F \o W \in Seq(Seq(CharOf(ls))) /\ Len(F \o W) = Len(F) + Len(W)
        /\ \A d \in 1..Len(F) : (F \o W)[d] = F[d]
        /\ \A p \in 1..Len(W) : (F \o W)[Len(F) + p] = W[p]
    <3>1. W \in Seq(Seq(CharOf(ls)))
      BY <1>4
    <3> QED
      BY <3>1, ConcatAt
  <2> QED
    BY <1>4, <1>7, <2>1, Zenon
<1>9. /\ all \in Seq(Seq(CharOf(ls))) /\ Len(all) = Len(C) + 1
      /\ \A d \in 1..Len(C) : all[d] = C[d]
      /\ all[Len(C) + 1] = t
  BY <1>5, <1>8, AppendAt
<1>10. f \in Nat /\ DOMAIN F = 1..f
  OBVIOUS
<1> HIDE DEF f, all
<1>11. /\ DOMAIN C = 1..(f + w) /\ DOMAIN all = 1..(f + w + 1)
       /\ \A d \in 1..f : d \in DOMAIN C /\ d \in DOMAIN all /\ all[d] = F[d] /\ C[d] = F[d]
       /\ \A p \in 1..w : f + p \in DOMAIN C /\ f + p \in DOMAIN all
       /\ f + w + 1 \in DOMAIN all
  <2>1. DOMAIN C = 1..(f + w) /\ DOMAIN all = 1..(f + w + 1)
    BY <1>8, <1>9
  <2>2. /\ \A d \in 1..f : d \in 1..(f + w) /\ d \in 1..(f + w + 1)
        /\ \A p \in 1..w : f + p \in 1..(f + w) /\ f + p \in 1..(f + w + 1)
        /\ f + w + 1 \in 1..(f + w + 1)
    BY <1>2, <1>10
  <2>3. \A d \in 1..f : C[d] = F[d] /\ all[d] = C[d]
    BY <1>8, <1>9, <2>2
  <2> QED
    BY <2>1, <2>2, <2>3
<1>12. /\ \A p \in 1..w : C[f + p] = W[p] /\ all[f + p] = W[p]
       /\ all[f + w + 1] = t
  <2>1. \A p \in 1..w : C[f + p] = W[p]
    BY <1>8
  <2>2. \A d \in DOMAIN C : all[d] = C[d]
    BY <1>8, <1>9, <1>11
  <2>3. all[f + w + 1] = t
    BY <1>8, <1>9
  <2> QED
    BY <1>11, <2>1, <2>2, <2>3
<1>13. \A d \in DOMAIN C : d \in 1..f \/ \E p \in 1..w : d = f + p
  <2> TAKE d \in DOMAIN C
  <2>1. d \in 1..f \/ (d - f \in 1..w /\ d = f + (d - f))
    BY <1>2, <1>10, <1>11
  <2> QED
    BY <2>1
<1>14. \A d \in DOMAIN C : Good(ls, C[d])
  <2>1. \A p \in 1..w : Good(ls, W[p])
    BY <1>3
  <2>2. \A d \in 1..f : Good(ls, F[d])
    BY <1>10
  <2> TAKE d \in DOMAIN C
  <2>3. CASE d \in 1..f
    BY <1>11, <2>2, <2>3
  <2>4. CASE \E p \in 1..w : d = f + p
    BY <1>12, <2>1, <2>4
  <2> QED
    BY <1>13, <2>3, <2>4
<1>15. Present(ls, k, all)
  <2> SUFFICES ASSUME NEW l \in 1..k, NEW q \in 1..ls[l].len
               PROVE  \E d \in DOMAIN all : Holds(all[d], <<l, q>>)
    BY DEF Present
  <2>1. CASE l = k
    <3>1. q \in 1..n
      BY <2>1 DEF n
    <3> QED
      BY <1>6, <1>11, <1>12, <2>1, <3>1
  <2>2. CASE l \in 1..(k - 1)
    <3>1. PICK d \in DOMAIN F : Holds(F[d], <<l, q>>)
      BY <2>2 DEF Present
    <3> QED
      BY <1>10, <1>11, <3>1
  <2>3. l = k \/ l \in 1..(k - 1)
    BY <1>1
  <2> QED
    BY <2>1, <2>2, <2>3
<1>16. \A p \in 1..w : Joined(W[p])
  BY <1>3 DEF Good
<1>17. InOrder(ls, k, all)
  <2> SUFFICES ASSUME NEW d \in DOMAIN all
               PROVE  /\ TextOf(ls, k, all[d]) /\ Ascending(all[d])
                      /\ d > 1 => Follows(all[d - 1], all[d])
    BY DEF InOrder
  <2>0. \A e \in DOMAIN F : /\ TextOf(ls, k - 1, F[e]) /\ Ascending(F[e])
                            /\ e > 1 => Follows(F[e - 1], F[e])
    BY DEF InOrder
  <2>1. CASE d \in 1..f
    <3>1. all[d] = F[d] /\ (d > 1 => d - 1 \in 1..f)
      BY <1>10, <1>11, <2>1
    <3>2. d > 1 => all[d - 1] = F[d - 1]
      BY <1>11, <3>1
    <3> QED
      BY <1>1, <1>10, <2>0, <2>1, <3>1, <3>2, SeesMore
  <2>2. ASSUME NEW p \in 1..(w + 1), d = f + p
        PROVE  /\ all[d] \in Seq(CharOf(ls)) /\ Joined(all[d]) /\ TextOf(ls, k, all[d])
               /\ all[d] # <<>> => all[d][1] = <<k, (p - 1) * MaxLen + 1>>
    <3>1. CASE p \in 1..w
      <4>1. all[d] = W[p] /\ 1 \in 1..MaxLen
        BY <1>12, <2>2, <3>1
      <4>2. W[p][1] = <<k, (p - 1) * MaxLen + 1>>
        BY <1>3, <3>1, <4>1
      <4> QED
        BY <1>3, <1>16, <3>1, <4>1, <4>2
    <3>2. CASE p = w + 1
      <4>0. f + p = f + w + 1 /\ p - 1 = w
        BY <1>2, <1>10, <3>2
      <4>1. all[d] = t /\ p - 1 = w
        BY <1>12, <2>2, <4>0
      <4>2. t # <<>> => 1 \in 1..(n % MaxLen)
        BY <1>2, <1>5
      <4>3. t # <<>> => t[1] = <<k, (p - 1) * MaxLen + 1>>
        BY <1>5, <4>1, <4>2
      <4> QED
        BY <1>5, <4>1, <4>3
    <3> QED
      BY <1>2, <3>1, <3>2
  <2>3. ASSUME NEW p \in 1..(w + 1), d = f + p, d > 1
        PROVE  Follows(all[d - 1], all[d])
    <3>1. /\ all[d] \in Seq(CharOf(ls))
          /\ all[d] # <<>> => all[d][1] = <<k, (p - 1) * MaxLen + 1>>
      BY <2>2, <2>3
    <3>2. CASE p = 1
      <4>1. d - 1 = f /\ f \in 1..f
        BY <1>10, <2>3, <3>2
      <4>2. all[d - 1] = F[f] /\ F[f] \in Seq(CharOf(ls)) /\ TextOf(ls, k - 1, F[f])
        BY <1>10, <1>11, <2>0, <4>1
      <4>3. all[d] # <<>> => all[d][1][1] = k
        BY <3>1
      <4> QED
        BY <1>1, <3>1, <4>2, <4>3, OlderFirst
    <3>3. CASE p > 1
      <4>1. p - 1 \in 1..w /\ p - 1 \in Nat \ {0} /\ d - 1 = f + (p - 1) /\ MaxLen \in 1..MaxLen
        BY <1>2, <1>10, <2>3, <3>3
      <4>2. all[d - 1] = W[p - 1] /\ Len(W[p - 1]) = MaxLen
        BY <1>3, <1>12, <4>1
      <4>3. W[p - 1][MaxLen] = <<k, ((p - 1) - 1) * MaxLen + MaxLen>>
        BY <1>3, <4>1
      <4>4. (p - 1) * MaxLen \in Nat /\ (p - 1) * MaxLen = ((p - 1) - 1) * MaxLen + MaxLen
        BY <4>1, PieceBounds
      <4>5. all[d - 1][Len(all[d - 1])] = <<k, (p - 1) * MaxLen>>
        BY <4>2, <4>3, <4>4
      <4>6. all[d] # <<>> => Before(<<k, (p - 1) * MaxLen>>, all[d][1])
        BY <3>1, <4>4 DEF Before
      <4> QED
        BY <4>5, <4>6 DEF Follows
    <3> QED
      BY <1>2, <3>2, <3>3
  <2>4. d \in 1..f \/ \E p \in 1..(w + 1) : d = f + p
    <3>1. d \in 1..f \/ (d - f \in 1..(w + 1) /\ d = f + (d - f))
      BY <1>2, <1>10, <1>11
    <3> QED
      BY <3>1
  <2> QED
    BY <2>1, <2>2, <2>3, <2>4, JoinedAscends
<1> QED
  BY <1>8, <1>14, <1>15, <1>17 DEF all

-----------------------------------------------------------------------------
(* The invariant is inductive.                                             *)

\* What JoinLine builds: s, a newline if there is something to part, line k.
LEMMA JoinLineAt ==
  ASSUME NEW ls \in Seq(Line), NEW k \in 1..Len(ls), NEW s \in Seq(CharOf(ls)),
         NEW t, t = WithLine(ls, k, s)
  PROVE  t \in Seq(CharOf(ls)) /\ Len(t) = Len(s) + Gap(s) + ls[k].len /\ Extends(t, s, k)
<1> DEFINE n == ls[k].len
           u == IF s # <<>> THEN Append(s, Newline(k)) ELSE s
           v == Chars(k, 1, n)
           m == Len(s)
           j == Gap(s)
<1>0. j = IF s = <<>> THEN 0 ELSE 1
  BY DEF Gap
<1>1. n \in Nat /\ m \in Nat /\ j \in Nat
  BY <1>0, LineType
<1>2. Newline(k) \in CharOf(ls) /\ Newline(k) = <<k, 0>>
  BY DEF Newline, CharOf
<1>3. v \in Seq(CharOf(ls)) /\ Len(v) = n /\ \A p \in 1..n : v[p] = <<k, p>>
  <2>1. v = [p \in 1..n |-> <<k, p>>]
    <3>1. n - 1 + 1 = n /\ \A p \in 1..n : 1 + p - 1 = p
      BY <1>1
    <3> QED
      BY <3>1 DEF Chars
  <2>2. \A p \in 1..n : <<k, p>> \in CharOf(ls)
    BY <1>1 DEF CharOf
  <2>3. v \in [1..n -> CharOf(ls)]
    BY <2>1, <2>2
  <2> HIDE DEF v, n
  <2>4. v \in Seq(CharOf(ls)) /\ Len(v) = n
    BY <1>1, <2>3, SequenceOf
  <2> QED
    BY <2>1, <2>4
<1>4. /\ u \in Seq(CharOf(ls)) /\ Len(u) = m + j
      /\ \A p \in 1..(m + j) : u[p] = IF p <= m THEN s[p] ELSE <<k, p - m - j>>
  <2>1. CASE s = <<>>
    BY <1>0, <2>1
  <2>2. CASE s # <<>>
    <3>1. u = Append(s, Newline(k)) /\ j = 1
      BY <1>0, <2>2
    <3>2. /\ Append(s, Newline(k)) \in Seq(CharOf(ls)) /\ Len(Append(s, Newline(k))) = m + 1
          /\ \A p \in 1..m : Append(s, Newline(k))[p] = s[p]
          /\ Append(s, Newline(k))[m + 1] = <<k, 0>>
      BY <1>2, AppendAt
    <3> HIDE DEF u, m
    <3>3. ASSUME NEW p \in 1..(m + 1)
          PROVE  u[p] = IF p <= m THEN s[p] ELSE <<k, p - m - 1>>
      <4>1. p \in 1..m \/ (p = m + 1 /\ ~(p <= m) /\ p - m - 1 = 0)
        BY <1>1
      <4>2. p \in 1..m => p <= m
        BY <1>1
      <4> QED
        BY <3>1, <3>2, <4>1, <4>2
    <3> QED
      BY <3>1, <3>2, <3>3
  <2> QED
    BY <2>1, <2>2
<1>5. t = u \o v
  BY DEF WithLine
<1> HIDE DEF u, v, m, n, j
<1>6. /\ t \in Seq(CharOf(ls)) /\ Len(t) = Len(u) + Len(v)
      /\ \A p \in 1..Len(u) : t[p] = u[p]
      /\ \A p \in 1..Len(v) : t[Len(u) + p] = v[p]
  <2>1. u \in Seq(CharOf(ls)) /\ v \in Seq(CharOf(ls))
    BY <1>3, <1>4
  <2>2. /\ u \o v \in Seq(CharOf(ls)) /\ Len(u \o v) = Len(u) + Len(v)
        /\ \A p \in 1..Len(u) : (u \o v)[p] = u[p]
        /\ \A p \in 1..Len(v) : (u \o v)[Len(u) + p] = v[p]
    BY <2>1, ConcatAt
  <2> QED
    BY <1>5, <2>2, Zenon
<1>7. Len(t) = m + j + n
  BY <1>3, <1>4, <1>6
<1>8. ASSUME NEW p \in 1..(m + j + n)
      PROVE  t[p] = IF p <= m THEN s[p] ELSE <<k, p - m - j>>
  <2>1. CASE p \in 1..(m + j)
    BY <1>4, <1>6, <2>1
  <2>2. CASE ~(p \in 1..(m + j))
    <3>1. p - m - j \in 1..n /\ p = (m + j) + (p - m - j) /\ ~(p <= m)
      BY <1>1, <2>2
    <3>2. t[p] = v[p - m - j]
      BY <1>3, <1>4, <1>6, <3>1
    <3> QED
      BY <1>3, <3>1, <3>2
  <2> QED
    BY <2>1, <2>2
<1> QED
  BY <1>6, <1>7, <1>8 DEF m, n, j, Extends

LEMMA InitInv == Init => IInv
<1> SUFFICES ASSUME Init PROVE IInv
  OBVIOUS
<1>1. PICK n \in 1..MaxLines : lines \in [1..n -> Line]
  BY DEF Init
<1>2. lines \in Seq(Line) /\ Len(lines) \in Nat
  <2>1. n \in Nat
    BY ChunkAssumption
  <2> QED
    BY <1>1, <2>1, SequenceOf
<1>3. i = 1 /\ current = <<>> /\ size = 0 /\ chunks = <<>>
  BY DEF Init
<1>4. TypeOK
  BY <1>2, <1>3 DEF TypeOK
<1>5. CurrentInv
  BY <1>3, ChunkAssumption DEF CurrentInv
<1>6. ShapeInv
  BY <1>3, ShapeMeans DEF Joined, WholeIn
<1>7. NothingLost
  <2>1. ~(\E l \in 1..Seen : TRUE)
    BY <1>2, <1>3 DEF Seen
  <2>2. AllChunks = <<current>> /\ current = <<>>
    BY <1>3 DEF AllChunks
  <2>3. \A k \in DOMAIN AllChunks : k = 1 /\ AllChunks[k] = <<>>
    BY <2>2
  <2>4. Present(lines, Seen, AllChunks)
    BY <2>1 DEF Present
  <2>5. InOrder(lines, Seen, AllChunks)
    BY <2>3 DEF InOrder, TextOf, Ascending
  <2> QED
    BY <2>4, <2>5, TextMeans
<1> QED
  BY <1>4, <1>5, <1>6, <1>7 DEF IInv

LEMMA BytesAtLeast ==
  ASSUME NEW n \in Nat, NEW b \in Nat, b >= 1
  PROVE  n * b \in Nat /\ n * b >= n /\ (n = 0 => n * b = 0)
OBVIOUS

\* The lines seen while the loop runs, and after it.
LEMMA SeenAt ==
  ASSUME TypeOK
  PROVE  /\ i <= Len(lines) => Seen = i - 1
         /\ i > Len(lines) => Seen = Len(lines)
BY DEF TypeOK, Seen

LEMMA SeenNext ==
  ASSUME TypeOK, lines' = lines, i' = i + 1
  PROVE  /\ i <= Len(lines) => Seen' = i
         /\ i > Len(lines) => Seen' = Len(lines)
BY DEF TypeOK, Seen

LEMMA JoinLineInv ==
  ASSUME IInv, JoinLine
  PROVE  IInv'
<1> DEFINE n == lines[i].len
           m == Len(current)
           j == Joint
           t == current'
<1>0. TypeOK /\ CurrentInv /\ ShapeInv /\ NothingLost
  BY DEF IInv
<1>1. /\ lines \in Seq(Line) /\ i \in 1..Len(lines) /\ size \in Nat
      /\ current \in Seq(CharOf(lines)) /\ chunks \in Seq(Seq(CharOf(lines)))
  BY <1>0 DEF TypeOK, JoinLine, Char, CharOf
<1>2. n \in Nat /\ lines[i].bytes \in Nat /\ lines[i].bytes >= 1 /\ m \in Nat
  BY <1>1, LineType
<1>3. (size > 0 <=> current # <<>>) /\ j = Gap(current) /\ j \in {0, 1} /\ (j = 0 <=> current = <<>>)
  BY <1>0, <1>1 DEF Joint, CurrentInv, Gap
<1>4. t = WithLine(lines, i, current)
  BY <1>3, Zenon DEF JoinLine, WithLine
<1>5. lines' = lines /\ chunks' = chunks /\ i' = i + 1
  BY DEF JoinLine
<1>6. size' = size + j + n * lines[i].bytes /\ size + j + n <= MaxLen
  BY DEF JoinLine, CandidateLen
<1> HIDE DEF t, j
<1>7. t \in Seq(CharOf(lines)) /\ Len(t) = m + j + n /\ Extends(t, current, i)
  BY <1>1, <1>3, <1>4, JoinLineAt
<1>8. Seen = i - 1 /\ Seen' = i
  BY <1>0, <1>1, <1>5, SeenAt, SeenNext
<1>9. /\ Present(lines, i - 1, Append(chunks, current))
      /\ InOrder(lines, i - 1, Append(chunks, current))
  BY <1>0, <1>8, TextMeans DEF AllChunks
<1>10. TextOf(lines, i - 1, current)
  <2>1. Append(chunks, current)[Len(chunks) + 1] = current
    BY <1>1, AppendAt
  <2>2. Len(chunks) + 1 \in DOMAIN Append(chunks, current)
    BY <1>1
  <2> QED
    BY <1>9, <2>1, <2>2 DEF InOrder
<1>11. /\ \A k \in DOMAIN chunks : Good(lines, chunks[k])
       /\ Joined(current) /\ WholeIn(lines, current)
  BY <1>0, ShapeMeans
<1>12. current # <<>> => current[m][1] = i - 1
  BY <1>0 DEF CurrentInv
<1> HIDE DEF m, n
<1>13. /\ Joined(t) /\ WholeIn(lines, t) /\ TextOf(lines, i, t)
       /\ \A c : Holds(current, c) => Holds(t, c)
       /\ \A q \in 1..lines[i].len : Holds(t, <<i, q>>)
       /\ t # <<>> => t[Len(t)][1] = i
  <2>1. Len(t) = Len(current) + Gap(current) + lines[i].len
    BY <1>3, <1>7 DEF m, n
  <2>2. current # <<>> => current[Len(current)][1] = i - 1
    BY <1>12 DEF m
  <2>3. /\ lines \in Seq(Line) /\ i \in 1..Len(lines) /\ current \in Seq(CharOf(lines))
        /\ t \in Seq(CharOf(lines)) /\ Extends(t, current, i)
        /\ Joined(current) /\ WholeIn(lines, current) /\ TextOf(lines, i - 1, current)
    BY <1>1, <1>7, <1>10, <1>11
  <2> QED
    BY <2>1, <2>2, <2>3, Joining
<1>14. TypeOK'
  <2>1. t \in Seq(Char') /\ chunks \in Seq(Seq(Char'))
    BY <1>1, <1>5, <1>7 DEF Char, CharOf
  <2>2. size' \in Nat
    <3>1. n * lines[i].bytes \in Nat
      BY <1>2, BytesAtLeast
    <3> QED
      BY <1>1, <1>3, <1>6, <3>1
  <2>3. i + 1 \in 1..(Len(lines) + 2)
    BY <1>1
  <2> QED
    BY <1>1, <1>5, <2>1, <2>2, <2>3 DEF TypeOK, t
<1>15. CurrentInv'
  <2>1. n * lines[i].bytes \in Nat /\ n * lines[i].bytes >= n /\ (n = 0 => n * lines[i].bytes = 0)
    BY <1>2, BytesAtLeast
  <2>2. m <= size /\ (m = 0 <=> current = <<>>)
    BY <1>0, <1>1 DEF CurrentInv, m
  <2> DEFINE z == n * lines[i].bytes
  <2> HIDE DEF z
  <2>a. z \in Nat /\ z >= n /\ (n = 0 => z = 0) /\ size' = size + j + z
    BY <1>6, <2>1 DEF z
  <2>b. (j = 1 /\ m > 0) \/ (j = 0 /\ m = 0 /\ size = 0)
    BY <1>1, <1>2, <1>3, <2>2
  <2>3. Len(t) <= size' /\ Len(t) <= MaxLen
    <3>1. size \in Nat /\ n \in Nat /\ m \in Nat /\ j \in Nat /\ m <= size
      BY <1>1, <1>2, <1>3, <2>2
    <3>2. size + j + n <= MaxLen /\ Len(t) = m + j + n /\ MaxLen \in Nat
      BY <1>6, <1>7, ChunkAssumption
    <3> QED
      BY <2>a, <3>1, <3>2
  <2>4. size' > 0 <=> Len(t) > 0
    <3>1. size \in Nat /\ n \in Nat /\ m \in Nat /\ m <= size /\ Len(t) = m + j + n
      BY <1>1, <1>2, <1>7, <2>2
    <3> QED
      BY <2>a, <2>b, <3>1
  <2>5. t # <<>> <=> Len(t) > 0
    BY <1>7
  <2>6. (i + 1) - 1 = i
    BY <1>1
  <2> QED
    BY <1>5, <1>13, <2>3, <2>4, <2>5, <2>6 DEF CurrentInv, t
<1>16. ShapeInv'
  BY <1>5, <1>11, <1>13, ShapeMeansNext DEF t
<1>17. NothingLost'
  <2>0. Len(t) \in Nat /\ (t # <<>> => 1 \in 1..Len(t)) /\ (current = <<>> <=> m = 0)
    BY <1>1, <1>7 DEF m
  <2>a. \A p \in 1..Len(t) : t[p] = IF p <= m THEN current[p] ELSE <<i, p - m - j>>
    BY <1>3, <1>7 DEF Extends, m
  <2>1. current # <<>> => t[1] = current[1]
    <3>1. current # <<>> => 1 <= m /\ 1 \in 1..Len(t)
      BY <1>2, <1>3, <1>7, <2>0
    <3> QED
      BY <2>a, <3>1
  <2>2. current = <<>> /\ t # <<>> => t[1][1] = i
    <3>1. current = <<>> => ~(1 <= m)
      BY <2>0
    <3>2. current = <<>> /\ t # <<>> => t[1] = <<i, 1 - m - j>>
      BY <2>0, <2>a, <3>1
    <3> QED
      BY <3>2
  <2>3. i \in Nat \ {0}
    BY <1>1
  <2>4. Present(lines, i, Append(chunks, t)) /\ InOrder(lines, i, Append(chunks, t))
    BY <1>1, <1>7, <1>9, <1>13, <2>1, <2>2, <2>3, GrowKeepsText
  <2> QED
    BY <1>5, <1>8, <2>4, TextMeansNext DEF AllChunks, t
<1> QED
  BY <1>14, <1>15, <1>16, <1>17 DEF IInv

\* What both flushes leave, the chunks with the running one.
LEMMA FlushedFacts ==
  ASSUME IInv
  PROVE  /\ Flushed \in Seq(Seq(CharOf(lines)))
         /\ Present(lines, Seen, Flushed) /\ InOrder(lines, Seen, Flushed)
         /\ \A k \in DOMAIN Flushed : Good(lines, Flushed[k])
<1>1. TypeOK /\ CurrentInv /\ ShapeInv /\ NothingLost
  BY DEF IInv
<1>2. current \in Seq(CharOf(lines)) /\ chunks \in Seq(Seq(CharOf(lines)))
  BY <1>1 DEF TypeOK, Char, CharOf
<1>3. Flushed = IF current # <<>> THEN Append(chunks, current) ELSE chunks
  BY <1>1, Zenon DEF Flushed, CurrentInv
<1>4. Len(current) <= MaxLen /\ MaxLen \in Nat
  BY <1>1, ChunkAssumption DEF CurrentInv
<1>5. /\ Present(lines, Seen, Append(chunks, current))
      /\ InOrder(lines, Seen, Append(chunks, current))
  BY <1>1, TextMeans, Zenon DEF AllChunks
<1>6. /\ \A k \in DOMAIN chunks : Good(lines, chunks[k])
      /\ Joined(current) /\ WholeIn(lines, current)
  BY <1>1, ShapeMeans, Zenon
<1> QED
  BY <1>2, <1>3, <1>4, <1>5, <1>6, Flush

LEMMA StartChunkInv ==
  ASSUME IInv, StartChunk
  PROVE  IInv'
<1> DEFINE n == lines[i].len
           t == current'
           C == chunks'
           F == Flushed
<1>0. TypeOK /\ CurrentInv
  BY DEF IInv
<1>1. lines \in Seq(Line) /\ i \in 1..Len(lines) /\ MaxLen \in Nat \ {0}
  BY <1>0, ChunkAssumption DEF TypeOK, StartChunk
<1>2. n \in Nat /\ lines[i].bytes \in Nat /\ lines[i].bytes >= 1
  BY <1>1, LineType
<1>3. lines' = lines /\ i' = i + 1
  BY DEF StartChunk
<1>4. Seen = i - 1 /\ Seen' = i
  BY <1>0, <1>1, <1>3, SeenAt, SeenNext
<1>5. /\ F \in Seq(Seq(CharOf(lines))) /\ Present(lines, i - 1, F) /\ InOrder(lines, i - 1, F)
      /\ \A k \in DOMAIN F : Good(lines, F[k])
  BY <1>4, FlushedFacts
<1>6. /\ C = F \o Pieces(lines, i, MaxLen) /\ t = Rest(lines, i, MaxLen)
      /\ size' = Len(t) * lines[i].bytes
  BY DEF StartChunk, Pieces, Rest, WholePieces, LastPiece
<1> HIDE DEF t, C, F, n
<1>7. /\ C \in Seq(Seq(CharOf(lines))) /\ \A d \in DOMAIN C : Good(lines, C[d])
      /\ Present(lines, i, Append(C, t)) /\ InOrder(lines, i, Append(C, t))
  BY <1>1, <1>5, <1>6, CutKeepsText
<1>8. /\ t \in Seq(CharOf(lines)) /\ Joined(t) /\ WholeIn(lines, t) /\ Len(t) = n % MaxLen
      /\ TextOf(lines, i, t)
      /\ \A r \in 1..(n % MaxLen) : t[r] = <<i, (n \div MaxLen) * MaxLen + r>>
  BY <1>1, <1>6, RestAt DEF n
<1>9. Len(t) \in 0..(MaxLen - 1)
  BY <1>1, <1>2, <1>8, Division
<1>10. /\ size' \in Nat /\ size' >= Len(t) /\ (Len(t) = 0 => size' = 0)
  BY <1>2, <1>6, <1>8, BytesAtLeast
<1>11. TypeOK'
  <2>1. t \in Seq(Char') /\ C \in Seq(Seq(Char'))
    BY <1>3, <1>7, <1>8 DEF Char, CharOf
  <2>2. i + 1 \in 1..(Len(lines) + 2)
    BY <1>1
  <2> QED
    BY <1>1, <1>3, <1>10, <2>1, <2>2 DEF TypeOK, t, C
<1>12. CurrentInv'
  <2>1. t # <<>> <=> Len(t) > 0
    BY <1>8
  <2>2. t # <<>> => Len(t) \in 1..(n % MaxLen)
    BY <1>8, <1>9, <2>1
  <2>3. t # <<>> => t[Len(t)][1] = i
    BY <1>8, <2>2
  <2>4. Len(t) <= size' /\ Len(t) <= MaxLen /\ (size' > 0 <=> t # <<>>)
    BY <1>1, <1>9, <1>10, <2>1
  <2>5. (i + 1) - 1 = i
    BY <1>1
  <2> QED
    BY <1>3, <2>3, <2>4, <2>5 DEF CurrentInv, t
<1>13. ShapeInv'
  BY <1>3, <1>7, <1>8, ShapeMeansNext DEF t, C
<1>14. NothingLost'
  BY <1>3, <1>4, <1>7, TextMeansNext DEF AllChunks, t, C
<1> QED
  BY <1>11, <1>12, <1>13, <1>14 DEF IInv

LEMMA LastFlushInv ==
  ASSUME IInv, LastFlush
  PROVE  IInv'
<1> DEFINE F == Flushed
           all == Append(F, <<>>)
<1>0. TypeOK
  BY DEF IInv
<1>1. lines \in Seq(Line) /\ Len(lines) \in Nat /\ i = Len(lines) + 1
  BY <1>0 DEF TypeOK, LastFlush
<1>2. lines' = lines /\ i' = i + 1 /\ chunks' = F /\ current' = <<>> /\ size' = 0
  BY DEF LastFlush
<1>3. Seen' = Seen
  BY <1>0, <1>1, <1>2, SeenAt, SeenNext
<1>4. /\ F \in Seq(Seq(CharOf(lines))) /\ Present(lines, Seen, F) /\ InOrder(lines, Seen, F)
      /\ \A k \in DOMAIN F : Good(lines, F[k])
  BY FlushedFacts
<1> HIDE DEF F
<1>5. <<>> \in Seq(CharOf(lines))
  OBVIOUS
<1>6. /\ Len(all) = Len(F) + 1
      /\ \A d \in 1..Len(F) : all[d] = F[d]
      /\ all[Len(F) + 1] = <<>>
      /\ DOMAIN all = 1..(Len(F) + 1) /\ DOMAIN F = 1..Len(F) /\ Len(F) \in Nat
  <2>1. /\ all \in Seq(Seq(CharOf(lines))) /\ Len(all) = Len(F) + 1
        /\ \A d \in 1..Len(F) : all[d] = F[d]
        /\ all[Len(F) + 1] = <<>>
    BY <1>4, <1>5, AppendAt
  <2> QED
    BY <1>4, <2>1
<1> HIDE DEF all
<1>7. Present(lines, Seen, all)
  <2>1. \A d \in 1..Len(F) : d \in 1..(Len(F) + 1)
    BY <1>6
  <2> QED
    BY <1>4, <1>6, <2>1, Zenon DEF Present
<1>8. InOrder(lines, Seen, all)
  <2> SUFFICES ASSUME NEW d \in DOMAIN all
               PROVE  /\ TextOf(lines, Seen, all[d]) /\ Ascending(all[d])
                      /\ d > 1 => Follows(all[d - 1], all[d])
    BY DEF InOrder
  <2>1. CASE d \in 1..Len(F)
    <3>1. all[d] = F[d] /\ d \in DOMAIN F /\ (d > 1 => d - 1 \in 1..Len(F))
      BY <1>6, <2>1
    <3>2. d > 1 => all[d - 1] = F[d - 1]
      BY <1>6, <3>1
    <3> QED
      BY <1>4, <3>1, <3>2 DEF InOrder
  <2>2. CASE d = Len(F) + 1
    BY <1>6, <2>2 DEF TextOf, Ascending, Follows
  <2> QED
    BY <1>6, <2>1, <2>2
<1>9. TypeOK'
  <2>1. F \in Seq(Seq(Char'))
    BY <1>2, <1>4 DEF Char, CharOf
  <2> QED
    BY <1>1, <1>2, <2>1 DEF TypeOK
<1>10. CurrentInv'
  BY <1>2, ChunkAssumption DEF CurrentInv
<1>11. ShapeInv'
  <2>1. Joined(<<>>) /\ WholeIn(lines, <<>>)
    BY DEF Joined, WholeIn
  <2> QED
    BY <1>2, <1>4, <2>1, ShapeMeansNext
<1>12. NothingLost'
  BY <1>2, <1>3, <1>7, <1>8, TextMeansNext DEF AllChunks, all
<1> QED
  BY <1>9, <1>10, <1>11, <1>12 DEF IInv

LEMMA UnchangedInv == IInv /\ UNCHANGED vars => IInv'
BY DEF vars, IInv, TypeOK, Char, CurrentInv, ShapeInv, ChunksFit, LinesKept, ShortLinesWhole,
       WholeLines, NothingLost, Seen, AllChunks, OfText

LEMMA NextInv == IInv /\ [Next]_vars => IInv'
<1> SUFFICES ASSUME IInv, [Next]_vars PROVE IInv'
  OBVIOUS
<1>1. CASE JoinLine
  BY <1>1, JoinLineInv
<1>2. CASE StartChunk
  BY <1>2, StartChunkInv
<1>3. CASE LastFlush
  BY <1>3, LastFlushInv
<1>4. CASE Done
  BY <1>4, UnchangedInv DEF Done
<1>5. CASE UNCHANGED vars
  BY <1>5, UnchangedInv
<1> QED
  BY <1>1, <1>2, <1>3, <1>4, <1>5 DEF Next

LEMMA Invariance == Spec => []IInv
BY InitInv, NextInv, PTL DEF Spec

-----------------------------------------------------------------------------
(* Theorems.                                                               *)

\* Every chunk splitIntoChunks returns has 1 to maxLen characters: the running
\* chunk is measured in bytes, which are never fewer than its characters.
THEOREM ChunksAlwaysFit == Spec => []ChunksFit
<1>1. IInv => ChunksFit
  BY DEF IInv, ShapeInv
<1> QED
  BY <1>1, Invariance, PTL

\* No character of the text but newlines at chunk ends is lost, none is repeated
\* and none is moved, whatever its lines are.
THEOREM TextSurvives == Spec => []NothingLost
<1>1. IInv => NothingLost
  BY DEF IInv
<1> QED
  BY <1>1, Invariance, PTL

\* Within a chunk the lines stand as in the text, each newline in its place.
THEOREM LinesStayJoined == Spec => []LinesKept
<1>1. IInv => LinesKept
  BY DEF IInv, ShapeInv
<1> QED
  BY <1>1, Invariance, PTL

\* A line that fits a chunk is never cut.
THEOREM ShortLinesUncut == Spec => []ShortLinesWhole
<1>1. IInv => ShortLinesWhole
  BY DEF IInv, ShapeInv
<1> QED
  BY <1>1, Invariance, PTL

=============================================================================
