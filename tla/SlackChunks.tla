---------------------------- MODULE SlackChunks ----------------------------
(***************************************************************************)
(* slacknotify.go, splitIntoChunks: a text is cut into chunks of at most   *)
(* maxLen characters, at line ends where that is possible.  The running    *)
(* chunk is measured in bytes (strings.Builder.Len) and a line in runes.   *)
(*                                                                         *)
(* A text is given by its lines: how many characters each has and whether  *)
(* they take one byte or three.  The characters of the text are told       *)
(* apart: <<line, position>>, and <<line, 0>> for the newline before it.   *)
(***************************************************************************)
EXTENDS Integers, Sequences

CONSTANTS
  MaxLen,     \* maxChunkLen
  MaxLines,   \* bound on the lines of a text
  MaxWidth    \* bound on the characters of a line

ASSUME ChunkAssumption ==
  MaxLen \in Nat \ {0} /\ MaxLines \in Nat /\ MaxWidth \in Nat

Line == [len : 0..MaxWidth, bytes : {1, 3}]

VARIABLES
  lines,    \* strings.Split(text, "\n")
  i,        \* the line the loop has come to
  current,  \* the running chunk
  size,     \* current.Len(): its bytes
  chunks    \* the chunks completed

vars == <<lines, i, current, size, chunks>>

Newline(k) == <<k, 0>>

Chars(k, from, to) == [p \in 1..(to - from + 1) |-> <<k, from + p - 1>>]

\* The empty text is refused before it gets here.
Init ==
  /\ lines \in UNION {[1..n -> Line] : n \in 1..MaxLines}
  /\ lines # <<[len |-> 0, bytes |-> 1]>> /\ lines # <<[len |-> 0, bytes |-> 3]>>
  /\ i = 1
  /\ current = <<>>
  /\ size = 0
  /\ chunks = <<>>

\* Mutant: the joining newline is not counted.
CandidateWithoutNewline == size + lines[i].len

Joint == IF size > 0 THEN 1 ELSE 0

CandidateLen == size + Joint + lines[i].len

Flushed == IF size > 0 THEN Append(chunks, current) ELSE chunks

\* Mutant: the lines of a chunk run together.
JoinWithoutNewline ==
  /\ i <= Len(lines)
  /\ CandidateLen <= MaxLen
  /\ current' = current \o Chars(i, 1, lines[i].len)
  /\ size' = size + lines[i].len * lines[i].bytes
  /\ i' = i + 1
  /\ UNCHANGED <<lines, chunks>>

JoinLine ==
  /\ i <= Len(lines)
  /\ CandidateLen <= MaxLen
  /\ current' = (IF size > 0 THEN Append(current, Newline(i)) ELSE current)
                  \o Chars(i, 1, lines[i].len)
  /\ size' = size + Joint + lines[i].len * lines[i].bytes
  /\ i' = i + 1
  /\ UNCHANGED <<lines, chunks>>

\* hardSplit: the whole pieces of a line, n characters each, and what is left.
WholePieces(k, n) ==
  [p \in 1..(lines[k].len \div n) |-> Chars(k, (p - 1) * n + 1, p * n)]

LastPiece(k, n) == Chars(k, (lines[k].len \div n) * n + 1, lines[k].len)

\* Mutant: the running chunk is overwritten.
StartChunkUnflushed ==
  /\ i <= Len(lines)
  /\ CandidateLen > MaxLen
  /\ chunks' = chunks \o WholePieces(i, MaxLen)
  /\ current' = LastPiece(i, MaxLen)
  /\ size' = Len(current') * lines[i].bytes
  /\ i' = i + 1
  /\ UNCHANGED lines

\* Mutant: hardSplit cuts one character early.
StartChunkNarrow ==
  /\ i <= Len(lines)
  /\ CandidateLen > MaxLen
  /\ chunks' = Flushed \o WholePieces(i, MaxLen - 1)
  /\ current' = LastPiece(i, MaxLen - 1)
  /\ size' = Len(current') * lines[i].bytes
  /\ i' = i + 1
  /\ UNCHANGED lines

\* The line does not fit any more: it starts a chunk, or several.
StartChunk ==
  /\ i <= Len(lines)
  /\ CandidateLen > MaxLen
  /\ chunks' = Flushed \o WholePieces(i, MaxLen)
  /\ current' = LastPiece(i, MaxLen)
  /\ size' = Len(current') * lines[i].bytes
  /\ i' = i + 1
  /\ UNCHANGED lines

LastFlush ==
  /\ i = Len(lines) + 1
  /\ chunks' = Flushed
  /\ current' = <<>>
  /\ size' = 0
  /\ i' = i + 1
  /\ UNCHANGED lines

Done == i = Len(lines) + 2 /\ UNCHANGED vars

Next == JoinLine \/ StartChunk \/ LastFlush \/ Done

Spec == Init /\ [][Next]_vars

-----------------------------------------------------------------------------
(* Properties.                                                             *)

\* Slack accepts every chunk: none is empty, none has more than MaxLen
\* characters, although the loop counts bytes in one place and runes in another.
ChunksFit == \A k \in DOMAIN chunks : Len(chunks[k]) \in 1..MaxLen

\* The lines the loop has taken in.
Seen == IF i > Len(lines) THEN Len(lines) ELSE i - 1

AllChunks == Append(chunks, current)

Holds(s, c) == \E p \in DOMAIN s : s[p] = c

Before(a, b) == a[1] < b[1] \/ (a[1] = b[1] /\ a[2] < b[2])

\* Of the text: characters of its lines, and newlines before them.
OfText(c) == c[1] \in 1..Seen /\ c[2] \in 0..lines[c[1]].len

\* Each character comes after the one before it, in its chunk and from one
\* chunk to the next.
Ascending(s) == \A p \in DOMAIN s : p > 1 => Before(s[p - 1], s[p])

Follows(s, t) == s # <<>> /\ t # <<>> => Before(s[Len(s)], t[1])

\* Nothing but newlines is lost, and nothing is repeated or moved: at any point
\* of the loop the chunks hold the characters of the lines seen so far, in order.
NothingLost ==
  /\ \A l \in 1..Seen : \A q \in 1..lines[l].len :
       \E k \in DOMAIN AllChunks : Holds(AllChunks[k], <<l, q>>)
  /\ \A k \in DOMAIN AllChunks :
       /\ \A p \in DOMAIN AllChunks[k] : OfText(AllChunks[k][p])
       /\ Ascending(AllChunks[k])
       /\ k > 1 => Follows(AllChunks[k - 1], AllChunks[k])

\* The lines of a chunk stand as in the text: between the characters of two
\* lines there are as many newlines as lines apart.
Joined(s) ==
  \A p \in DOMAIN s : p > 1 =>
    \/ s[p][2] > 0 /\ s[p] = <<s[p - 1][1], s[p - 1][2] + 1>>
    \/ s[p] = Newline(s[p - 1][1] + 1)

LinesKept == \A k \in DOMAIN chunks : Joined(chunks[k])

\* A line with a character in s is in s as a whole, unless it is too long.
WholeLines(s) ==
  \A p \in DOMAIN s : lines[s[p][1]].len \in 1..MaxLen =>
    \A q \in 1..lines[s[p][1]].len : Holds(s, <<s[p][1], q>>)

\* "preferring to split on line boundaries": only a line that is longer than a
\* chunk is cut.
ShortLinesWhole == \A k \in DOMAIN chunks : WholeLines(chunks[k])

-----------------------------------------------------------------------------
(* The inductive invariant: the running chunk is as good as the others.    *)

Char == (1..Len(lines)) \X Nat

TypeOK ==
  /\ lines \in Seq(Line)
  /\ i \in 1..(Len(lines) + 2)
  /\ current \in Seq(Char)
  /\ size \in Nat
  /\ chunks \in Seq(Seq(Char))

\* Bytes are at least as many as characters, which is what keeps a chunk within
\* its limit; the running chunk ends with the line before i.
CurrentInv ==
  /\ Len(current) <= size /\ Len(current) <= MaxLen
  /\ size > 0 <=> current # <<>>
  /\ current # <<>> => current[Len(current)][1] = i - 1

ShapeInv == ChunksFit /\ LinesKept /\ ShortLinesWhole /\ Joined(current) /\ WholeLines(current)

IInv == TypeOK /\ CurrentInv /\ ShapeInv /\ NothingLost

=============================================================================
