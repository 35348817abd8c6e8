------------------------------ MODULE Transcripts ------------------------------
(***************************************************************************)
(* How the sources cut what they have stored into the chunks of the search *)
(* index: Gmail threads, WhatsApp chats, files of the notebook, Drive      *)
(* documents, and the sources that make one entry of a row.                *)
(*                                                                         *)
(* A text is its size, the positions of its line ends and of its other     *)
(* white space, and whether it is words or numbers.  It starts and ends    *)
(* with a word: bodies are trimmed when they are formatted.  Of a piece of *)
(* a text only the interval counts.  Sizes are in runes; the places of     *)
(* line ends, which the code has in bytes, are those of ASCII.             *)
(***************************************************************************)
EXTENDS Integers, FiniteSets, Sequences, FiniteSetsExt, Sorting, TLC

CONSTANTS
  ChunkMaxChars,   \* 2000
  LowValueChars,   \* 50: the fewest a chunk can be of low value with
  Text             \* [size, lines, spaces, words]

ASSUME ChunkAssumption == ChunkMaxChars \in Nat \ {0} /\ LowValueChars \in Nat
ASSUME TextAssumption ==
  \A x \in Text :
    /\ x.size \in Nat \ {0} /\ x.words \in BOOLEAN
    /\ x.lines \cup x.spaces \subseteq 2..(x.size - 1) /\ x.lines \cap x.spaces = {}

Kind == {"gmail", "whatsapp", "notebook", "drive", "rows"}
Target == (ChunkMaxChars * 3) \div 4

White(x) == x.lines \cup x.spaces
Trimmed(x, a, b) ==
  LET word == (a..b) \ White(x) IN [from |-> Min(word), to |-> Max(word)]

-----------------------------------------------------------------------------
(* Where a text is cut that is too long: the last position of the piece    *)
(* that starts at a.                                                       *)

LastBefore(S, otherwise) == IF S = {} THEN otherwise ELSE Max(S) - 1

\* Mutant of CutThread: a line end just behind the limit counts as well.
CutThreadBehind(x, a, limit) ==
  IF a + limit + 1 \in x.lines THEN a + limit
  ELSE LastBefore({p \in x.lines : a < p /\ p < a + limit}, a + limit - 1)

\* splitLongThreadEntry: at the last line end.
CutThread(x, a, limit) ==
  LastBefore({p \in x.lines : a < p /\ p < a + limit}, a + limit - 1)

\* splitChatTranscriptEntry: at the last line end of the second half, else at the
\* last space there.
CutChat(x, a, limit) ==
  LET half == {p \in (a + 1)..(a + limit - 1) : p - a >= limit \div 2}
  IN  LastBefore(x.lines \cap half, LastBefore(x.spaces \cap half, a + limit - 1))

\* chunkText: at the first white space from the limit on.
CutNote(x, a, limit) ==
  Min({p - 1 : p \in {q \in White(x) : q >= a + limit}} \cup {x.size})

\* splitDriveContentChunks: at the limit.
CutDrive(x, a, limit) == a + limit - 1

Cut(k, x, a, limit) ==
  CASE k = "gmail" -> CutThread(x, a, limit)
    [] k = "whatsapp" -> CutChat(x, a, limit)
    [] k = "notebook" -> CutNote(x, a, limit)
    [] OTHER -> CutDrive(x, a, limit)

\* What is left of a text behind the position `at`.
Left(k, x, at) == ((at + 1)..x.size) \ (IF k = "drive" THEN {} ELSE White(x))

\* Cuts a piece off what is left: s has the pieces so far and where the last one ends.
CutOnce(k, x, limit, s) ==
  LET a == Min(Left(k, x, s.at))
      end == IF x.size - a + 1 <= limit THEN x.size ELSE Cut(k, x, a, limit)
      piece == IF k = "drive" THEN [from |-> a, to |-> end] ELSE Trimmed(x, a, end)
  IN  IF Left(k, x, s.at) = {} THEN s ELSE [at |-> end, pieces |-> Append(s.pieces, piece)]

\* The pieces of a text, one after the other.
Pieces(k, x, limit) ==
  LET cut[n \in 0..x.size] ==
        IF n = 0 THEN [at |-> 0, pieces |-> <<>>] ELSE CutOnce(k, x, limit, cut[n - 1])
  IN  IF limit <= 0 THEN <<[from |-> 1, to |-> x.size]>> ELSE cut[x.size].pieces

-----------------------------------------------------------------------------
(* Chunks.  A chunk is a sequence of pieces [slot, text, from, to].        *)

Length(piece) == piece.to - piece.from + 1
Piece(s, x, p) == [slot |-> s, text |-> x, from |-> p.from, to |-> p.to]
Whole(m) == Piece(m.slot, m.text, [from |-> 1, to |-> m.text.size])

\* Pieces stand two line ends apart.
Size(header, chunk) ==
  LET sum[i \in 0..Len(chunk)] == IF i = 0 THEN header - 2 ELSE sum[i - 1] + Length(chunk[i]) + 2
  IN  sum[Len(chunk)]

\* The pieces of a message, each a chunk.
Alone(k, m, limit) ==
  LET pieces == Pieces(k, m.text, limit)
  IN  [i \in 1..Len(pieces) |-> <<Piece(m.slot, m.text, pieces[i])>>]

\* Mutant of Flushed: a chunk is emitted when it has more than one message.
FlushedLate(open) == IF Len(open) <= 1 THEN <<>> ELSE <<open>>

Flushed(open) == IF open = <<>> THEN <<>> ELSE <<open>>

\* A message is added to the open chunk up to the target; one that does not fit into a
\* chunk gets chunks of its own.
AddMessage(k, header, s, m) ==
  IF header + m.text.size > ChunkMaxChars
    THEN [chunks |-> s.chunks \o Flushed(s.open) \o Alone(k, m, ChunkMaxChars - header),
          open |-> <<>>]
    ELSE IF s.open # <<>> /\ Size(header, s.open) + 2 + m.text.size > Target
      THEN [chunks |-> s.chunks \o Flushed(s.open), open |-> <<Whole(m)>>]
      ELSE [chunks |-> s.chunks, open |-> Append(s.open, Whole(m))]

\* The chunks of a record of messages: those so far and the open one.
Transcript(k, header, messages) ==
  LET added[i \in 0..Len(messages)] ==
        IF i = 0 THEN [chunks |-> <<>>, open |-> <<>>]
        ELSE AddMessage(k, header, added[i - 1], messages[i])
      all == added[Len(messages)]
  IN  all.chunks \o Flushed(all.open)

\* buildGmailThreadChunks and buildChatChunks.
ThreadTranscript(header, messages) == Transcript("gmail", header, messages)
ChatTranscript(header, messages) == Transcript("whatsapp", header, messages)

\* IsLowValueContent: less than three letters in ten.
IsLowValueContent(header, chunk) ==
  LET sum[i \in 0..Len(chunk)] ==
        IF i = 0 THEN [all |-> header, letters |-> header]
        ELSE LET p == chunk[i]
                 n == Cardinality((p.from..p.to) \ White(p.text))
                 acc == sum[i - 1]
             IN  [all |-> acc.all + n,
                  letters |-> acc.letters + IF p.text.words THEN n ELSE 0]
      total == sum[Len(chunk)]
  IN  total.all >= LowValueChars /\ total.letters * 10 < total.all * 3
=============================================================================
