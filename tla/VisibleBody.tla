------------------------------ MODULE VisibleBody ------------------------------
(***************************************************************************)
(* The part of a Gmail message that is stored, indexed and shown: what its *)
(* author wrote, without the history that it quotes, as far as the two can *)
(* be told apart.                                                          *)
(*                                                                         *)
(* A body is a sequence of lines, trimmed of the blank ones at both ends.  *)
(* Of a line it counts what it looks like - blank, quoted (">"), a header  *)
(* ("From:"), the start of a reply or forwarded message ("On ... wrote:"), *)
(* a mobile signature, or text - and how long it is.  Everything that is   *)
(* taken away is at the end, so the visible body is a number of lines.     *)
(***************************************************************************)
EXTENDS Naturals, Sequences, FiniteSetsExt

CONSTANTS
  Body,          \* normalized bodies: sequences of lines [looks, size]
  LongBody,      \* 200: too long to become so little as ...
  LittleText,    \* 20: ... this
  VeryLongBody   \* 500: too long to become less than a tenth

Looks == {"blank", "quoted", "header", "boundary", "signature", "text"}
Lines == [looks : Looks, size : Nat]
ASSUME BodyAssumption ==
  \A b \in Body : /\ b \in Seq(Lines) /\ b # <<>>
                  /\ b[1].looks # "blank" /\ b[Len(b)].looks # "blank"
ASSUME SizeAssumption == {LongBody, LittleText, VeryLongBody} \subseteq Nat

\* hasAuthoredContent, of the first n lines.
HasAuthoredContent(b, n) == \E i \in 1..n : b[i].looks \notin {"blank", "quoted"}

\* Mutant of IsQuotedHeaderBlock: one header is enough.
IsHeader(b, i) == b[i].looks = "header"

\* isQuotedHeaderBlock, at a line that is not blank.
IsQuotedHeaderBlock(b, i) ==
  i < Len(b) /\ b[i].looks = "header" /\ b[i + 1].looks = "header"

StartsHistory(b, i) ==
  /\ b[i].looks # "blank" /\ HasAuthoredContent(b, i - 1)
  /\ b[i].looks = "boundary" \/ IsQuotedHeaderBlock(b, i)

\* The lines above the first that starts the history.
CutHistory(b) ==
  LET starts == {i \in DOMAIN b : StartsHistory(b, i)}
  IN  IF starts = {} THEN Len(b) ELSE Min(starts) - 1

\* trimTrailingBlankLines and trimTrailingQuotedBlock, of the first n lines: up to the
\* last that is neither.
TrimTrailing(b, n, looks) == Max({0} \cup {i \in 1..n : b[i].looks \notin looks})

\* trimTrailingMobileSignature: only under a blank line.
TrimTrailingMobileSignature(b, n) ==
  IF n >= 2 /\ b[n].looks = "signature" /\ b[n - 1].looks = "blank"
    THEN TrimTrailing(b, n - 2, {"blank"}) ELSE n

StripQuotedReplyBlocks(b) ==
  TrimTrailingMobileSignature(b, TrimTrailing(b, CutHistory(b), {"blank", "quoted"}))

\* With the line ends between them.
SizeOf(b, n) == IF n = 0 THEN 0 ELSE FoldSet(LAMBDA i, sum : sum + b[i].size + 1, 0, 1..n) - 1

ShouldFallbackToRaw(b, n) ==
  LET raw == SizeOf(b, Len(b))
      visible == SizeOf(b, n)
  IN  \/ visible = 0
      \/ raw >= LongBody /\ visible < LittleText
      \/ raw >= VeryLongBody /\ visible * 10 < raw

\* deriveVisibleBody.
Visible(b) ==
  LET n == StripQuotedReplyBlocks(b)
  IN  IF ShouldFallbackToRaw(b, n) THEN Len(b) ELSE n
=============================================================================
