--------------------------- MODULE MCSourceIndexing ---------------------------
(* A limit of 8 characters for 2000.  A text that fits, one of numbers, and  *)
(* two of one size to be cut at a line end, at a space, or inside a word.    *)
EXTENDS SourceIndexing

T(size, lines, spaces, words) ==
  [size |-> size, lines |-> lines, spaces |-> spaces, words |-> words]

MCText ==
  {T(2, {}, {}, TRUE), T(5, {}, {}, FALSE),
   T(13, {4, 5, 10}, {7}, TRUE), T(13, {}, {2, 12}, TRUE)}
MCHeaders == {0, 3, 8}
AllKinds == {"gmail", "whatsapp", "notebook", "rows", "history", "drive"}
=============================================================================
