------------------------------ MODULE MCIndexer ------------------------------
(* One source with two rows, two texts each may have, and three seconds:   *)
(* the runs of a pass treat sources one after the other and share nothing  *)
(* between them but the triggers.                                          *)
EXTENDS Indexer, TLC

\* Rows and texts are interchangeable.
Symmetric == Permutations(Source) \cup Permutations(Key) \cup Permutations(Text)
=============================================================================
