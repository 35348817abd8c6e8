---------------------------- MODULE MCSourceReset ----------------------------
(* One source, two goroutine identities, files removed once or twice.      *)
EXTENDS SourceReset, TLC

\* Goroutine identities are interchangeable.
Symmetric == Permutations(Instance)
=============================================================================
