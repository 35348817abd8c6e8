------------------------------ MODULE MCDaemon ------------------------------
(* One source, whose goroutines may overlap: sources share nothing but the *)
(* order in which the loops of a tick come to them.                        *)
EXTENDS Daemon, TLC

\* Goroutine identities are interchangeable.
Symmetric == Permutations(Instance)
=============================================================================
