------------------------- MODULE MCIndexCoordinator -------------------------
(* The coordinator with three goroutine identities: one may run while two  *)
(* finished ones have not yet exited or relaunched.                        *)
EXTENDS IndexCoordinator
=============================================================================
