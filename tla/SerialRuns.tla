----------------------------- MODULE SerialRuns -----------------------------
(***************************************************************************)
(* What indexCoordinator promises its callers, without its mutex, pending  *)
(* flags or goroutines: index runs never overlap, a run that clears the    *)
(* index is a full pass, and once the coordinator is closed nothing runs   *)
(* any more.                                                               *)
(***************************************************************************)
VARIABLES run,      \* {} or the single run in progress
          closed    \* Stop has returned

svars == <<run, closed>>

Run == {r \in [clear : BOOLEAN, full : BOOLEAN] : r.clear => r.full}

Init == run = {} /\ closed = FALSE

Begin(r) == run = {} /\ ~closed /\ run' = {r} /\ UNCHANGED closed

End == run # {} /\ run' = {} /\ UNCHANGED closed

Close == run = {} /\ ~closed /\ closed' = TRUE /\ UNCHANGED run

Next == (\E r \in Run : Begin(r)) \/ End \/ Close

Spec == Init /\ [][Next]_svars
=============================================================================
