---------------------------- MODULE MCGmailThreads ----------------------------
(* Two threads, of two messages and of one.                                  *)
EXTENDS GmailThreads, TLC

CONSTANTS m1, m2, m3

MCThread == {1, 2}
MCThreadOf == m1 :> 1 @@ m2 :> 1 @@ m3 :> 2
=============================================================================
