---------------------------- MODULE MCStoreFile ----------------------------
(* Bounded instances of StoreFile for TLC: every process calls update once, *)
(* the first one twice.                                                     *)
EXTENDS StoreFile, TLC

CONSTANTS p1, p2, u1, u2, u3

TwoProcesses == (u1 :> p1) @@ (u2 :> p1) @@ (u3 :> p2)
=============================================================================
