---------------------------- MODULE MCDiskStore ----------------------------
(* Bounded instances of DiskStore for TLC. *)
EXTENDS DiskStore, TLC

Symmetry == Permutations(Token) \cup Permutations(Client) \cup Permutations(State) \cup Permutations(RequestId)
=============================================================================
