----------------------- MODULE MCDynamoRefreshTokens -----------------------
(* Bounded instances of DynamoRefreshTokens for TLC. *)
EXTENDS DynamoRefreshTokens, TLC

Symmetry == Permutations(Token) \cup Permutations(Worker)
=============================================================================
