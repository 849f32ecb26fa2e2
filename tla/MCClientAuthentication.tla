----------------------- MODULE MCClientAuthentication -----------------------
(* Bounded instances of ClientAuthentication for TLC. *)
EXTENDS ClientAuthentication, TLC

CONSTANTS c1, k1, a1

(* The client signs assertions, and may withdraw its key. *)
MCPublishable ==
    (<<"metadata", c1>> :> {[method |-> "private_key_jwt"]}) @@ (<<"jwks", c1>> :> {[keys |-> {k1}], None})

(* Its metadata document is never cached, its keys may be. *)
MCLifetimes ==
    (<<"metadata", c1>> :> {0}) @@ (<<"jwks", c1>> :> {0, MaxCacheSeconds})

MCClaims == a1 :> [client |-> c1, jti |-> a1, key |-> k1, iat |-> 0, nbf |-> 0, exp |-> 1]

Symmetry == Permutations(Worker) \cup Permutations(Process)
=============================================================================
