------------------------ MODULE MCAuthorizationFlow ------------------------
(* Bounded instances of AuthorizationFlow for TLC. *)
EXTENDS AuthorizationFlow, TLC

CONSTANTS c1, c2, r1, r2, actions, mcp, openid, email

(* An MCP client, PKCE required, that may lose a scope; and a GPT Actions   *)
(* client with one resource and two redirect URIs.                          *)
MCRegistration ==
    (c1 :> {[redirectUris |-> {r1}, resources |-> {mcp}, scopes |-> scopes,
             pkceRequired |-> TRUE, gptActions |-> FALSE] : scopes \in {{openid}, {openid, email}}})
    @@ (c2 :> {[redirectUris |-> {r1, r2}, resources |-> {actions}, scopes |-> {openid},
                pkceRequired |-> FALSE, gptActions |-> TRUE]})

Symmetry == Permutations(Worker) \cup Permutations(Code) \cup Permutations(UpstreamCode)
              \cup Permutations(User) \cup Permutations(Login)
=============================================================================
