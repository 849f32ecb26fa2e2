---------------------------- MODULE AccessTokens ----------------------------
(***************************************************************************)
(* Access tokens and the places that ask for one.                          *)
(*                                                                         *)
(* A token is the record of the claims the checks look at, with the key    *)
(* that signed it; a key set is what signing-keys.ts returns: the active   *)
(* key and the previous public keys, as records of a key ID and a key.     *)
(* The texts of tokens and headers, and the claims that are only copied    *)
(* into answers (name, email and so on), are left out.  There is one       *)
(* issuer, so the issuer comparison always holds.                          *)
(***************************************************************************)
EXTENDS Naturals, Sequences

\* authSessionScopes and identityProfileScopes
authSessionScopes == {"openid"}
identityProfileScopes == {"openid", "profile", "email"}
mcpProtectedResourceScopes == authSessionScopes \cup identityProfileScopes

\* The audiences a token may be issued for: one per kind of client.
Audiences == {"actions", "mcp"}

Token(key, kid, aud, scopes, iat, exp) ==
    [key |-> key, kid |-> kid, aud |-> aud, scopes |-> scopes,
     iat |-> iat, exp |-> exp]

\* How a request carries a token.  "bearer": in one Authorization header;
\* "none": no header; "other": a header that does not read as a bearer token,
\* or a text that is no JWT; "duplicate": two headers; "query": a parameter.
Presentations == {"bearer", "none", "other", "duplicate", "query"}

Find(keys, kid) == CHOOSE k \in keys : k.kid = kid

\* verifyAccessToken: the first check that fails, in the code's order.
VerifyAccessToken(keys, t, audience, required, now) ==
    IF \A k \in keys : k.kid # t.kid THEN "unknown_key_id"
    ELSE IF Find(keys, t.kid).key # t.key THEN "jwt_invalid_signature"
    ELSE IF t.aud # audience THEN "audience_mismatch"
    ELSE IF t.exp <= now THEN "token_expired"
    ELSE IF t.iat > now THEN "token_issued_in_future"
    ELSE IF ~(required \subseteq t.scopes) THEN "insufficient_scope"
    ELSE "valid"

Status(reason) ==
    CASE reason = "valid" -> 200
      [] reason = "insufficient_scope" -> 403
      [] OTHER -> 401

\* readBearer: "" when the header holds a token.
ReadBearer(how) ==
    CASE how = "none" -> "missing_authorization_header"
      [] how = "other" -> "invalid_authorization_header"
      [] OTHER -> ""

VerifyBearer(keys, how, t, audience, required, now) ==
    IF ReadBearer(how) # "" THEN ReadBearer(how)
    ELSE VerifyAccessToken(keys, t, audience, required, now)

\* verifyBearerAnyAudience: a missing scope is reported before any other
\* failure, whichever audience it was found with; otherwise the failure of
\* the first audience, which is the Actions audience, is reported.
VerifyBearerAnyAudience(keys, how, t, audiences, required, now) ==
    LET reasons == {VerifyBearer(keys, how, t, a, required, now) : a \in audiences}
    IN  IF "valid" \in reasons THEN "valid"
        ELSE IF "insufficient_scope" \in reasons THEN "insufficient_scope"
        ELSE VerifyBearer(keys, how, t, "actions", required, now)

-----------------------------------------------------------------------------
(* The protected operations.                                               *)

\* The tools: what a tool announces in its descriptor and its challenges, and
\* what its run function asks verifyBearer for (nothing if it is not checked).
healthCheckTool == [requiredScopes |-> {}, protected |-> FALSE, checks |-> {}]

healthStatusCardTool == [requiredScopes |-> {}, protected |-> FALSE, checks |-> {}]

\* Mutant: the tool announces fewer scopes than it checks.
MutIdentityProfileTool ==
    [requiredScopes |-> {"openid", "profile"}, protected |-> TRUE, checks |-> identityProfileScopes]

identityProfileTool ==
    [requiredScopes |-> identityProfileScopes, protected |-> TRUE, checks |-> identityProfileScopes]

identityProfileCardTool ==
    [requiredScopes |-> identityProfileScopes, protected |-> TRUE, checks |-> identityProfileScopes]

authSessionTool ==
    [requiredScopes |-> authSessionScopes, protected |-> TRUE, checks |-> authSessionScopes]

tools == [health_check |-> healthCheckTool, health_status_card |-> healthStatusCardTool,
          identity_profile |-> identityProfileTool,
          identity_profile_card |-> identityProfileCardTool, auth_session |-> authSessionTool]

\* The widget resources, by the scopes that readResource asks for.
healthStatusCardWidget == {}

profileSummaryCardWidget == identityProfileScopes

resources == [health_status_html |-> healthStatusCardWidget, profile_summary_html |-> profileSummaryCardWidget]

\* The scopes of the Actions operations, in the OpenAPI document and in the
\* endpoints' checks.
actionOperationDefinitions == [profile |-> {"openid", "profile", "email"}, session |-> {"openid"}]

Tools == DOMAIN tools
Resources == DOMAIN resources
ActionNames == DOMAIN actionOperationDefinitions
Operations == Tools \cup Resources \cup ActionNames \cup {"userinfo"}

Answer(reason, scopes) == [status |-> Status(reason), challenge |-> scopes]

Malformed == [status |-> 400, challenge |-> {}]

\* The transport asks for a token of the MCP audience, with any scopes, before
\* it reads the request; its refusal names the scopes of the whole resource.
Transport(keys, how, t, now) == VerifyBearer(keys, how, t, "mcp", {}, now)

WriteMcpTransportError(reason) ==
    Answer(reason, IF Status(reason) = 401 THEN mcpProtectedResourceScopes ELSE {})

\* callTool: a refusal of the tool becomes a challenge naming requiredScopes.
CallTool(tool, keys, how, t, now) ==
    LET run == IF tool.protected THEN VerifyBearer(keys, how, t, "mcp", tool.checks, now)
               ELSE "valid"
    IN  Answer(run, IF run = "valid" THEN {} ELSE tool.requiredScopes)

\* readResource: a resource without scopes is not checked again.
ReadResource(scopes, keys, how, t, now) ==
    LET checked == IF scopes = {} THEN "valid" ELSE VerifyBearer(keys, how, t, "mcp", scopes, now)
    IN  Answer(checked, IF checked = "valid" THEN {} ELSE scopes)

McpPost(op, keys, how, t, now) ==
    IF Transport(keys, how, t, now) # "valid"
      THEN WriteMcpTransportError(Transport(keys, how, t, now))
    ELSE IF op \in Tools THEN CallTool(tools[op], keys, how, t, now)
    ELSE ReadResource(resources[op], keys, how, t, now)

\* The gateway's auth handler answers 401 whatever the reason.
AuthHandler(keys, how, t, now) == VerifyBearer(keys, how, t, "actions", {}, now) = "valid"

\* verifyActionBearer: 403 for a missing scope, 401 for anything else.
VerifyActionBearer(scopes, keys, how, t, now) ==
    Answer(VerifyBearer(keys, how, t, "actions", scopes, now), {})

CallAction(scopes, keys, how, t, now) ==
    IF AuthHandler(keys, how, t, now) THEN VerifyActionBearer(scopes, keys, how, t, now)
    ELSE [status |-> 401, challenge |-> {}]

UserInfo(keys, how, t, now) ==
    Answer(VerifyBearerAnyAudience(keys, how, t, Audiences, {"openid"}, now), {})

\* A request with a token in the query or with two Authorization headers is
\* refused before the token is looked at.
RequestAccepted(how) == how \notin {"duplicate", "query"}

Serve(op, keys, how, t, now) ==
    IF ~ RequestAccepted(how) THEN Malformed
    ELSE IF op \in Tools \cup Resources THEN McpPost(op, keys, how, t, now)
    ELSE IF op \in ActionNames THEN CallAction(actionOperationDefinitions[op], keys, how, t, now)
    ELSE UserInfo(keys, how, t, now)

\* The scopes and audiences an operation announces.
AnnouncedScopes(op) ==
    IF op \in Tools THEN tools[op].requiredScopes
    ELSE IF op \in Resources THEN resources[op]
    ELSE IF op \in ActionNames THEN actionOperationDefinitions[op]
    ELSE {"openid"}

MeantFor(op) ==
    IF op \in Tools \cup Resources THEN {"mcp"}
    ELSE IF op \in ActionNames THEN {"actions"}
    ELSE Audiences
=============================================================================
