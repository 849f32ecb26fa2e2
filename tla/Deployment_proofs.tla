------------------------- MODULE Deployment_proofs -------------------------
(* Proofs about Deployment, for every set of keys, secrets and seed options *)
(* and every number of tokens and rotations, and about Configuration, for   *)
(* any inputs an operator may type.                                         *)
EXTENDS Deployment, Configuration, FiniteSetTheorems, TLAPS

-----------------------------------------------------------------------------
(* The inductive invariant of the secrets *)

(* What the seed command has read or made up is what the parameters hold,   *)
(* where they hold anything; what it has written, they hold.                *)
SeedOK ==
    /\ seed.step >= 2 => seed.actions \in Secrets /\ param.actions \in {Absent, seed.actions}
    /\ seed.step >= 3 => seed.mcp \in Secrets /\ param.mcp \in {Absent, seed.mcp}
    /\ seed.step >= 4 => seed.pem \in Keys
    /\ seed.step >= 6 => param.pem # Absent
    /\ seed.step >= 8 => param.actions = seed.actions
    /\ seed.step >= 9 => param.mcp = seed.mcp

(* A key ID, the previous keys and a rotation are never ahead of the key.   *)
ParamOK ==
    /\ param.kid # Absent => param.pem # Absent
    /\ rotation.step # "idle" => rotation.key \in Keys /\ rotation.kid \in Kids /\ param.pem # Absent
    /\ param.previous.keys # {} => param.kid # Absent
    /\ param.previous.escapes = 0
    /\ host.file.previous.escapes = 0

(* A registry has the hashes of the secrets that are stored.                *)
Accepts(registry) ==
    registry # Absent =>
        /\ param.actions # Absent /\ registry.actions = Sha256(param.actions)
        /\ param.mcp # Absent /\ registry.mcp = Sha256(param.mcp)

(* So has every copy of it, however old.                                    *)
CopiesOK ==
    /\ Accepts(param.clients)
    /\ Accepts(host.file.clients)
    /\ container # Absent => Accepts(container.clients)
    /\ up => container # Absent /\ container.clients # Absent
    /\ host.step = "removed" => container = Absent
    /\ mode.loading # "file" => host.step = "idle"

IInv == TypeOK /\ SeedOK /\ ParamOK /\ CopiesOK

-----------------------------------------------------------------------------
(* The inductive invariant of the keys, as long as no seed command and no   *)
(* rotation have been under way at once                                     *)

(* The key of the parameters p and its key ID, if both are there and the    *)
(* key ID is not yet that of the key before.                                *)
Pair(p) ==
    IF p.pem # Absent /\ p.kid # Absent /\ p.kid \notin {k.kid : k \in p.previous.keys}
    THEN {[kid |-> p.kid, key |-> p.pem]} ELSE {}

(* What p says of keys and key IDs.                                         *)
Names(p) == Pair(p) \cup p.previous.keys

(* The parameters that the container was made from.                         *)
Running == IF container = Absent THEN NoParameters ELSE [container EXCEPT !.pem = made]

(* The seed command writes the key that is stored, and runs alone.          *)
PemOK ==
    /\ seed.step >= 4 => param.pem \in {Absent, seed.pem}
    /\ seed.step > 0 => rotation.step = "idle"

(* A rotation begins with the old key ID in both places, and ends with the  *)
(* new one in neither.                                                      *)
RotationOK ==
    /\ rotation.step = "idle" =>
          \A k \in param.previous.keys : k.kid # param.kid /\ k.key # param.pem
    /\ rotation.step # "idle" =>
          /\ \A k \in param.previous.keys : k.kid # rotation.kid /\ k.key # rotation.key
          /\ \E k \in param.previous.keys : k.kid = param.kid
    /\ rotation.step = "key" => param.pem = rotation.key

NewPair ==
    IF rotation.step = "idle" THEN {} ELSE {[kid |-> rotation.kid, key |-> rotation.key]}

TokenPair(t) == [kid |-> t.kid, key |-> t.key]

(* Everything that is said of keys and key IDs anywhere.                    *)
AllNames ==
    Names(param) \cup Names(host.file) \cup Names(Running) \cup NewPair
        \cup {TokenPair(t) : t \in tokens \ stray}

(* A key ID is derived from its key, or was chosen in an earlier rotation.  *)
Proper(b) == b.kid = DerivedKid(b.key) \/ \E n \in 0 .. rotations - 1 : b.kid = ChosenKid(n)

(* A key ID stands for the same key wherever it is said.                    *)
NamesOK ==
    /\ \A b \in AllNames : Proper(b)
    /\ \A a, b \in AllNames : a.kid = b.kid => a.key = b.key

(* q still names the key that p signs with, unless the seed command has     *)
(* replaced its key ID.                                                     *)
StillNames(q, p) == \A b \in Pair(p) : b \in Names(q) \/ b.kid \in replaced

PairsOK ==
    /\ StillNames(param, Running)
    /\ host.step # "idle" => StillNames(param, host.file) /\ StillNames(host.file, Running)

(* A token that has to be honoured.                                         *)
Live(t) == t \in tokens \ stray /\ now < t.exp /\ t.kid \notin replaced

(* The parameters name the key of every such token, and so does the         *)
(* container, and the one that run.sh is about to start.                    *)
TokensOK ==
    /\ \A t \in tokens : t.iat <= now
    /\ \A t \in tokens : Live(t) =>
          /\ TokenPair(t) \in Names(param)
          /\ container # Absent => TokenPair(t) \in Names(Running)
          /\ host.step # "idle" => TokenPair(t) \in Names(host.file)

KeysOK == PemOK /\ RotationOK /\ NamesOK /\ PairsOK /\ TokensOK


-----------------------------------------------------------------------------
(* What a token is answered *)

(* The keys know t: its key ID names its key, if it names one at all, and   *)
(* it does as long as t has not expired.                                    *)
Knows(keys, t, time) ==
    /\ \A k \in keys : k.kid = t.kid => k.key = t.key
    /\ time < t.exp => \E k \in keys : k.kid = t.kid
    /\ t.iat <= time
    /\ {time, t.exp, t.iat} \subseteq Nat

(* verifyAccessToken finds a known token wanting for its age, its audience  *)
(* or its scopes only.                                                      *)
LEMMA Verified ==
    ASSUME NEW keys, NEW t, NEW audience, NEW required, NEW time, Knows(keys, t, time),
           NEW result, result = VerifyAccessToken(keys, t, audience, required, time)
    PROVE  /\ t.exp <= time => Status(result) = 401 /\ result # "valid" /\ result # "insufficient_scope"
           /\ time < t.exp /\ t.aud # audience => result = "audience_mismatch"
           /\ time < t.exp /\ t.aud = audience /\ ~(required \subseteq t.scopes) => result = "insufficient_scope"
           /\ time < t.exp /\ t.aud = audience /\ required \subseteq t.scopes => result = "valid"
<1>1. (\E k \in keys : k.kid = t.kid) => Find(keys, t.kid).key = t.key
  BY DEF Knows, Find
<1>2. time \in Nat /\ t.exp \in Nat /\ t.iat \in Nat
  BY DEF Knows
<1>3. CASE t.exp <= time
  <2>1. result \in {"unknown_key_id", "jwt_invalid_signature", "audience_mismatch", "token_expired"}
    BY <1>2, <1>3 DEF VerifyAccessToken
  <2>2. Status(result) = 401 /\ result # "valid" /\ result # "insufficient_scope"
    BY <2>1 DEF Status
  <2> QED
    BY <1>2, <1>3, <2>2
<1>4. CASE time < t.exp
  <2>1. /\ \E k \in keys : k.kid = t.kid
        /\ ~(Find(keys, t.kid).key # t.key) /\ ~(t.exp <= time) /\ ~(t.iat > time)
    BY <1>1, <1>2, <1>4 DEF Knows
  <2>2. CASE t.aud # audience
    BY <1>2, <1>4, <2>1, <2>2 DEF VerifyAccessToken
  <2>3. CASE t.aud = audience /\ ~(required \subseteq t.scopes)
    BY <1>2, <1>4, <2>1, <2>3 DEF VerifyAccessToken
  <2>4. CASE t.aud = audience /\ required \subseteq t.scopes
    BY <1>2, <1>4, <2>1, <2>4 DEF VerifyAccessToken
  <2> QED
    BY <1>2, <1>4, <2>2, <2>3, <2>4
<1> QED
  BY <1>2, <1>3, <1>4

(* A request that carries no token is refused whatever it asks for. *)
LEMMA Unpresented ==
    ASSUME NEW keys, NEW t, NEW audience, NEW required, NEW time, NEW how \in {"none", "other"},
           NEW result, result = VerifyBearer(keys, how, t, audience, required, time)
    PROVE  Status(result) = 401 /\ result # "valid" /\ result # "insufficient_scope"
<1>1. result \in {"missing_authorization_header", "invalid_authorization_header"}
  BY DEF VerifyBearer, ReadBearer
<1> QED
  BY <1>1 DEF Status

LEMMA Presented ==
    ASSUME NEW keys, NEW t, NEW audience, NEW required, NEW time
    PROVE  VerifyBearer(keys, "bearer", t, audience, required, time)
             = VerifyAccessToken(keys, t, audience, required, time)
  BY DEF VerifyBearer, ReadBearer

(* The two lemmas as one: what verifyBearer says, by what was presented. *)
LEMMA BearerVerified ==
    ASSUME NEW keys, NEW t, NEW audience, NEW required, NEW time, Knows(keys, t, time),
           NEW how \in {"bearer", "none", "other"},
           NEW result, result = VerifyBearer(keys, how, t, audience, required, time)
    PROVE  /\ how # "bearer" \/ t.exp <= time =>
                  Status(result) = 401 /\ result # "valid" /\ result # "insufficient_scope"
           /\ how = "bearer" /\ time < t.exp =>
                  /\ t.aud # audience => result = "audience_mismatch" /\ Status(result) = 401
                  /\ t.aud = audience /\ ~(required \subseteq t.scopes) =>
                        result = "insufficient_scope" /\ Status(result) = 403
                  /\ t.aud = audience /\ required \subseteq t.scopes => result = "valid" /\ Status(result) = 200
<1>1. Status("audience_mismatch") = 401 /\ Status("insufficient_scope") = 403 /\ Status("valid") = 200
  BY DEF Status
<1>2. CASE how # "bearer"
  BY <1>2, Unpresented
<1>3. CASE how = "bearer"
  <2>1. result = VerifyAccessToken(keys, t, audience, required, time)
    BY <1>3, Presented
  <2> QED
    BY <1>1, <1>3, <2>1, Verified
<1> QED
  BY <1>2, <1>3

(* The operations, what each announces and what it asks for. *)
LEMMA Announced ==
    /\ Tools = {"health_check", "health_status_card", "identity_profile", "identity_profile_card",
                "auth_session"}
    /\ Resources = {"health_status_html", "profile_summary_html"}
    /\ ActionNames = {"profile", "session"}
    /\ \A op \in Tools :
          /\ tools[op].protected \in BOOLEAN
          /\ tools[op].protected => tools[op].checks = tools[op].requiredScopes
          /\ ~tools[op].protected => tools[op].requiredScopes = {}
          /\ tools[op].requiredScopes \subseteq AllowedScopes
    /\ \A op \in Resources : resources[op] \subseteq AllowedScopes
<1>1. /\ Tools = {"health_check", "health_status_card", "identity_profile", "identity_profile_card",
                  "auth_session"}
      /\ Resources = {"health_status_html", "profile_summary_html"}
      /\ ActionNames = {"profile", "session"}
  BY DEF Tools, Resources, ActionNames, tools, resources, actionOperationDefinitions
<1>2. /\ tools["health_check"] = healthCheckTool /\ tools["health_status_card"] = healthStatusCardTool
      /\ tools["identity_profile"] = identityProfileTool
      /\ tools["identity_profile_card"] = identityProfileCardTool
      /\ tools["auth_session"] = authSessionTool
  BY DEF tools
<1>3. ASSUME NEW op \in Tools
      PROVE  /\ tools[op].protected \in BOOLEAN
             /\ tools[op].protected => tools[op].checks = tools[op].requiredScopes
             /\ ~tools[op].protected => tools[op].requiredScopes = {}
             /\ tools[op].requiredScopes \subseteq AllowedScopes
  <2>1. CASE op \in {"health_check", "health_status_card"}
    <3>1. /\ tools[op].protected = FALSE /\ tools[op].requiredScopes = {}
      BY <1>2, <2>1 DEF healthCheckTool, healthStatusCardTool
    <3> QED
      BY <3>1
  <2>2. CASE op \in {"identity_profile", "identity_profile_card"}
    <3>1. /\ tools[op].protected = TRUE /\ tools[op].requiredScopes = identityProfileScopes
          /\ tools[op].checks = identityProfileScopes
      BY <1>2, <2>2 DEF identityProfileTool, identityProfileCardTool
    <3> QED
      BY <3>1 DEF identityProfileScopes, AllowedScopes
  <2>3. CASE op = "auth_session"
    <3>1. /\ tools[op].protected = TRUE /\ tools[op].requiredScopes = authSessionScopes
          /\ tools[op].checks = authSessionScopes
      BY <1>2, <2>3 DEF authSessionTool
    <3> QED
      BY <3>1 DEF authSessionScopes, AllowedScopes
  <2> QED
    BY <1>1, <2>1, <2>2, <2>3
<1>4. \A op \in Resources : resources[op] \subseteq AllowedScopes
  BY <1>1 DEF resources, healthStatusCardWidget, profileSummaryCardWidget, identityProfileScopes, AllowedScopes
<1> QED
  BY <1>1, <1>3, <1>4

(* The status of a request that carries a known token, by what it asks for. *)
LEMMA McpServed ==
    ASSUME NEW keys, NEW t, NEW time, Knows(keys, t, time), NEW how \in {"bearer", "none", "other"},
           NEW op \in Tools \cup Resources
    PROVE  McpPost(op, keys, how, t, time).status =
              IF how # "bearer" \/ t.exp <= time \/ t.aud # "mcp" THEN 401
              ELSE IF ~(AnnouncedScopes(op) \subseteq t.scopes) THEN 403
              ELSE 200
<1>1. time \in Nat /\ t.exp \in Nat
  BY DEF Knows
<1>2. PICK first : first = Transport(keys, how, t, time)
  OBVIOUS
<1>3. Status("valid") = 200 /\ {} \subseteq t.scopes
  BY DEF Status
<1>4. CASE how # "bearer" \/ t.exp <= time \/ t.aud # "mcp"
  <2>1. first # "valid" /\ Status(first) = 401
    BY <1>1, <1>2, <1>4, BearerVerified DEF Transport
  <2>2. McpPost(op, keys, how, t, time) = WriteMcpTransportError(first)
    BY <1>2, <2>1 DEF McpPost
  <2>3. McpPost(op, keys, how, t, time).status = 401
    BY <2>1, <2>2 DEF WriteMcpTransportError, Answer
  <2> QED
    BY <1>4, <2>3
<1>5. CASE ~(how # "bearer" \/ t.exp <= time \/ t.aud # "mcp")
  <2>1. first = "valid" /\ how = "bearer" /\ time < t.exp /\ t.aud = "mcp"
    BY <1>1, <1>2, <1>3, <1>5, BearerVerified DEF Transport
  <2>2. CASE op \in Tools
    <3>1. PICK run : run = IF tools[op].protected THEN VerifyBearer(keys, how, t, "mcp", tools[op].checks, time)
                           ELSE "valid"
      OBVIOUS
    <3>2. Status(run) = IF ~(tools[op].requiredScopes \subseteq t.scopes) THEN 403 ELSE 200
      <4>1. CASE tools[op].protected
        BY <2>1, <2>2, <3>1, <4>1, Announced, BearerVerified
      <4>2. CASE ~tools[op].protected
        BY <1>3, <2>2, <3>1, <4>2, Announced
      <4> QED
        BY <4>1, <4>2
    <3>3. McpPost(op, keys, how, t, time) = CallTool(tools[op], keys, how, t, time)
      BY <1>2, <2>1, <2>2 DEF McpPost
    <3>4. McpPost(op, keys, how, t, time).status = Status(run)
      BY <3>1, <3>3 DEF CallTool, Answer
    <3> QED
      BY <1>5, <2>2, <3>2, <3>4 DEF AnnouncedScopes
  <2>3. CASE op \in Resources /\ op \notin Tools
    <3>1. PICK run : run = IF resources[op] = {} THEN "valid"
                           ELSE VerifyBearer(keys, how, t, "mcp", resources[op], time)
      OBVIOUS
    <3>2. Status(run) = IF ~(resources[op] \subseteq t.scopes) THEN 403 ELSE 200
      <4>1. CASE resources[op] # {}
        BY <2>1, <3>1, <4>1, BearerVerified
      <4>2. CASE resources[op] = {}
        BY <1>3, <3>1, <4>2
      <4> QED
        BY <4>1, <4>2
    <3>3. McpPost(op, keys, how, t, time) = ReadResource(resources[op], keys, how, t, time)
      BY <1>2, <2>1, <2>3 DEF McpPost
    <3>4. McpPost(op, keys, how, t, time).status = Status(run)
      BY <3>1, <3>3 DEF ReadResource, Answer
    <3> QED
      BY <1>5, <2>3, <3>2, <3>4 DEF AnnouncedScopes
  <2> QED
    BY <2>2, <2>3
<1> QED
  BY <1>4, <1>5

LEMMA ActionServed ==
    ASSUME NEW keys, NEW t, NEW time, Knows(keys, t, time), NEW how \in {"bearer", "none", "other"},
           NEW scopes
    PROVE  CallAction(scopes, keys, how, t, time).status =
              IF how # "bearer" \/ t.exp <= time \/ t.aud # "actions" THEN 401
              ELSE IF ~(scopes \subseteq t.scopes) THEN 403
              ELSE 200
<1>1. time \in Nat /\ t.exp \in Nat /\ {} \subseteq t.scopes
  BY DEF Knows
<1>2. AuthHandler(keys, how, t, time) <=> ~(how # "bearer" \/ t.exp <= time \/ t.aud # "actions")
  <2>1. PICK first : first = VerifyBearer(keys, how, t, "actions", {}, time)
    OBVIOUS
  <2>2. first = "valid" <=> ~(how # "bearer" \/ t.exp <= time \/ t.aud # "actions")
    BY <1>1, <2>1, BearerVerified
  <2> QED
    BY <2>1, <2>2 DEF AuthHandler
<1>3. PICK run : run = VerifyBearer(keys, how, t, "actions", scopes, time)
  OBVIOUS
<1>4. CASE ~AuthHandler(keys, how, t, time)
  BY <1>2, <1>4 DEF CallAction
<1>5. CASE AuthHandler(keys, how, t, time)
  <2>1. CallAction(scopes, keys, how, t, time).status = Status(run)
    BY <1>3, <1>5 DEF CallAction, VerifyActionBearer, Answer
  <2>2. Status(run) = IF ~(scopes \subseteq t.scopes) THEN 403 ELSE 200
    BY <1>1, <1>2, <1>3, <1>5, BearerVerified
  <2> QED
    BY <1>2, <1>5, <2>1, <2>2
<1> QED
  BY <1>4, <1>5

LEMMA UserInfoServed ==
    ASSUME NEW keys, NEW t, NEW time, Knows(keys, t, time), NEW how \in {"bearer", "none", "other"},
           t.aud \in Audiences
    PROVE  UserInfo(keys, how, t, time).status =
              IF how # "bearer" \/ t.exp <= time THEN 401
              ELSE IF ~({"openid"} \subseteq t.scopes) THEN 403
              ELSE 200
<1>1. time \in Nat /\ t.exp \in Nat
  BY DEF Knows
<1>2. PICK actions : actions = VerifyBearer(keys, how, t, "actions", {"openid"}, time)
  OBVIOUS
<1>3. PICK mcp : mcp = VerifyBearer(keys, how, t, "mcp", {"openid"}, time)
  OBVIOUS
<1>4. PICK reasons : reasons = {VerifyBearer(keys, how, t, a, {"openid"}, time) : a \in Audiences}
  OBVIOUS
<1>5. reasons = {actions, mcp}
  BY <1>2, <1>3, <1>4 DEF Audiences
<1>6. PICK reason : reason = VerifyBearerAnyAudience(keys, how, t, Audiences, {"openid"}, time)
  OBVIOUS
<1>7. reason = IF actions = "valid" \/ mcp = "valid" THEN "valid"
               ELSE IF actions = "insufficient_scope" \/ mcp = "insufficient_scope" THEN "insufficient_scope"
               ELSE actions
  <2>1. reason = IF "valid" \in reasons THEN "valid"
                 ELSE IF "insufficient_scope" \in reasons THEN "insufficient_scope"
                 ELSE actions
    BY <1>2, <1>4, <1>6 DEF VerifyBearerAnyAudience
  <2> QED
    BY <1>5, <2>1
<1>8. UserInfo(keys, how, t, time).status = Status(reason)
  BY <1>6 DEF UserInfo, Answer
<1>9. Status("valid") = 200 /\ Status("insufficient_scope") = 403
  BY DEF Status
<1>10. CASE how # "bearer" \/ t.exp <= time
  <2>1. /\ Status(actions) = 401 /\ actions # "valid" /\ actions # "insufficient_scope"
        /\ mcp # "valid" /\ mcp # "insufficient_scope"
    BY <1>2, <1>3, <1>10, BearerVerified
  <2> QED
    BY <1>7, <1>8, <1>10, <2>1
<1>11. CASE ~(how # "bearer" \/ t.exp <= time)
  <2>1. how = "bearer" /\ time < t.exp
    BY <1>1, <1>11
  <2>2. CASE t.aud = "actions"
    <3>1. /\ actions = IF {"openid"} \subseteq t.scopes THEN "valid" ELSE "insufficient_scope"
          /\ mcp = "audience_mismatch"
      BY <1>2, <1>3, <2>1, <2>2, BearerVerified
    <3> QED
      BY <1>7, <1>8, <1>9, <1>11, <3>1
  <2>3. CASE t.aud = "mcp"
    <3>1. /\ mcp = IF {"openid"} \subseteq t.scopes THEN "valid" ELSE "insufficient_scope"
          /\ actions = "audience_mismatch"
      BY <1>2, <1>3, <2>1, <2>3, BearerVerified
    <3> QED
      BY <1>7, <1>8, <1>9, <1>11, <3>1
  <2> QED
    BY <2>2, <2>3 DEF Audiences
<1> QED
  BY <1>10, <1>11

(* A known token is answered with the status that the operation owes it. *)
LEMMA ServedAsPromised ==
    ASSUME NEW keys, NEW t, Knows(keys, t, now), t.aud \in Audiences,
           NEW op \in Operations, NEW how \in Presentations
    PROVE  Serve(op, keys, how, t, now).status = Promised(op, how, t)
<1>1. CASE how \in {"duplicate", "query"}
  BY <1>1 DEF Serve, RequestAccepted, Malformed, Promised
<1>2. CASE how \notin {"duplicate", "query"}
  <2>1. how \in {"bearer", "none", "other"} /\ RequestAccepted(how)
    BY <1>2 DEF Presentations, RequestAccepted
  <2>2. CASE op \in Tools \cup Resources
    <3>1. Serve(op, keys, how, t, now) = McpPost(op, keys, how, t, now) /\ MeantFor(op) = {"mcp"}
      BY <2>1, <2>2 DEF Serve, MeantFor
    <3> QED
      BY <1>2, <2>1, <2>2, <3>1, McpServed DEF Promised
  <2>3. CASE op \in ActionNames
    <3>1. op \notin Tools /\ op \notin Resources
      BY <2>3, Announced
    <3>2. /\ Serve(op, keys, how, t, now) = CallAction(actionOperationDefinitions[op], keys, how, t, now)
          /\ MeantFor(op) = {"actions"} /\ AnnouncedScopes(op) = actionOperationDefinitions[op]
      BY <2>1, <2>3, <3>1 DEF Serve, MeantFor, AnnouncedScopes
    <3> QED
      BY <1>2, <2>1, <3>2, ActionServed DEF Promised
  <2>4. CASE op = "userinfo"
    <3>1. op \notin Tools /\ op \notin Resources /\ op \notin ActionNames
      BY <2>4, Announced
    <3>2. /\ Serve(op, keys, how, t, now) = UserInfo(keys, how, t, now)
          /\ MeantFor(op) = Audiences /\ AnnouncedScopes(op) = {"openid"}
      BY <2>1, <2>4, <3>1 DEF Serve, MeantFor, AnnouncedScopes
    <3> QED
      BY <1>2, <2>1, <3>2, UserInfoServed DEF Promised
  <2> QED
    BY <2>2, <2>3, <2>4 DEF Operations
<1> QED
  BY <1>1, <1>2

(* A refusal of a tool or a resource names the scopes that it announces. *)
LEMMA ChallengeNamesScopes ==
    ASSUME NEW keys, NEW t, NEW time, NEW how, NEW op \in Tools \cup Resources,
           NEW answer, answer = McpPost(op, keys, how, t, time), answer.status # 200
    PROVE  AnnouncedScopes(op) \subseteq answer.challenge /\ answer.challenge \subseteq AllowedScopes
<1>1. AnnouncedScopes(op) \subseteq AllowedScopes
  BY Announced DEF AnnouncedScopes
<1>2. mcpProtectedResourceScopes = AllowedScopes
  BY DEF mcpProtectedResourceScopes, authSessionScopes, identityProfileScopes, AllowedScopes
<1>3. Status("valid") = 200
  BY DEF Status
<1>4. PICK first : first = Transport(keys, how, t, time)
  OBVIOUS
<1>5. CASE first # "valid"
  <2>1. first # "insufficient_scope"
    <3>1. ReadBearer(how) # "insufficient_scope"
      BY DEF ReadBearer
    <3>2. VerifyAccessToken(keys, t, "mcp", {}, time) # "insufficient_scope"
      BY DEF VerifyAccessToken
    <3> QED
      BY <1>4, <3>1, <3>2 DEF Transport, VerifyBearer
  <2>2. Status(first) = 401
    BY <1>5, <2>1 DEF Status
  <2>3. answer = WriteMcpTransportError(first)
    BY <1>4, <1>5 DEF McpPost
  <2>4. answer.challenge = mcpProtectedResourceScopes
    BY <2>2, <2>3 DEF WriteMcpTransportError, Answer
  <2> QED
    BY <1>1, <1>2, <2>4
<1>6. CASE first = "valid" /\ op \in Tools
  <2>1. PICK run : run = IF tools[op].protected THEN VerifyBearer(keys, how, t, "mcp", tools[op].checks, time)
                         ELSE "valid"
    OBVIOUS
  <2>2. answer = CallTool(tools[op], keys, how, t, time)
    BY <1>4, <1>6 DEF McpPost
  <2>3. /\ answer.status = Status(run)
        /\ answer.challenge = IF run = "valid" THEN {} ELSE tools[op].requiredScopes
    BY <2>1, <2>2 DEF CallTool, Answer
  <2>4. run # "valid"
    BY <1>3, <2>3
  <2> QED
    BY <1>1, <1>6, <2>3, <2>4 DEF AnnouncedScopes
<1>7. CASE first = "valid" /\ op \notin Tools
  <2>1. PICK run : run = IF resources[op] = {} THEN "valid"
                         ELSE VerifyBearer(keys, how, t, "mcp", resources[op], time)
    OBVIOUS
  <2>2. answer = ReadResource(resources[op], keys, how, t, time)
    BY <1>4, <1>7 DEF McpPost
  <2>3. /\ answer.status = Status(run)
        /\ answer.challenge = IF run = "valid" THEN {} ELSE resources[op]
    BY <2>1, <2>2 DEF ReadResource, Answer
  <2>4. run # "valid"
    BY <1>3, <2>3
  <2> QED
    BY <1>1, <1>7, <2>3, <2>4 DEF AnnouncedScopes
<1> QED
  BY <1>5, <1>6, <1>7

(* The token that the service would issue now is known to it. *)
LEMMA ChallengeIsEnough ==
    ASSUME now \in Nat
    PROVE  ChallengeSuffices
<1> SUFFICES ASSUME CanAnswer, NEW t \in tokens, NEW op \in Tools \cup Resources,
                    NEW how \in {"bearer", "none", "other"},
                    NEW answer, answer = Serve(op, VerificationKeys, how, t, now),
                    NEW retry,
                    retry = Token(PrivateKeyPem, container.kid, "mcp", answer.challenge, now, now + Ttl),
                    answer.status # 200
             PROVE  /\ answer.challenge \subseteq AllowedScopes
                    /\ Serve(op, VerificationKeys, "bearer", retry, now).status = 200
  BY DEF ChallengeSuffices
<1>1. answer = McpPost(op, VerificationKeys, how, t, now)
  BY DEF Serve, RequestAccepted
<1>2. AnnouncedScopes(op) \subseteq answer.challenge /\ answer.challenge \subseteq AllowedScopes
  BY <1>1, ChallengeNamesScopes
<1>3. /\ retry.key = PrivateKeyPem /\ retry.kid = container.kid /\ retry.aud = "mcp"
      /\ retry.scopes = answer.challenge /\ retry.iat = now /\ retry.exp = now + Ttl
  BY DEF Token
<1>4. Ttl \in Nat /\ Ttl > 0
  BY BoundsAssumption
<1>5. Knows(VerificationKeys, retry, now)
  <2>1. PICK active : active = [kid |-> container.kid, key |-> PrivateKeyPem]
    OBVIOUS
  <2>2. active.kid = container.kid /\ active.key = PrivateKeyPem
    BY <2>1
  <2>3. VerificationKeys = {active} \cup container.previous.keys
    BY <2>1 DEF VerificationKeys
  <2>4. \A k \in container.previous.keys : k.kid # container.kid
    BY DEF CanAnswer, KeySetReadable
  <2>5. \A k \in VerificationKeys : k.kid = retry.kid => k.key = retry.key
    BY <1>3, <2>2, <2>3, <2>4
  <2>6. \E k \in VerificationKeys : k.kid = retry.kid
    BY <1>3, <2>2, <2>3
  <2> QED
    BY <1>3, <1>4, <2>5, <2>6 DEF Knows
<1>6. now < retry.exp /\ ~(retry.exp <= now)
  BY <1>3, <1>4
<1>7. McpPost(op, VerificationKeys, "bearer", retry, now).status = 200
  BY <1>2, <1>3, <1>5, <1>6, McpServed
<1>8. Serve(op, VerificationKeys, "bearer", retry, now) = McpPost(op, VerificationKeys, "bearer", retry, now)
  BY DEF Serve, RequestAccepted
<1> QED
  BY <1>2, <1>7, <1>8

-----------------------------------------------------------------------------
(* Records of parameters *)
-----------------------------------------------------------------------------
(* Records of parameters *)

LEMMA Derived == \A k \in Keys : DerivedKid(k) \in Kids /\ DerivedKid(k) # Absent
  BY AbsentAssumption DEF Kids

LEMMA DerivedInjective ==
    ASSUME NEW k, NEW l, DerivedKid(k) = DerivedKid(l)
    PROVE  k = l
  BY DEF DerivedKid

(* A chosen key ID is none of the derived ones, and each is chosen once.    *)
LEMMA ChosenApart ==
    ASSUME NEW n, NEW m, NEW k
    PROVE  ChosenKid(n) # DerivedKid(k) /\ (ChosenKid(n) = ChosenKid(m) => n = m)
  BY DEF ChosenKid, DerivedKid

Hashes == {Sha256(s) : s \in Secrets}

LEMMA ParameterType ==
    ParameterSets =
        [pem : Keys \cup {Absent}, kid : Kids \cup {Absent},
         previous : [keys : SUBSET [kid : Kids, key : Keys], escapes : 0 .. 1],
         actions : Secrets \cup {Absent}, mcp : Secrets \cup {Absent},
         clients : [registration : Registrations, actions : Hashes, mcp : Hashes] \cup {Absent},
         upstream : BOOLEAN]
  BY DEF ParameterSets, Hashes

(* What a record of parameters holds. *)
LEMMA ParameterFields ==
    ASSUME NEW p \in ParameterSets
    PROVE  /\ p.pem \in Keys \cup {Absent} /\ p.kid \in Kids \cup {Absent}
           /\ p.previous.keys \subseteq [kid : Kids, key : Keys] /\ p.previous.escapes \in 0 .. 1
           /\ p.actions \in Secrets \cup {Absent} /\ p.mcp \in Secrets \cup {Absent}
           /\ p.upstream \in BOOLEAN
  BY ParameterType

(* What a put-parameter of each name changes. *)
LEMMA PutPem ==
    ASSUME NEW p \in ParameterSets, NEW v \in Keys, NEW q, q = [p EXCEPT !.pem = v]
    PROVE  /\ q \in ParameterSets /\ q.pem = v
           /\ q.kid = p.kid /\ q.previous = p.previous /\ q.actions = p.actions /\ q.mcp = p.mcp
           /\ q.clients = p.clients
  BY ParameterType

LEMMA PutKid ==
    ASSUME NEW p \in ParameterSets, NEW v \in Kids, NEW q, q = [p EXCEPT !.kid = v]
    PROVE  /\ q \in ParameterSets /\ q.kid = v
           /\ q.pem = p.pem /\ q.previous = p.previous /\ q.actions = p.actions /\ q.mcp = p.mcp
           /\ q.clients = p.clients
  BY ParameterType

LEMMA PutActions ==
    ASSUME NEW p \in ParameterSets, NEW v \in Secrets, NEW q, q = [p EXCEPT !.actions = v]
    PROVE  /\ q \in ParameterSets /\ q.actions = v
           /\ q.pem = p.pem /\ q.kid = p.kid /\ q.previous = p.previous /\ q.mcp = p.mcp
           /\ q.clients = p.clients
  BY ParameterType

LEMMA PutMcp ==
    ASSUME NEW p \in ParameterSets, NEW v \in Secrets, NEW q, q = [p EXCEPT !.mcp = v]
    PROVE  /\ q \in ParameterSets /\ q.mcp = v
           /\ q.pem = p.pem /\ q.kid = p.kid /\ q.previous = p.previous /\ q.actions = p.actions
           /\ q.clients = p.clients
  BY ParameterType

LEMMA PutClients ==
    ASSUME NEW p \in ParameterSets, NEW r \in Registrations, NEW a \in Secrets, NEW m \in Secrets,
           NEW q, q = [p EXCEPT !.clients = ClientsJson(r, a, m)]
    PROVE  /\ q \in ParameterSets /\ q.clients = ClientsJson(r, a, m)
           /\ q.pem = p.pem /\ q.kid = p.kid /\ q.previous = p.previous /\ q.actions = p.actions
           /\ q.mcp = p.mcp
<1>1. PICK v \in [registration : Registrations, actions : Hashes, mcp : Hashes] : v = ClientsJson(r, a, m)
  BY DEF ClientsJson, Hashes
<1> QED
  BY <1>1, ParameterType

LEMMA PutUpstream ==
    ASSUME NEW p \in ParameterSets, NEW q, q = [p EXCEPT !.upstream = TRUE]
    PROVE  /\ q \in ParameterSets
           /\ q.pem = p.pem /\ q.kid = p.kid /\ q.previous = p.previous /\ q.actions = p.actions
           /\ q.mcp = p.mcp /\ q.clients = p.clients
  BY ParameterType

LEMMA Nothing == NoParameters \in ParameterSets
<1>1. PICK v : v = PreviousJson({})
  OBVIOUS
<1>2. v \in [keys : SUBSET [kid : Kids, key : Keys], escapes : 0 .. 1]
  BY <1>1 DEF PreviousJson
<1> QED
  BY <1>1, <1>2, ParameterType DEF NoParameters

LEMMA NothingFields ==
    /\ NoParameters.pem = Absent /\ NoParameters.kid = Absent /\ NoParameters.clients = Absent
    /\ NoParameters.actions = Absent /\ NoParameters.mcp = Absent
    /\ NoParameters.previous.keys = {} /\ NoParameters.previous.escapes = 0
  BY DEF NoParameters, PreviousJson

(* What run.sh makes of the parameters. *)
LEMMA EnvFileFields ==
    ASSUME NEW p \in ParameterSets, p.previous.escapes = 0, NEW q, q = EnvFile(p)
    PROVE  /\ q \in ParameterSets
           /\ q.pem = Absent /\ q.kid = p.kid /\ q.previous.keys = p.previous.keys
           /\ q.clients = p.clients
<1>1. p.previous \in [keys : SUBSET [kid : Kids, key : Keys], escapes : 0 .. 1]
  BY ParameterType
<1>2. PICK v : v = Tsv(p.previous)
  OBVIOUS
<1>3. v \in [keys : SUBSET [kid : Kids, key : Keys], escapes : 0 .. 1] /\ v.keys = p.previous.keys
  BY <1>1, <1>2 DEF Tsv
<1>4. q = [p EXCEPT !.pem = Absent, !.previous = v]
  BY <1>2 DEF EnvFile
<1> QED
  BY <1>3, <1>4, ParameterType

LEMMA ServedFields ==
    ASSUME NEW p \in ParameterSets, NEW q, q = Served(p)
    PROVE  /\ q \in ParameterSets
           /\ q.pem = p.pem /\ q.kid = p.kid /\ q.previous = p.previous /\ q.clients = p.clients
  BY ParameterType DEF Served

-----------------------------------------------------------------------------
(* The seed command *)

LEMMA SeedSteps ==
    /\ Len(SeedReads) = 3 /\ SeedLength = 9
    /\ SeedReads[1] = "actions" /\ SeedReads[2] = "mcp" /\ SeedReads[3] = "pem"
    /\ SeedWrites[1] = "upstream" /\ SeedWrites[2] = "pem" /\ SeedWrites[3] = "kid"
    /\ SeedWrites[4] = "actions" /\ SeedWrites[5] = "mcp" /\ SeedWrites[6] = "clients"
  BY DEF SeedReads, SeedWrites, SeedLength

SeedType ==
    [step : 0 .. 9, actions : Secrets \cup {Absent}, mcp : Secrets \cup {Absent}, pem : Keys \cup {Absent}]

LEMMA SeedTyped == TypeOK => seed \in SeedType
  BY SeedSteps DEF TypeOK, SeedType

RotationType ==
    [step : {"idle", "previous", "key"}, key : Keys \cup {Absent}, kid : Kids \cup {Absent}]

HostType ==
    [step : {"idle", "read", "truncated", "keyed", "pulled", "removed"}, file : ParameterSets]

TokenType ==
    [key : Keys, kid : Kids, aud : Audiences, scopes : SUBSET AllowedScopes,
     iat : 0 .. MaxTime, exp : 0 .. MaxTime + Ttl]

LEMMA Types ==
    ASSUME IInv
    PROVE  /\ param \in ParameterSets /\ host \in HostType /\ host.file \in ParameterSets
           /\ keyFile \in Keys \cup {Absent} /\ container \in ParameterSets \cup {Absent}
           /\ up \in BOOLEAN /\ tokens \subseteq TokenType /\ now \in 0 .. MaxTime
           /\ seed \in SeedType /\ rotation \in RotationType /\ rotations \in 0 .. MaxRotations
           /\ stray \subseteq tokens /\ made \in Keys \cup {Absent}
           /\ replaced \subseteq Kids /\ overlap \in BOOLEAN
  BY SeedTyped DEF IInv, TypeOK, HostType, TokenType, RotationType

(* A secret that was there is as it was, and so is its hash.                *)
Kept ==
    /\ param.actions # Absent => param'.actions = param.actions
    /\ param.mcp # Absent => param'.mcp = param.mcp
    /\ param.clients # Absent => /\ param'.clients.actions = param.clients.actions
                                /\ param'.clients.mcp = param.clients.mcp

(* A step that changes the parameters, the seed command or the rotation. *)
LEMMA ParameterStep ==
    ASSUME IInv, UNCHANGED <<mode, host, keyFile, container, up, tokens, now, made, stray>>,
           param' \in ParameterSets, seed' \in SeedType, rotation' \in RotationType,
           rotations' \in 0 .. MaxRotations, replaced' \subseteq Kids, overlap' \in BOOLEAN,
           SeedOK', ParamOK', Kept, Accepts(param.clients)'
    PROVE  IInv'
<1>1. TypeOK'
  BY SeedSteps DEF IInv, TypeOK, SeedType, RotationType
<1>2. ASSUME NEW registry, Accepts(registry) PROVE Accepts(registry)'
  BY <1>2 DEF Accepts, Kept
<1>3. Accepts(host.file.clients)' /\ (container # Absent => Accepts(container.clients)')
  BY <1>2 DEF IInv, CopiesOK
<1>4. CopiesOK'
  BY <1>3 DEF IInv, CopiesOK
<1> QED
  BY <1>1, <1>4 DEF IInv

(* A step that changes none of them. *)
LEMMA HostStep ==
    ASSUME IInv, UNCHANGED <<mode, param, seed, rotation, rotations, replaced, overlap>>,
           host' \in HostType,
           keyFile' \in Keys \cup {Absent}, container' \in ParameterSets \cup {Absent}, up' \in BOOLEAN,
           tokens' \subseteq TokenType, stray' \subseteq tokens', made' \in Keys \cup {Absent},
           now' \in 0 .. MaxTime, host'.file.previous.escapes = 0, CopiesOK'
    PROVE  IInv'
<1>1. TypeOK'
  BY DEF IInv, TypeOK, CopiesOK, HostType, TokenType
<1>2. SeedOK' /\ ParamOK'
  BY DEF IInv, SeedOK, ParamOK
<1> QED
  BY <1>1, <1>2 DEF IInv

LEMMA IdleSeed ==
    /\ SeedIdle \in SeedType /\ SeedIdle.step = 0
    /\ [SeedIdle EXCEPT !.step = 1] \in SeedType /\ [SeedIdle EXCEPT !.step = 1].step = 1
  BY DEF SeedIdle, SeedType

(* A step of the seed command that writes nothing. *)
LEMMA SeedOnlyStep ==
    ASSUME IInv, seed' \in SeedType, overlap' \in BOOLEAN, SeedOK',
           UNCHANGED <<mode, param, host, keyFile, container, up, tokens, rotation, rotations, now,
                       made, stray, replaced>>
    PROVE  IInv'
<1>1. ParamOK' /\ Kept /\ Accepts(param.clients)'
  BY DEF IInv, ParamOK, CopiesOK, Kept, Accepts
<1> QED
  BY <1>1, ParameterStep, Types

LEMMA SeedStartStep ==
    ASSUME IInv, SeedStart
    PROVE  IInv'
<1>1. seed' \in SeedType /\ seed'.step = 1
  BY IdleSeed DEF SeedStart
<1>2. SeedOK'
  BY <1>1 DEF SeedOK
<1>3. overlap' \in BOOLEAN
  BY Types DEF SeedStart
<1> QED
  BY <1>1, <1>2, <1>3, SeedOnlyStep DEF SeedStart

LEMMA SeedFailStep ==
    ASSUME IInv, SeedFail
    PROVE  IInv' /\ seed'.step = 0
<1>1. seed' \in SeedType /\ seed'.step = 0
  BY IdleSeed DEF SeedFail
<1>2. SeedOK'
  BY <1>1 DEF SeedOK
<1>3. overlap' \in BOOLEAN
  BY Types DEF SeedFail, history
<1> QED
  BY <1>1, <1>2, <1>3, SeedOnlyStep DEF SeedFail, history

(* existingSecure: a value is made up only where the parameter is missing. *)
LEMMA SeedReadStep ==
    ASSUME IInv, SeedRead
    PROVE  /\ IInv' /\ seed.step > 0
           /\ seed'.step >= 4 => param.pem \in {Absent, seed'.pem}
<1>1. /\ param' = param
      /\ UNCHANGED <<mode, host, keyFile, container, up, tokens, rotation, rotations, now, made, stray,
                     replaced, overlap>>
  BY DEF SeedRead, history
<1>2. seed \in SeedType /\ seed.step \in 1 .. 3
  BY SeedTyped, SeedSteps DEF IInv, SeedRead
<1>3. PICK name : name = SeedReads[seed.step]
  OBVIOUS
<1>4. PICK value \in (IF param[name] # Absent THEN {param[name]}
                      ELSE IF name = "pem" THEN FreshKeys ELSE FreshSecrets) :
         seed' = [seed EXCEPT ![name] = value, !.step = @ + 1]
  BY <1>3 DEF SeedRead
<1>5. FreshKeys \subseteq Keys /\ FreshSecrets \subseteq Secrets
  BY DEF FreshKeys, FreshSecrets
<1>6. /\ param.pem \in Keys \cup {Absent} /\ param.actions \in Secrets \cup {Absent}
      /\ param.mcp \in Secrets \cup {Absent}
  BY ParameterFields DEF IInv, TypeOK
<1>7. /\ seed' \in SeedType /\ SeedOK'
      /\ seed'.step >= 4 => param.pem \in {Absent, seed'.pem}
  <2>1. CASE seed.step = 1
    <3>1. name = "actions"
      BY <1>3, <2>1, SeedSteps
    <3>2. value \in Secrets /\ param.actions \in {Absent, value}
      BY <1>4, <1>5, <1>6, <3>1
    <3>3. seed' = [seed EXCEPT !["actions"] = value, !["step"] = 2]
      <4>1. seed.step + 1 = 2
        BY <2>1
      <4> QED
        BY <1>4, <3>1, <4>1, Zenon
    <3>4. seed' \in SeedType /\ seed'.step = 2 /\ seed'.actions = value
      BY <1>2, <3>2, <3>3 DEF SeedType
    <3> QED
      BY <1>1, <3>2, <3>4 DEF SeedOK
  <2>2. CASE seed.step = 2
    <3>1. name = "mcp"
      BY <1>3, <2>2, SeedSteps
    <3>2. value \in Secrets /\ param.mcp \in {Absent, value}
      BY <1>4, <1>5, <1>6, <3>1
    <3>3. seed' = [seed EXCEPT !["mcp"] = value, !["step"] = 3]
      <4>1. seed.step + 1 = 3
        BY <2>2
      <4> QED
        BY <1>4, <3>1, <4>1, Zenon
    <3>4. seed' \in SeedType /\ seed'.step = 3 /\ seed'.mcp = value /\ seed'.actions = seed.actions
      BY <1>2, <3>2, <3>3 DEF SeedType
    <3>5. seed.actions \in Secrets /\ param.actions \in {Absent, seed.actions}
      BY <2>2 DEF IInv, SeedOK
    <3> QED
      BY <1>1, <3>2, <3>4, <3>5 DEF SeedOK
  <2>3. CASE seed.step = 3
    <3>1. name = "pem"
      BY <1>3, <2>3, SeedSteps
    <3>2. value \in Keys /\ param.pem \in {Absent, value}
      BY <1>4, <1>5, <1>6, <3>1
    <3>3. seed' = [seed EXCEPT !["pem"] = value, !["step"] = 4]
      <4>1. seed.step + 1 = 4
        BY <2>3
      <4> QED
        BY <1>4, <3>1, <4>1, Zenon
    <3>4. /\ seed' \in SeedType /\ seed'.step = 4 /\ seed'.pem = value
          /\ seed'.actions = seed.actions /\ seed'.mcp = seed.mcp
      BY <1>2, <3>2, <3>3 DEF SeedType
    <3>5. /\ seed.actions \in Secrets /\ param.actions \in {Absent, seed.actions}
          /\ seed.mcp \in Secrets /\ param.mcp \in {Absent, seed.mcp}
      BY <2>3 DEF IInv, SeedOK
    <3> QED
      BY <1>1, <3>2, <3>4, <3>5 DEF SeedOK
  <2> QED
    BY <1>2, <2>1, <2>2, <2>3
<1> QED
  BY <1>1, <1>2, <1>7, SeedOnlyStep, Types

(* The seed command goes on, or has come to its end. *)
LEMMA SeedGoesOn ==
    ASSUME IInv, SeedWrite
    PROVE  /\ seed' \in SeedType
           /\ \/ seed'.step = 0
              \/ /\ seed'.step = seed.step + 1 /\ seed.step # 9
                 /\ seed'.actions = seed.actions /\ seed'.mcp = seed.mcp /\ seed'.pem = seed.pem
<1>1. seed \in SeedType /\ seed.step \in 4 .. 9
  BY SeedTyped, SeedSteps DEF IInv, SeedWrite
<1>2. CASE seed.step = 9
  BY <1>2, IdleSeed, SeedSteps DEF SeedWrite
<1>3. CASE seed.step # 9
  <2>1. PICK n \in 0 .. 9 : n = seed.step + 1
    BY <1>1, <1>3
  <2>2. seed' = [seed EXCEPT !["step"] = n]
    <3>1. seed.step # SeedLength
      BY <1>3, SeedSteps
    <3> QED
      BY <2>1, <3>1, Zenon DEF SeedWrite
  <2> QED
    BY <1>1, <1>3, <2>1, <2>2 DEF SeedType
<1> QED
  BY <1>2, <1>3

(* What the seed command puts where, and what it leaves alone. *)
LEMMA SeedPuts ==
    ASSUME IInv, SeedWrite
    PROVE  /\ param' \in ParameterSets /\ param'.previous = param.previous
           /\ seed.step # 5 => param'.pem = param.pem
           /\ seed.step = 5 => param'.pem = seed.pem
           /\ seed.step # 6 => param'.kid = param.kid /\ replaced' = replaced
           /\ seed.step = 6 =>
                 /\ param'.kid = DerivedKid(seed.pem)
                 /\ replaced' = IF param.kid \notin {Absent, DerivedKid(seed.pem)}
                                THEN replaced \cup {param.kid} ELSE replaced
           /\ seed.step # 7 => param'.actions = param.actions
           /\ seed.step = 7 => param'.actions = seed.actions
           /\ seed.step # 8 => param'.mcp = param.mcp
           /\ seed.step = 8 => param'.mcp = seed.mcp
           /\ seed.step # 9 => param'.clients = param.clients
           /\ seed.step = 9 => \E r \in Registrations : param'.clients = ClientsJson(r, seed.actions, seed.mcp)
<1>1. seed.step \in 4 .. 9 /\ param \in ParameterSets
  BY SeedSteps DEF IInv, TypeOK, SeedWrite
<1>2. PICK name : name = SeedWrites[seed.step - Len(SeedReads)]
  OBVIOUS
<1>3. PICK registration \in Registrations :
         param' = IF name = "upstream" /\ mode.upstream = "cognito" THEN param
                  ELSE [param EXCEPT ![name] = SeedValue(name, registration)]
  BY <1>2 DEF SeedWrite
<1>4. replaced' = IF name = "kid" /\ param.kid \notin {Absent, DerivedKid(seed.pem)}
                  THEN replaced \cup {param.kid} ELSE replaced
  BY <1>2 DEF SeedWrite
<1>5. seed.actions \in Secrets /\ seed.mcp \in Secrets /\ seed.pem \in Keys
  BY <1>1 DEF IInv, SeedOK
<1>6. CASE seed.step = 4
  <2>1. name = "upstream"
    <3>1. seed.step - Len(SeedReads) = 1
      BY <1>6, SeedSteps
    <3> QED
      BY <1>2, <3>1, SeedSteps
  <2>2. SeedValue(name, registration) = TRUE
    BY <2>1 DEF SeedValue
  <2>3. \/ param' = param
        \/ param' = [param EXCEPT !.upstream = TRUE]
    BY <1>3, <2>1, <2>2, Zenon
  <2>4. /\ param' \in ParameterSets
        /\ param'.pem = param.pem /\ param'.kid = param.kid /\ param'.previous = param.previous
        /\ param'.actions = param.actions /\ param'.mcp = param.mcp /\ param'.clients = param.clients
    BY <1>1, <1>5, <2>3, PutUpstream
  <2>5. replaced' = replaced
    BY <1>4, <2>1
  <2> QED
    BY <1>6, <2>4, <2>5
<1>7. CASE seed.step = 5
  <2>1. name = "pem"
    <3>1. seed.step - Len(SeedReads) = 2
      BY <1>7, SeedSteps
    <3> QED
      BY <1>2, <3>1, SeedSteps
  <2>2. SeedValue(name, registration) = seed.pem
    BY <2>1 DEF SeedValue
  <2>3. param' = [param EXCEPT !.pem = seed.pem]
    <3>1. ~(name = "upstream" /\ mode.upstream = "cognito")
      BY <2>1
    <3> QED
      BY <1>3, <2>1, <2>2, <3>1, Zenon
  <2>4. /\ param' \in ParameterSets /\ param'.pem = seed.pem
        /\ param'.kid = param.kid /\ param'.previous = param.previous /\ param'.actions = param.actions
        /\ param'.mcp = param.mcp /\ param'.clients = param.clients
    BY <1>1, <1>5, <2>3, PutPem
  <2>5. replaced' = replaced
    BY <1>4, <2>1
  <2> QED
    BY <1>7, <2>4, <2>5
<1>8. CASE seed.step = 6
  <2>1. name = "kid"
    <3>1. seed.step - Len(SeedReads) = 3
      BY <1>8, SeedSteps
    <3> QED
      BY <1>2, <3>1, SeedSteps
  <2>2. SeedValue(name, registration) = DerivedKid(seed.pem)
    BY <2>1 DEF SeedValue
  <2>3. param' = [param EXCEPT !.kid = DerivedKid(seed.pem)]
    <3>1. ~(name = "upstream" /\ mode.upstream = "cognito")
      BY <2>1
    <3> QED
      BY <1>3, <2>1, <2>2, <3>1, Zenon
  <2>4. /\ param' \in ParameterSets /\ param'.kid = DerivedKid(seed.pem)
        /\ param'.pem = param.pem /\ param'.previous = param.previous /\ param'.actions = param.actions
        /\ param'.mcp = param.mcp /\ param'.clients = param.clients
    BY <1>1, <1>5, <2>3, PutKid, Derived
  <2> QED
    BY <1>4, <1>8, <2>1, <2>4
<1>9. CASE seed.step = 7
  <2>1. name = "actions"
    <3>1. seed.step - Len(SeedReads) = 4
      BY <1>9, SeedSteps
    <3> QED
      BY <1>2, <3>1, SeedSteps
  <2>2. SeedValue(name, registration) = seed.actions
    BY <2>1 DEF SeedValue
  <2>3. param' = [param EXCEPT !.actions = seed.actions]
    <3>1. ~(name = "upstream" /\ mode.upstream = "cognito")
      BY <2>1
    <3> QED
      BY <1>3, <2>1, <2>2, <3>1, Zenon
  <2>4. /\ param' \in ParameterSets /\ param'.actions = seed.actions
        /\ param'.pem = param.pem /\ param'.kid = param.kid /\ param'.previous = param.previous
        /\ param'.mcp = param.mcp /\ param'.clients = param.clients
    BY <1>1, <1>5, <2>3, PutActions
  <2>5. replaced' = replaced
    BY <1>4, <2>1
  <2> QED
    BY <1>9, <2>4, <2>5
<1>10. CASE seed.step = 8
  <2>1. name = "mcp"
    <3>1. seed.step - Len(SeedReads) = 5
      BY <1>10, SeedSteps
    <3> QED
      BY <1>2, <3>1, SeedSteps
  <2>2. SeedValue(name, registration) = seed.mcp
    BY <2>1 DEF SeedValue
  <2>3. param' = [param EXCEPT !.mcp = seed.mcp]
    <3>1. ~(name = "upstream" /\ mode.upstream = "cognito")
      BY <2>1
    <3> QED
      BY <1>3, <2>1, <2>2, <3>1, Zenon
  <2>4. /\ param' \in ParameterSets /\ param'.mcp = seed.mcp
        /\ param'.pem = param.pem /\ param'.kid = param.kid /\ param'.previous = param.previous
        /\ param'.actions = param.actions /\ param'.clients = param.clients
    BY <1>1, <1>5, <2>3, PutMcp
  <2>5. replaced' = replaced
    BY <1>4, <2>1
  <2> QED
    BY <1>10, <2>4, <2>5
<1>11. CASE seed.step = 9
  <2>1. name = "clients"
    <3>1. seed.step - Len(SeedReads) = 6
      BY <1>11, SeedSteps
    <3> QED
      BY <1>2, <3>1, SeedSteps
  <2>2. SeedValue(name, registration) = ClientsJson(registration, seed.actions, seed.mcp)
    BY <2>1 DEF SeedValue
  <2>3. param' = [param EXCEPT !.clients = ClientsJson(registration, seed.actions, seed.mcp)]
    <3>1. ~(name = "upstream" /\ mode.upstream = "cognito")
      BY <2>1
    <3> QED
      BY <1>3, <2>1, <2>2, <3>1, Zenon
  <2>4. /\ param' \in ParameterSets /\ param'.clients = ClientsJson(registration, seed.actions, seed.mcp)
        /\ param'.pem = param.pem /\ param'.kid = param.kid /\ param'.previous = param.previous
        /\ param'.actions = param.actions /\ param'.mcp = param.mcp
    BY <1>1, <1>5, <2>3, PutClients
  <2>5. replaced' = replaced
    BY <1>4, <2>1
  <2> QED
    BY <1>11, <2>4, <2>5
<1> QED
  BY <1>1, <1>6, <1>7, <1>8, <1>9, <1>10, <1>11

(* What the seed command writes is what it read, or what was missing. *)
LEMMA SeedWriteStep ==
    ASSUME IInv, SeedWrite
    PROVE  IInv' /\ Kept
<1>1. UNCHANGED <<mode, host, keyFile, container, up, tokens, rotation, rotations, now, made, stray, overlap>>
  BY DEF SeedWrite
<1>2. seed.step \in 4 .. 9
  BY SeedSteps DEF IInv, TypeOK, SeedWrite
<1>3. /\ seed.actions \in Secrets /\ param.actions \in {Absent, seed.actions}
      /\ seed.mcp \in Secrets /\ param.mcp \in {Absent, seed.mcp}
      /\ seed.pem \in Keys
      /\ seed.step >= 6 => param.pem # Absent
      /\ seed.step >= 8 => param.actions = seed.actions
      /\ seed.step >= 9 => param.mcp = seed.mcp
  BY <1>2 DEF IInv, SeedOK
<1>4. Absent \notin Keys /\ Absent \notin Secrets
  BY AbsentAssumption
<1>5. /\ param'.actions \in {Absent, seed.actions} /\ param'.mcp \in {Absent, seed.mcp}
      /\ seed.step >= 5 => param'.pem # Absent
      /\ seed.step >= 7 => param'.actions = seed.actions
      /\ seed.step >= 8 => param'.mcp = seed.mcp
  BY <1>2, <1>3, <1>4, SeedPuts
<1>6. ParamOK'
  <2>1. (param.pem # Absent => param'.pem # Absent) /\ (param'.kid # Absent => param'.pem # Absent)
    <3>1. param.kid # Absent => param.pem # Absent
      BY DEF IInv, ParamOK
    <3> QED
      BY <1>2, <1>3, <1>4, <3>1, SeedPuts
  <2>2. param'.previous.keys # {} => param'.kid # Absent
    <3>1. param.previous.keys # {} => param.kid # Absent
      BY DEF IInv, ParamOK
    <3>2. DerivedKid(seed.pem) # Absent
      BY <1>3, Derived
    <3> QED
      BY <3>1, <3>2, SeedPuts
  <2> QED
    BY <1>1, <2>1, <2>2, SeedPuts DEF IInv, ParamOK
<1>7. Accepts(param.clients)'
  <2>1. CASE seed.step = 9
    <3>1. /\ param'.actions = seed.actions /\ param'.actions # Absent
          /\ param'.mcp = seed.mcp /\ param'.mcp # Absent
      BY <1>3, <1>4, <1>5, <2>1
    <3>2. PICK r \in Registrations : param'.clients = ClientsJson(r, seed.actions, seed.mcp)
      BY <2>1, SeedPuts
    <3>3. param'.clients.actions = Sha256(seed.actions) /\ param'.clients.mcp = Sha256(seed.mcp)
      BY <3>2 DEF ClientsJson
    <3> QED
      BY <3>1, <3>3 DEF Accepts
  <2>2. CASE seed.step # 9
    <3>1. param'.clients = param.clients /\ Accepts(param.clients)
      BY <2>2, SeedPuts DEF IInv, CopiesOK
    <3>2. /\ param.actions # Absent => param'.actions = param.actions
          /\ param.mcp # Absent => param'.mcp = param.mcp
      BY <1>3, SeedPuts
    <3> QED
      BY <3>1, <3>2 DEF Accepts
  <2> QED
    BY <2>1, <2>2
<1>8. Kept
  <2>1. /\ param.actions # Absent => param'.actions = param.actions
        /\ param.mcp # Absent => param'.mcp = param.mcp
    BY <1>3, SeedPuts
  <2>2. param.clients # Absent => /\ param'.clients.actions = param.clients.actions
                                 /\ param'.clients.mcp = param.clients.mcp
    <3>1. CASE seed.step = 9
      <4>1. param'.clients.actions = Sha256(param'.actions) /\ param'.clients.mcp = Sha256(param'.mcp)
        <5>1. PICK r \in Registrations : param'.clients = ClientsJson(r, seed.actions, seed.mcp)
          BY <3>1, SeedPuts
        <5>2. param'.actions = seed.actions /\ param'.mcp = seed.mcp
          BY <1>5, <3>1
        <5> QED
          BY <5>1, <5>2 DEF ClientsJson
      <4>2. param.clients # Absent => /\ param.clients.actions = Sha256(param'.actions)
                                     /\ param.clients.mcp = Sha256(param'.mcp)
        BY <2>1 DEF IInv, CopiesOK, Accepts
      <4> QED
        BY <4>1, <4>2
    <3>2. CASE seed.step # 9
      BY <3>2, SeedPuts
    <3> QED
      BY <3>1, <3>2
  <2> QED
    BY <2>1, <2>2 DEF Kept
<1>9. SeedOK'
  BY <1>2, <1>3, <1>5, SeedGoesOn DEF SeedOK
<1>10. /\ param' \in ParameterSets /\ replaced' \subseteq Kids
      /\ rotation' \in RotationType /\ rotations' \in 0 .. MaxRotations /\ overlap' \in BOOLEAN
  <2>1. param.kid \in Kids \cup {Absent} /\ replaced \subseteq Kids
    BY Types, ParameterFields
  <2> QED
    BY <1>1, <2>1, SeedPuts, Types
<1> QED
  BY <1>1, <1>6, <1>7, <1>8, <1>9, <1>10, SeedGoesOn, ParameterStep

(* syncGeneratedRuntimeParameters writes a parameter of its own. *)
LEMMA SyncStep ==
    ASSUME IInv, SyncGeneratedParameters
    PROVE  /\ IInv' /\ Kept /\ param'.previous = param.previous
           /\ param'.pem = param.pem /\ param'.kid = param.kid
<1>1. /\ UNCHANGED <<mode, seed, host, keyFile, container, up, tokens, rotation, rotations, now,
                     made, stray, replaced, overlap>>
      /\ param' = [param EXCEPT !.upstream = TRUE]
  BY DEF SyncGeneratedParameters, history
<1>2. /\ param' \in ParameterSets
      /\ param'.pem = param.pem /\ param'.kid = param.kid /\ param'.previous = param.previous
      /\ param'.actions = param.actions /\ param'.mcp = param.mcp /\ param'.clients = param.clients
  BY <1>1, PutUpstream, Types
<1>3. SeedOK' /\ ParamOK' /\ Kept /\ Accepts(param.clients)'
  BY <1>1, <1>2 DEF IInv, SeedOK, ParamOK, CopiesOK, Kept, Accepts
<1> QED
  BY <1>1, <1>2, <1>3, ParameterStep, Types

-----------------------------------------------------------------------------
(* The operator *)

(* A step of the operator, which leaves the secrets alone. *)
LEMMA OperatorStep ==
    ASSUME IInv, param' \in ParameterSets, rotation' \in RotationType, rotations' \in 0 .. MaxRotations,
           overlap' \in BOOLEAN,
           param'.actions = param.actions, param'.mcp = param.mcp, param'.clients = param.clients,
           param.pem # Absent => param'.pem # Absent,
           ParamOK', UNCHANGED <<mode, seed, host, keyFile, container, up, tokens, now, made, stray, replaced>>
    PROVE  IInv' /\ Kept
<1>1. SeedOK' /\ Kept /\ Accepts(param.clients)'
  BY DEF IInv, SeedOK, CopiesOK, Kept, Accepts
<1> QED
  BY <1>1, ParameterStep, Types

(* A fresh key is in no parameter. *)
LEMMA Fresh ==
    ASSUME NEW key \in FreshKeys
    PROVE  /\ key \in Keys /\ key # param.pem /\ key # host.file.pem /\ key # made
           /\ \A k \in param.previous.keys : k.key # key
           /\ \A t \in tokens : t.key # key
  BY DEF FreshKeys

LEMMA RotatePreviousFacts ==
    ASSUME IInv, RotatePrevious
    PROVE  /\ UNCHANGED <<mode, seed, host, keyFile, container, up, tokens, now, made, stray, replaced>>
           /\ rotation.step = "idle" /\ rotations \in Nat /\ rotations' = rotations + 1
           /\ rotations' \in 0 .. MaxRotations /\ overlap' = (overlap \/ seed.step > 0)
           /\ param \in ParameterSets /\ param.pem \in Keys /\ param.kid \in Kids
           /\ param.pem # Absent /\ param.kid # Absent
           /\ \E key \in FreshKeys : \E kid \in {DerivedKid(key), ChosenKid(rotations)} :
                 /\ kid \in Kids
                 /\ rotation' = [step |-> "previous", key |-> key, kid |-> kid]
           /\ param' \in ParameterSets /\ param'.pem = param.pem /\ param'.kid = param.kid
           /\ param'.previous.escapes = 0
           /\ param'.previous.keys = param.previous.keys \cup {[kid |-> param.kid, key |-> param.pem]}
           /\ param'.actions = param.actions /\ param'.mcp = param.mcp /\ param'.clients = param.clients
<1>1. /\ UNCHANGED <<mode, seed, host, keyFile, container, up, tokens, now, made, stray, replaced>>
      /\ rotation.step = "idle" /\ rotations' = rotations + 1 /\ rotations < MaxRotations
      /\ overlap' = (overlap \/ seed.step > 0)
      /\ param.pem # Absent /\ param.kid # Absent
  BY DEF RotatePrevious
<1>2. rotations \in Nat /\ rotations' \in 0 .. MaxRotations /\ rotations \in 0 .. MaxRotations
  BY <1>1, BoundsAssumption, Types
<1>3. param \in ParameterSets /\ param.pem \in Keys /\ param.kid \in Kids
  BY <1>1, Types, ParameterFields
<1>4. PICK key \in FreshKeys : \E kid \in {DerivedKid(key), ChosenKid(rotations)} :
         rotation' = [step |-> "previous", key |-> key, kid |-> kid]
  BY DEF RotatePrevious
<1>5. PICK kid \in {DerivedKid(key), ChosenKid(rotations)} :
         kid \in Kids /\ rotation' = [step |-> "previous", key |-> key, kid |-> kid]
  BY <1>2, <1>4, Fresh DEF Kids
<1>6. PICK ks : ks = param.previous.keys \cup {[kid |-> param.kid, key |-> param.pem]}
  OBVIOUS
<1>7. ks \in SUBSET [kid : Kids, key : Keys]
  <2>1. param.previous.keys \subseteq [kid : Kids, key : Keys]
    BY <1>3, ParameterFields
  <2>2. [kid |-> param.kid, key |-> param.pem] \in [kid : Kids, key : Keys]
    BY <1>3
  <2> QED
    BY <1>6, <2>1, <2>2
<1>8. param' = [param EXCEPT !.previous = PreviousJson(ks)]
  <2>1. param' = [param EXCEPT !["previous"] =
                    PreviousJson(param.previous.keys \cup {[kid |-> param.kid, key |-> param.pem]})]
    BY Zenon DEF RotatePrevious
  <2> QED
    BY <1>6, <2>1
<1>9. /\ param' \in ParameterSets /\ param'.previous.keys = ks /\ param'.previous.escapes = 0
      /\ param'.pem = param.pem /\ param'.kid = param.kid
      /\ param'.actions = param.actions /\ param'.mcp = param.mcp /\ param'.clients = param.clients
  <2>1. PICK v : v = PreviousJson(ks)
    OBVIOUS
  <2>2. v \in [keys : SUBSET [kid : Kids, key : Keys], escapes : 0 .. 1] /\ v.keys = ks /\ v.escapes = 0
    BY <1>7, <2>1 DEF PreviousJson
  <2>3. param' = [param EXCEPT !.previous = v]
    BY <1>8, <2>1
  <2> QED
    BY <1>3, <2>2, <2>3, ParameterType
<1> QED
  BY <1>1, <1>2, <1>3, <1>4, <1>5, <1>6, <1>9

LEMMA RotatePreviousStep ==
    ASSUME IInv, RotatePrevious
    PROVE  IInv' /\ Kept
<1>1. rotation' \in RotationType
  BY RotatePreviousFacts, Fresh DEF RotationType
<1>2. ParamOK'
  BY RotatePreviousFacts, Fresh DEF IInv, ParamOK
<1>3. overlap' \in BOOLEAN
  BY RotatePreviousFacts, Types
<1> QED
  BY <1>1, <1>2, <1>3, RotatePreviousFacts, OperatorStep

LEMMA RotateKeyFacts ==
    ASSUME IInv, RotateKey
    PROVE  /\ UNCHANGED <<mode, seed, host, keyFile, container, up, tokens, rotations, now, made, stray,
                          replaced, overlap>>
           /\ rotation.step = "previous" /\ rotation'.step = "key"
           /\ rotation'.key = rotation.key /\ rotation'.kid = rotation.kid /\ rotation' \in RotationType
           /\ param' = [param EXCEPT !.pem = rotation.key]
<1>1. /\ UNCHANGED <<mode, seed, host, keyFile, container, up, tokens, rotations, now, made, stray,
                     replaced, overlap>>
      /\ rotation.step = "previous" /\ rotation' = [rotation EXCEPT !.step = "key"]
      /\ param' = [param EXCEPT !.pem = rotation.key]
  BY DEF RotateKey, history
<1>2. rotation \in RotationType
  BY Types
<1> QED
  BY <1>1, <1>2 DEF RotationType

LEMMA RotateKidFacts ==
    ASSUME IInv, RotateKid
    PROVE  /\ UNCHANGED <<mode, seed, host, keyFile, container, up, tokens, rotations, now, made, stray,
                          replaced, overlap>>
           /\ rotation.step = "key" /\ rotation'.step = "idle" /\ rotation' \in RotationType
           /\ param' = [param EXCEPT !.kid = rotation.kid]
  BY DEF RotateKid, history, RotationIdle, RotationType

(* What is written is the key and the key ID of the rotation under way. *)
LEMMA RotateKeyStep ==
    ASSUME IInv, RotateKey
    PROVE  IInv' /\ Kept
<1>1. /\ param' \in ParameterSets /\ param'.pem = rotation.key
      /\ param'.kid = param.kid /\ param'.previous = param.previous /\ param'.actions = param.actions
      /\ param'.mcp = param.mcp /\ param'.clients = param.clients
  <2>1. PICK v \in Keys : v = rotation.key
    BY RotateKeyFacts DEF IInv, ParamOK
  <2>2. param' = [param EXCEPT !["pem"] = v]
    BY <2>1, RotateKeyFacts, Zenon
  <2>3. param \in ParameterSets
    BY Types
  <2> QED
    BY <2>1, <2>2, <2>3, ParameterType
<1>2. param'.pem # Absent
  BY <1>1, RotateKeyFacts, AbsentAssumption DEF IInv, ParamOK
<1>3. ParamOK'
  BY <1>1, <1>2, RotateKeyFacts DEF IInv, ParamOK
<1> QED
  BY <1>1, <1>2, <1>3, RotateKeyFacts, OperatorStep, Types

LEMMA RotateKidStep ==
    ASSUME IInv, RotateKid
    PROVE  IInv' /\ Kept
<1>1. /\ param' \in ParameterSets /\ param'.kid = rotation.kid
      /\ param'.pem = param.pem /\ param'.previous = param.previous /\ param'.actions = param.actions
      /\ param'.mcp = param.mcp /\ param'.clients = param.clients
  <2>1. PICK v \in Kids : v = rotation.kid
    BY RotateKidFacts DEF IInv, ParamOK
  <2>2. param' = [param EXCEPT !["kid"] = v]
    BY <2>1, RotateKidFacts, Zenon
  <2>3. param \in ParameterSets
    BY Types
  <2> QED
    BY <2>1, <2>2, <2>3, ParameterType
<1>2. param'.pem # Absent
  BY <1>1, RotateKidFacts DEF IInv, ParamOK
<1>3. ParamOK'
  <2>1. param'.kid # Absent
    BY <1>1, AbsentAssumption, RotateKidFacts DEF IInv, ParamOK
  <2> QED
    BY <1>1, <1>2, <2>1, RotateKidFacts DEF IInv, ParamOK
<1> QED
  BY <1>1, <1>2, <1>3, RotateKidFacts, OperatorStep, Types

LEMMA RemoveFacts ==
    ASSUME IInv, NEW k \in param.previous.keys,
           param' = [param EXCEPT !.previous = PreviousJson(@.keys \ {k})]
    PROVE  /\ param' \in ParameterSets /\ param'.previous.escapes = 0
           /\ param'.previous.keys = param.previous.keys \ {k}
           /\ param'.pem = param.pem /\ param'.kid = param.kid
           /\ param'.actions = param.actions /\ param'.mcp = param.mcp /\ param'.clients = param.clients
<1>1. param \in ParameterSets
  BY Types
<1>2. PICK ks : ks = param.previous.keys \ {k}
  OBVIOUS
<1>3. ks \in SUBSET [kid : Kids, key : Keys]
  BY <1>1, <1>2, ParameterFields
<1>4. PICK v : v = PreviousJson(ks)
  OBVIOUS
<1>5. v \in [keys : SUBSET [kid : Kids, key : Keys], escapes : 0 .. 1] /\ v.keys = ks /\ v.escapes = 0
  BY <1>3, <1>4 DEF PreviousJson
<1>6. param' = [param EXCEPT !["previous"] = v]
  BY <1>2, <1>4, Zenon
<1> QED
  BY <1>1, <1>2, <1>5, <1>6, ParameterType

LEMMA RemovePreviousKeyStep ==
    ASSUME IInv, RemovePreviousKey
    PROVE  IInv' /\ Kept
<1>1. PICK k \in param.previous.keys : param' = [param EXCEPT !.previous = PreviousJson(@.keys \ {k})]
  BY DEF RemovePreviousKey
<1>2. UNCHANGED <<mode, seed, host, keyFile, container, up, tokens, rotation, rotations, now, made, stray,
                  replaced, overlap>>
  BY DEF RemovePreviousKey, history
<1>3. /\ param' \in ParameterSets /\ param'.previous.escapes = 0
      /\ param'.previous.keys = param.previous.keys \ {k}
      /\ param'.pem = param.pem /\ param'.kid = param.kid
      /\ param'.actions = param.actions /\ param'.mcp = param.mcp /\ param'.clients = param.clients
  BY <1>1, RemoveFacts
<1>4. ParamOK'
  BY <1>2, <1>3 DEF IInv, ParamOK
<1> QED
  BY <1>2, <1>3, <1>4, OperatorStep, Types

-----------------------------------------------------------------------------
(* run.sh and the service *)

LEMMA IdleHost ==
    /\ HostIdle \in HostType /\ HostIdle.step = "idle" /\ HostIdle.file = NoParameters
  BY Nothing DEF HostIdle, HostType

LEMMA HostMoves ==
    ASSUME NEW h \in HostType, NEW g,
           NEW step \in {"idle", "read", "truncated", "keyed", "pulled", "removed"},
           g = [h EXCEPT !.step = step]
    PROVE  g \in HostType /\ g.step = step /\ g.file = h.file
  BY DEF HostType

(* A copy of the parameters is no worse than what it is made of. *)
LEMMA CopyAccepted ==
    ASSUME IInv, NEW file \in {host.file, Served(param), NoParameters}
    PROVE  Accepts(file.clients) /\ file.previous.escapes = 0
<1>1. Served(param).clients = param.clients /\ Served(param).previous = param.previous
  BY ServedFields, Types
<1> QED
  BY <1>1, NothingFields DEF IInv, CopiesOK, ParamOK, Accepts

(* The steps of run.sh that leave the container alone. *)
LEMMA RunnerFileStep ==
    ASSUME IInv, UNCHANGED <<mode, param, seed, container, up, tokens, rotation, rotations, now,
                             made, stray, replaced, overlap>>,
           host' \in HostType, keyFile' \in Keys \cup {Absent},
           host'.step # "removed", mode.loading # "file" => host'.step = "idle",
           host'.file \in {host.file, Served(param), NoParameters}
    PROVE  IInv'
<1>1. Accepts(host'.file.clients) /\ host'.file.previous.escapes = 0
  BY CopyAccepted
<1>2. CopiesOK'
  BY <1>1 DEF IInv, CopiesOK, Accepts
<1> QED
  BY <1>1, <1>2, HostStep, Types

LEMMA FileLoading ==
    ASSUME IInv, host.step # "idle"
    PROVE  mode.loading = "file"
  BY DEF IInv, CopiesOK

LEMMA RunnerReadStep ==
    ASSUME IInv, RunnerRead
    PROVE  IInv' /\ host'.file = Served(param)
<1>1. Served(param) \in ParameterSets /\ keyFile \in Keys \cup {Absent}
  BY Types, ServedFields
<1>2. host' \in HostType /\ host'.step = "read" /\ host'.file = Served(param)
  BY <1>1 DEF RunnerRead, HostType
<1> QED
  BY <1>1, <1>2, RunnerFileStep DEF RunnerRead, history

LEMMA RunnerTruncateKeyStep ==
    ASSUME IInv, RunnerTruncateKey
    PROVE  IInv' /\ host'.file = host.file
<1>1. host' \in HostType /\ host'.step = "truncated" /\ host'.file = host.file
  BY Types, HostMoves DEF RunnerTruncateKey
<1>2. mode.loading = "file"
  BY FileLoading DEF RunnerTruncateKey
<1> QED
  BY <1>1, <1>2, RunnerFileStep DEF RunnerTruncateKey, history

LEMMA RunnerWriteKeyStep ==
    ASSUME IInv, RunnerWriteKey
    PROVE  IInv' /\ host'.file = host.file
<1>1. host' \in HostType /\ host'.step = "keyed" /\ host'.file = host.file
  BY Types, HostMoves DEF RunnerWriteKey
<1>2. mode.loading = "file"
  BY FileLoading DEF RunnerWriteKey
<1>3. keyFile' \in Keys \cup {Absent}
  BY Types, ParameterFields DEF RunnerWriteKey
<1> QED
  BY <1>1, <1>2, <1>3, RunnerFileStep DEF RunnerWriteKey, history

LEMMA RunnerPullStep ==
    ASSUME IInv, RunnerPull
    PROVE  /\ IInv'
           /\ \/ host'.file = host.file
              \/ host'.file = NoParameters /\ host'.step = "idle"
<1>1. mode.loading = "file" /\ keyFile' = keyFile /\ keyFile \in Keys \cup {Absent}
  BY FileLoading, Types DEF RunnerPull
<1>2. /\ host' \in HostType /\ host'.step # "removed"
      /\ \/ host'.file = host.file
         \/ host'.file = NoParameters /\ host'.step = "idle"
  <2>1. CASE host' = [host EXCEPT !.step = "pulled"]
    BY <2>1, Types, HostMoves
  <2>2. CASE host' = HostIdle
    BY <2>2, IdleHost
  <2> QED
    BY <2>1, <2>2 DEF RunnerPull
<1> QED
  BY <1>1, <1>2, RunnerFileStep DEF RunnerPull, history

LEMMA RebootStep ==
    ASSUME IInv, Reboot
    PROVE  IInv' /\ host'.file = NoParameters /\ host'.step = "idle"
<1>1. host' \in HostType /\ host'.step = "idle" /\ host'.file = NoParameters
  BY IdleHost DEF Reboot
<1>2. /\ UNCHANGED <<mode, param, seed, container, tokens, rotation, rotations, now, made, stray,
                     replaced, overlap>>
      /\ keyFile' = Absent /\ up' = FALSE
  BY DEF Reboot, history
<1>3. Accepts(NoParameters.clients) /\ host'.file.previous.escapes = 0
  BY <1>1, CopyAccepted
<1>4. CopiesOK'
  BY <1>1, <1>2, <1>3 DEF IInv, CopiesOK, Accepts
<1> QED
  BY <1>1, <1>2, <1>3, <1>4, HostStep, Types

LEMMA RunnerRemoveStep ==
    ASSUME IInv, RunnerRemove
    PROVE  IInv' /\ host'.file = host.file
<1>1. host' \in HostType /\ host'.step = "removed" /\ host'.file = host.file
  BY Types, HostMoves DEF RunnerRemove
<1>2. /\ UNCHANGED <<mode, param, seed, keyFile, tokens, rotation, rotations, now, stray, replaced, overlap>>
      /\ container' = Absent /\ made' = Absent /\ up' = FALSE
      /\ mode.loading = "file"
  BY FileLoading DEF RunnerRemove
<1>3. CopiesOK'
  BY <1>1, <1>2 DEF IInv, CopiesOK, Accepts
<1>4. host'.file.previous.escapes = 0
  BY <1>1, CopyAccepted
<1> QED
  BY <1>1, <1>2, <1>3, <1>4, HostStep, Types

(* docker run: the old container is gone, so no process serves requests. *)
LEMMA RunnerRunStep ==
    ASSUME IInv, RunnerRun
    PROVE  /\ IInv' /\ host'.file = NoParameters /\ host'.step = "idle" /\ host.step = "removed"
           /\ container' \in ParameterSets /\ container'.kid = host.file.kid
           /\ container'.previous.keys = host.file.previous.keys /\ made' = host.file.pem
<1>1. host' \in HostType /\ host'.step = "idle" /\ host'.file = NoParameters
  BY IdleHost DEF RunnerRun
<1>2. /\ UNCHANGED <<mode, param, seed, keyFile, up, tokens, rotation, rotations, now, stray, replaced,
                     overlap>>
      /\ container' = EnvFile(host.file) /\ host.step = "removed" /\ made' = host.file.pem
  BY DEF RunnerRun
<1>3. host.file \in ParameterSets /\ host.file.previous.escapes = 0 /\ Accepts(host.file.clients)
  BY Types, CopyAccepted
<1>4. /\ container' \in ParameterSets /\ container'.kid = host.file.kid
      /\ container'.previous.keys = host.file.previous.keys /\ container'.clients = host.file.clients
  BY <1>2, <1>3, EnvFileFields
<1>5. ~up
  BY <1>2 DEF IInv, CopiesOK
<1>6. Accepts(NoParameters.clients) /\ host'.file.previous.escapes = 0
  BY <1>1, CopyAccepted
<1>7. CopiesOK'
  BY <1>1, <1>2, <1>3, <1>4, <1>5, <1>6 DEF IInv, CopiesOK, Accepts
<1>8. made' \in Keys \cup {Absent}
  BY <1>2, <1>3, ParameterFields
<1>9. IInv'
  BY <1>1, <1>2, <1>4, <1>6, <1>7, <1>8, HostStep, Types
<1> QED
  BY <1>1, <1>2, <1>4, <1>9

LEMMA DeployDirectStep ==
    ASSUME IInv, DeployDirect
    PROVE  /\ IInv' /\ host.step = "idle" /\ host' = host
           /\ container' \in ParameterSets /\ container'.kid = param.kid
           /\ container'.previous.keys = param.previous.keys /\ made' = param.pem
<1>1. /\ UNCHANGED <<mode, param, seed, host, keyFile, tokens, rotation, rotations, now, stray, replaced,
                     overlap>>
      /\ container' = Served(param) /\ made' = param.pem /\ up' = FALSE /\ mode.loading = "direct"
  BY DEF DeployDirect
<1>2. host.step = "idle" /\ "direct" # "file"
  BY <1>1 DEF IInv, CopiesOK
<1>3. /\ container' \in ParameterSets /\ container'.kid = param.kid /\ container'.previous = param.previous
      /\ container'.clients = param.clients /\ made' \in Keys \cup {Absent}
  BY <1>1, ServedFields, ParameterFields, Types
<1>4. CopiesOK'
  BY <1>1, <1>2, <1>3 DEF IInv, CopiesOK, Accepts
<1>5. host'.file.previous.escapes = 0
  BY <1>1, CopyAccepted
<1>6. IInv'
  BY <1>1, <1>3, <1>4, <1>5, HostStep, Types
<1> QED
  BY <1>1, <1>2, <1>3, <1>6

LEMMA ServiceStep ==
    ASSUME IInv, UNCHANGED <<mode, param, seed, host, keyFile, container, rotation, rotations,
                             made, replaced, overlap>>,
           up' \in BOOLEAN, up' => up \/ (container # Absent /\ container.clients # Absent),
           tokens' \subseteq TokenType, stray' \subseteq tokens', now' \in 0 .. MaxTime
    PROVE  IInv'
<1>1. CopiesOK'
  BY DEF IInv, CopiesOK, Accepts
<1>2. host'.file.previous.escapes = 0
  BY CopyAccepted
<1> QED
  BY <1>1, <1>2, HostStep, Types

LEMMA StartProcessStep ==
    ASSUME IInv, StartProcess
    PROVE  IInv'
  BY ServiceStep, Types DEF StartProcess, StartupPasses, history

LEMMA CrashProcessStep ==
    ASSUME IInv, CrashProcess
    PROVE  IInv'
  BY ServiceStep, Types DEF CrashProcess, history

LEMMA TickStep ==
    ASSUME IInv, Tick
    PROVE  IInv'
<1>1. now' \in 0 .. MaxTime
  BY BoundsAssumption, Types DEF Tick
<1> QED
  BY <1>1, ServiceStep, Types DEF Tick, history

(* The token that is issued, with the key and the key ID of the process. *)
LEMMA IssueStep ==
    ASSUME IInv, IssueAccessToken
    PROVE  /\ IInv'
           /\ UNCHANGED <<mode, param, seed, host, keyFile, container, up, rotation, rotations, now,
                          made, replaced, overlap>>
           /\ container # Absent /\ KeySetReadable
           /\ \E t \in TokenType :
                 /\ tokens' = tokens \cup {t} /\ stray' = IF KeyFileAhead THEN stray \cup {t} ELSE stray
                 /\ t.key = PrivateKeyPem /\ t.kid = container.kid /\ t.iat = now
<1>1. /\ UNCHANGED <<mode, param, seed, host, keyFile, container, up, rotation, rotations, now,
                     made, replaced, overlap>>
      /\ up /\ KeySetReadable
  BY DEF IssueAccessToken
<1>2. container # Absent
  BY <1>1 DEF IInv, CopiesOK
<1>3. container \in ParameterSets
  BY <1>2, Types
<1>4. container.pem \in Keys \cup {Absent} /\ container.kid \in Kids /\ keyFile \in Keys \cup {Absent}
  BY <1>1, <1>3, ParameterFields, Types DEF KeySetReadable
<1>5. PrivateKeyPem \in Keys
  BY <1>1, <1>4 DEF PrivateKeyPem, KeySetReadable
<1>6. PICK aud \in Audiences, scopes \in {{"openid"}, AllowedScopes} :
         LET token == Token(PrivateKeyPem, container.kid, aud, scopes, now, now + Ttl)
         IN  tokens' = tokens \cup {token} /\ stray' = IF KeyFileAhead THEN stray \cup {token} ELSE stray
  BY DEF IssueAccessToken
<1>7. PICK e \in 0 .. MaxTime + Ttl : e = now + Ttl
  BY BoundsAssumption, Types
<1>8. now \in 0 .. MaxTime /\ scopes \in SUBSET AllowedScopes
  BY Types DEF AllowedScopes
<1>9. PICK t : t = [key |-> PrivateKeyPem, kid |-> container.kid, aud |-> aud, scopes |-> scopes,
                    iat |-> now, exp |-> e]
  OBVIOUS
<1>10. t \in TokenType /\ t.key = PrivateKeyPem /\ t.kid = container.kid /\ t.iat = now
  BY <1>4, <1>5, <1>7, <1>8, <1>9 DEF TokenType
<1>11. tokens' = tokens \cup {t} /\ stray' = IF KeyFileAhead THEN stray \cup {t} ELSE stray
  BY <1>6, <1>7, <1>9 DEF Token
<1>12. tokens' \subseteq TokenType /\ stray' \subseteq tokens' /\ now' \in 0 .. MaxTime /\ up' \in BOOLEAN
  BY <1>1, <1>8, <1>10, <1>11, Types
<1>13. IInv'
  BY <1>1, <1>12, ServiceStep
<1> QED
  BY <1>1, <1>2, <1>10, <1>11, <1>13

-----------------------------------------------------------------------------
(* Theorems about the secrets *)

LEMMA InitHolds == Init => IInv
<1> SUFFICES ASSUME Init PROVE IInv
  OBVIOUS
<1>1. seed.step = 0 /\ seed \in SeedType
  BY IdleSeed DEF Init
<1>2. host \in HostType /\ host.step = "idle" /\ host.file = NoParameters
  BY IdleHost DEF Init
<1>3. param = NoParameters /\ container = Absent /\ up = FALSE /\ tokens = {} /\ keyFile = Absent
  BY DEF Init
<1>4. param \in ParameterSets
  BY <1>3, Nothing
<1>5. rotations \in 0 .. MaxRotations /\ now \in 0 .. MaxTime
  BY BoundsAssumption DEF Init
<1>6. rotation \in RotationType /\ rotation.step = "idle"
  BY DEF Init, RotationIdle, RotationType
<1>7. TypeOK
  BY <1>1, <1>2, <1>3, <1>4, <1>5, <1>6, SeedSteps DEF Init, TypeOK, SeedType, HostType, RotationType
<1>8. SeedOK /\ ParamOK /\ CopiesOK
  BY <1>1, <1>2, <1>3, <1>6, NothingFields DEF SeedOK, ParamOK, CopiesOK, Accepts
<1> QED
  BY <1>7, <1>8 DEF IInv

LEMMA NextKeeps == IInv /\ [Next]_vars => IInv' /\ Kept
<1> SUFFICES ASSUME IInv, [Next]_vars PROVE IInv' /\ Kept
  OBVIOUS
<1>1. param' = param => Kept
  BY DEF Kept
<1>2. CASE SeedStart
  BY <1>1, <1>2, SeedStartStep DEF SeedStart
<1>3. CASE SeedRead
  BY <1>1, <1>3, SeedReadStep DEF SeedRead
<1>4. CASE SeedWrite
  BY <1>4, SeedWriteStep
<1>5. CASE SeedFail
  BY <1>1, <1>5, SeedFailStep DEF SeedFail
<1>6. CASE SyncGeneratedParameters
  BY <1>6, SyncStep
<1>7. CASE RunnerRead
  BY <1>1, <1>7, RunnerReadStep DEF RunnerRead
<1>8. CASE RunnerTruncateKey
  BY <1>1, <1>8, RunnerTruncateKeyStep DEF RunnerTruncateKey
<1>9. CASE RunnerWriteKey
  BY <1>1, <1>9, RunnerWriteKeyStep DEF RunnerWriteKey
<1>10. CASE RunnerPull
  BY <1>1, <1>10, RunnerPullStep DEF RunnerPull
<1>11. CASE RunnerRemove
  BY <1>1, <1>11, RunnerRemoveStep DEF RunnerRemove
<1>12. CASE RunnerRun
  BY <1>1, <1>12, RunnerRunStep DEF RunnerRun
<1>13. CASE Reboot
  BY <1>1, <1>13, RebootStep DEF Reboot
<1>14. CASE DeployDirect
  BY <1>1, <1>14, DeployDirectStep DEF DeployDirect
<1>15. CASE StartProcess
  BY <1>1, <1>15, StartProcessStep DEF StartProcess
<1>16. CASE CrashProcess
  BY <1>1, <1>16, CrashProcessStep DEF CrashProcess
<1>17. CASE IssueAccessToken
  BY <1>1, <1>17, IssueStep
<1>18. CASE RotatePrevious
  BY <1>18, RotatePreviousStep
<1>19. CASE RotateKey
  BY <1>19, RotateKeyStep
<1>20. CASE RotateKid
  BY <1>20, RotateKidStep
<1>21. CASE RemovePreviousKey
  BY <1>21, RemovePreviousKeyStep
<1>22. CASE Tick
  BY <1>1, <1>22, TickStep DEF Tick
<1>23. CASE UNCHANGED vars
  <2>1. UNCHANGED <<mode, param, seed, host, keyFile, container, up, tokens, rotation, rotations, now,
                    made, stray, replaced, overlap>>
    BY <1>23 DEF vars, history
  <2> QED
    BY <1>1, <2>1 DEF IInv, TypeOK, SeedOK, ParamOK, CopiesOK, Accepts
<1> QED
  BY <1>2, <1>3, <1>4, <1>5, <1>6, <1>7, <1>8, <1>9, <1>10, <1>11, <1>12, <1>13, <1>14, <1>15, <1>16,
     <1>17, <1>18, <1>19, <1>20, <1>21, <1>22, <1>23 DEF Next

(* The invariant of the secrets holds however the runs of                   *)
(* put-runtime-parameters.ts and run.sh, their failures, restarts and       *)
(* rotations interleave.                                                    *)
THEOREM Invariance == Spec => []IInv
<1>1. Init => IInv
  BY InitHolds
<1>2. IInv /\ [Next]_vars => IInv'
  BY NextKeeps
<1> QED
  BY <1>1, <1>2, PTL DEF Spec

(* Parameters, key file, environment and tokens have the shapes that        *)
(* put-runtime-parameters.ts, run.sh and access-token.ts give them; a       *)
(* process serves requests only while its container exists.                 *)
THEOREM TypeCorrect == Spec => []TypeOK
<1>1. IInv => TypeOK
  BY DEF IInv
<1> QED
  BY <1>1, Invariance, PTL

(* The secrets in Parameter Store are those that the stored registry and    *)
(* every running service accept, wherever put-runtime-parameters.ts was     *)
(* interrupted, whatever the options of its runs were, and however old the  *)
(* copy of run.sh is.                                                       *)
THEOREM SecretsAccepted == Spec => []SecretsMatchRegistry
<1>1. IInv => SecretsMatchRegistry
  BY DEF IInv, CopiesOK, Accepts, SecretsMatchRegistry
<1> QED
  BY <1>1, Invariance, PTL

(* Whatever the keys and the time: a client that a tool or a resource       *)
(* refuses, and that authorizes again for the scopes of the challenge, is   *)
(* served (mcp/tool-registry.ts, mcp/resource-registry.ts).                 *)
THEOREM ChallengesSuffice == Spec => []ChallengeSuffices
<1>1. IInv => ChallengeSuffices
  <2>1. IInv => now \in Nat
    BY DEF IInv, TypeOK
  <2> QED
    BY <2>1, ChallengeIsEnough
<1> QED
  BY <1>1, Invariance, PTL

-----------------------------------------------------------------------------
(* What the parameters and their copies say of keys *)

LEMMA SameNames ==
    ASSUME NEW p, NEW q, p.pem = q.pem, p.kid = q.kid, p.previous.keys = q.previous.keys
    PROVE  Pair(p) = Pair(q) /\ Names(p) = Names(q)
  BY DEF Pair, Names

LEMMA NothingNamed == Pair(NoParameters) = {} /\ Names(NoParameters) = {}
  BY NothingFields DEF Pair, Names

LEMMA PairNamed == \A p : Pair(p) \subseteq Names(p)
  BY DEF Names

(* A container says what it was made from. *)
LEMMA RunningNames ==
    ASSUME NEW c \in ParameterSets, NEW p, NEW m, m = p.pem, c.kid = p.kid,
           c.previous.keys = p.previous.keys,
           NEW r, r = IF c = Absent THEN NoParameters ELSE [c EXCEPT !.pem = m]
    PROVE  /\ Pair(r) \subseteq Pair(p) /\ Names(r) \subseteq Names(p)
           /\ c # Absent => Names(r) = Names(p)
<1>1. CASE c = Absent
  BY <1>1, NothingNamed
<1>2. CASE c # Absent
  <2>1. r.pem = p.pem /\ r.kid = p.kid /\ r.previous.keys = p.previous.keys
    BY <1>2, ParameterType
  <2> QED
    BY <2>1, SameNames
<1> QED
  BY <1>1, <1>2

LEMMA Fewer == \A m, n \in Nat : m <= n => 0 .. m - 1 \subseteq 0 .. n - 1
  OBVIOUS

(* Where nothing new is said, or only of derived key IDs, key IDs still     *)
(* stand for one key each.                                                  *)
LEMMA NamesStep ==
    ASSUME IInv, NamesOK, rotations' \in Nat, rotations <= rotations',
           \A b \in AllNames' : b \in AllNames \/ b.kid = DerivedKid(b.key)
    PROVE  NamesOK'
<1>1. rotations \in Nat
  BY BoundsAssumption, Types
<1>2. ASSUME NEW b \in AllNames' PROVE Proper(b)'
  <2>1. CASE b \in AllNames
    <3>1. Proper(b)
      BY <2>1 DEF NamesOK
    <3>2. 0 .. rotations - 1 \subseteq 0 .. rotations' - 1
      BY <1>1, Fewer
    <3> QED
      BY <3>1, <3>2 DEF Proper
  <2>2. CASE b.kid = DerivedKid(b.key)
    BY <2>2 DEF Proper
  <2> QED
    BY <2>1, <2>2
<1>3. ASSUME NEW a, NEW b, Proper(a), b.kid = DerivedKid(b.key), a.kid = b.kid
      PROVE  a.key = b.key
  BY <1>3, ChosenApart, DerivedInjective DEF Proper
<1>4. ASSUME NEW a \in AllNames', NEW b \in AllNames', a.kid = b.kid PROVE a.key = b.key
  <2>1. CASE a \in AllNames /\ b \in AllNames
    BY <1>4, <2>1 DEF NamesOK
  <2>2. CASE a \in AllNames /\ b.kid = DerivedKid(b.key)
    BY <1>3, <1>4, <2>2 DEF NamesOK
  <2>3. CASE a.kid = DerivedKid(a.key) /\ b \in AllNames
    <3>1. b.key = a.key
      BY <1>3, <1>4, <2>3 DEF NamesOK
    <3> QED
      BY <3>1
  <2>4. CASE a.kid = DerivedKid(a.key) /\ b.kid = DerivedKid(b.key)
    BY <1>4, <2>4, DerivedInjective
  <2> QED
    BY <2>1, <2>2, <2>3, <2>4
<1> QED
  BY <1>2, <1>4 DEF NamesOK

(* A step of the service, of run.sh or of a deployment, which changes the   *)
(* copies only.                                                             *)
LEMMA CopyStep ==
    ASSUME IInv, KeysOK,
           UNCHANGED <<param, seed, tokens, rotation, rotations, now, stray, replaced>>,
           Names(host'.file) \subseteq AllNames, Names(Running') \subseteq AllNames,
           PairsOK',
           \A t \in tokens : Live(t) =>
              /\ container' # Absent => TokenPair(t) \in Names(Running')
              /\ host'.step # "idle" => TokenPair(t) \in Names(host'.file)
    PROVE  KeysOK'
<1>1. PemOK' /\ RotationOK'
  BY DEF KeysOK, PemOK, RotationOK
<1>2. NamesOK'
  <2>1. NewPair' = NewPair
    BY DEF NewPair
  <2>2. AllNames' \subseteq AllNames
    BY <2>1 DEF AllNames
  <2>3. rotations \in Nat
    BY BoundsAssumption, Types
  <2> QED
    BY <2>2, <2>3, NamesStep DEF KeysOK
<1>3. TokensOK'
  <2>1. \A t : Live(t)' <=> Live(t)
    BY DEF Live
  <2> QED
    BY <2>1 DEF KeysOK, TokensOK
<1> QED
  BY <1>1, <1>2, <1>3 DEF KeysOK

(* run.sh reads the parameters, goes on with the copy it has, or drops it;  *)
(* the container stays or goes.                                             *)
LEMMA FileStep ==
    ASSUME IInv, KeysOK,
           UNCHANGED <<param, seed, tokens, rotation, rotations, now, stray, replaced>>,
           \/ UNCHANGED <<container, made>>
           \/ container' = Absent,
           \/ host'.file = host.file /\ (host'.step # "idle" => host.step # "idle")
           \/ host'.file = Served(param)
           \/ host'.file = NoParameters /\ host'.step = "idle"
    PROVE  KeysOK'
<1>1. Names(Served(param)) = Names(param) /\ Pair(Served(param)) = Pair(param)
  BY ServedFields, SameNames, Types
<1>2. Running' \in {Running, NoParameters} /\ (container' # Absent => container # Absent /\ Running' = Running)
  BY DEF Running
<1>3. Names(host'.file) \subseteq AllNames /\ Names(Running') \subseteq AllNames
  BY <1>1, <1>2, NothingNamed DEF AllNames
<1>4. PairsOK'
  <2>1. StillNames(param, Running)'
    BY <1>2, NothingNamed DEF KeysOK, PairsOK, StillNames
  <2>2. ASSUME host'.step # "idle" PROVE StillNames(param, host.file)'
    BY <2>2, <1>1, NothingNamed, PairNamed DEF KeysOK, PairsOK, StillNames
  <2>3. ASSUME host'.step # "idle" PROVE StillNames(host.file, Running)'
    <3>1. CASE host'.file = host.file /\ host.step # "idle"
      BY <1>2, <3>1, NothingNamed DEF KeysOK, PairsOK, StillNames
    <3>2. CASE host'.file = Served(param)
      BY <1>1, <1>2, <3>2, NothingNamed DEF KeysOK, PairsOK, StillNames
    <3> QED
      BY <2>3, <3>1, <3>2
  <2> QED
    BY <2>1, <2>2, <2>3 DEF PairsOK
<1>5. ASSUME NEW t \in tokens, Live(t)
      PROVE  /\ container' # Absent => TokenPair(t) \in Names(Running')
             /\ host'.step # "idle" => TokenPair(t) \in Names(host'.file)
  BY <1>1, <1>2, <1>5 DEF KeysOK, TokensOK
<1> QED
  BY <1>3, <1>4, <1>5, CopyStep

(* run.sh starts the container that it has the parameters for. *)
LEMMA RunnerRunKeys ==
    ASSUME IInv, KeysOK, RunnerRun
    PROVE  KeysOK'
<1>1. /\ UNCHANGED <<param, seed, tokens, rotation, rotations, now, stray, replaced>>
      /\ host'.file = NoParameters /\ host'.step = "idle" /\ host.step # "idle"
  BY RunnerRunStep DEF RunnerRun
<1>2. /\ Pair(Running') \subseteq Pair(host.file) /\ Names(Running') \subseteq Names(host.file)
      /\ container' # Absent => Names(Running') = Names(host.file)
  BY RunnerRunStep, RunningNames DEF Running
<1>3. Names(host'.file) \subseteq AllNames /\ Names(Running') \subseteq AllNames
  BY <1>1, <1>2, NothingNamed DEF AllNames
<1>4. PairsOK'
  BY <1>1, <1>2, NothingNamed DEF KeysOK, PairsOK, StillNames
<1>5. ASSUME NEW t \in tokens, Live(t), container' # Absent PROVE TokenPair(t) \in Names(Running')
  BY <1>1, <1>2, <1>5 DEF KeysOK, TokensOK
<1> QED
  BY <1>1, <1>3, <1>4, <1>5, CopyStep

LEMMA DeployDirectKeys ==
    ASSUME IInv, KeysOK, DeployDirect
    PROVE  KeysOK'
<1>1. /\ UNCHANGED <<param, seed, tokens, rotation, rotations, now, stray, replaced>>
      /\ host' = host /\ host.step = "idle"
  BY DeployDirectStep DEF DeployDirect
<1>2. /\ Pair(Running') \subseteq Pair(param) /\ Names(Running') \subseteq Names(param)
      /\ container' # Absent => Names(Running') = Names(param)
  BY DeployDirectStep, RunningNames DEF Running
<1>3. Names(host'.file) \subseteq AllNames /\ Names(Running') \subseteq AllNames
  BY <1>1, <1>2 DEF AllNames
<1>4. PairsOK'
  BY <1>1, <1>2, PairNamed DEF KeysOK, PairsOK, StillNames
<1>5. ASSUME NEW t \in tokens, Live(t), container' # Absent PROVE TokenPair(t) \in Names(Running')
  BY <1>1, <1>2, <1>5 DEF KeysOK, TokensOK
<1> QED
  BY <1>1, <1>3, <1>4, <1>5, CopyStep

(* A process that can answer and whose key file is not ahead of it          *)
(* publishes what its container was made from.                              *)
LEMMA Published ==
    ASSUME IInv, container # Absent, KeySetReadable, ~KeyFileAhead
    PROVE  /\ VerificationKeys = Names(Running)
           /\ [kid |-> container.kid, key |-> PrivateKeyPem] \in Pair(Running)
<1>1. container \in ParameterSets
  BY Types
<1>2. /\ Running.pem = PrivateKeyPem /\ Running.kid = container.kid
      /\ Running.previous.keys = container.previous.keys
  BY <1>1, ParameterType DEF Running, KeyFileAhead
<1>3. /\ PrivateKeyPem # Absent /\ container.kid # Absent
      /\ container.kid \notin {k.kid : k \in container.previous.keys}
  BY DEF KeySetReadable
<1>4. Pair(Running) = {[kid |-> container.kid, key |-> PrivateKeyPem]}
  BY <1>2, <1>3 DEF Pair
<1> QED
  BY <1>2, <1>4 DEF Names, VerificationKeys

(* The key that signs a token is one that the parameters name. *)
LEMMA IssueKeys ==
    ASSUME IInv, KeysOK, IssueAccessToken
    PROVE  KeysOK'
<1>1. /\ UNCHANGED <<mode, param, seed, host, keyFile, container, up, rotation, rotations, now,
                     made, replaced, overlap>>
      /\ container # Absent /\ KeySetReadable
  BY IssueStep
<1>2. PICK t \in TokenType :
         /\ tokens' = tokens \cup {t} /\ stray' = IF KeyFileAhead THEN stray \cup {t} ELSE stray
         /\ t.key = PrivateKeyPem /\ t.kid = container.kid /\ t.iat = now
  BY IssueStep
<1>3. ~KeyFileAhead => TokenPair(t) \in Pair(Running)
  BY <1>1, <1>2, Published DEF TokenPair
<1>4. Running' = Running /\ NewPair' = NewPair
  BY <1>1 DEF Running, NewPair
<1>5. NamesOK'
  <2>1. {TokenPair(u) : u \in tokens' \ stray'} \subseteq {TokenPair(u) : u \in tokens \ stray} \cup Names(Running)
    BY <1>2, <1>3, PairNamed
  <2>2. AllNames' \subseteq AllNames
    BY <1>1, <1>4, <2>1 DEF AllNames
  <2>3. rotations \in Nat
    BY BoundsAssumption, Types
  <2> QED
    BY <1>1, <2>2, <2>3, NamesStep DEF KeysOK
<1>6. PemOK' /\ RotationOK' /\ PairsOK'
  BY <1>1, <1>4 DEF KeysOK, PemOK, RotationOK, PairsOK, StillNames
<1>7. TokensOK'
  <2>1. now \in Nat
    BY BoundsAssumption, Types
  <2>2. \A u \in tokens' : u.iat <= now
    BY <1>2, <2>1 DEF KeysOK, TokensOK
  <2>3. ASSUME NEW u \in tokens', Live(u)'
        PROVE  /\ TokenPair(u) \in Names(param)
               /\ TokenPair(u) \in Names(Running)
               /\ host.step # "idle" => TokenPair(u) \in Names(host.file)
    <3>1. CASE u \in tokens /\ u \notin stray
      <4>1. Live(u)
        BY <1>1, <2>3, <3>1 DEF Live
      <4> QED
        BY <1>1, <3>1, <4>1 DEF KeysOK, TokensOK
    <3>2. CASE ~(u \in tokens /\ u \notin stray)
      <4>1. u = t /\ ~KeyFileAhead /\ u.kid \notin replaced
        BY <1>1, <1>2, <2>3, <3>2 DEF Live
      <4>2. TokenPair(u) \in Pair(Running) /\ TokenPair(u).kid \notin replaced
        BY <1>3, <4>1 DEF TokenPair
      <4> QED
        BY <4>2, PairNamed DEF KeysOK, PairsOK, StillNames
    <3> QED
      BY <3>1, <3>2
  <2> QED
    BY <1>1, <1>4, <2>2, <2>3 DEF TokensOK
<1> QED
  BY <1>5, <1>6, <1>7 DEF KeysOK

LEMMA TickKeys ==
    ASSUME IInv, KeysOK, Tick
    PROVE  KeysOK'
<1>1. /\ UNCHANGED <<param, seed, host, container, tokens, rotation, rotations, made, stray, replaced>>
      /\ now' = now + 1 /\ now \in Nat
  BY BoundsAssumption, Types DEF Tick, history
<1>2. Running' = Running /\ AllNames' = AllNames
  BY <1>1 DEF Running, NewPair, AllNames
<1>3. PemOK' /\ RotationOK' /\ NamesOK' /\ PairsOK'
  BY <1>1, <1>2 DEF KeysOK, PemOK, RotationOK, NamesOK, Proper, PairsOK, StillNames
<1>4. ASSUME NEW t \in tokens PROVE t.iat <= now' /\ (Live(t)' => Live(t))
  <2>1. t.iat <= now /\ t.iat \in Nat /\ t.exp \in Nat
    BY BoundsAssumption, Types DEF KeysOK, TokensOK, TokenType
  <2> QED
    BY <1>1, <2>1 DEF Live
<1>5. TokensOK'
  BY <1>1, <1>2, <1>4 DEF KeysOK, TokensOK
<1> QED
  BY <1>3, <1>5 DEF KeysOK

(* A step that changes what the parameters say. *)
LEMMA GrowStep ==
    ASSUME IInv, KeysOK, UNCHANGED <<host, container, made, tokens, stray, now>>,
           replaced \subseteq replaced', PemOK', RotationOK', NamesOK',
           \A b \in Names(param) : b \in Names(param') \/ b.kid \in replaced'
    PROVE  KeysOK'
<1>1. Running' = Running
  BY DEF Running
<1>2. PairsOK'
  BY <1>1 DEF KeysOK, PairsOK, StillNames
<1>3. ASSUME NEW t \in tokens, Live(t)' PROVE Live(t) /\ TokenPair(t) \in Names(param')
  <2>1. Live(t) /\ t.kid \notin replaced'
    BY <1>3 DEF Live
  <2>2. TokenPair(t) \in Names(param) /\ TokenPair(t).kid \notin replaced'
    BY <2>1 DEF KeysOK, TokensOK, TokenPair
  <2> QED
    BY <2>1, <2>2
<1>4. TokensOK'
  BY <1>1, <1>3 DEF KeysOK, TokensOK
<1> QED
  BY <1>2, <1>4 DEF KeysOK

(* Such a step, if it says nothing new, or only of derived key IDs. *)
LEMMA GrowNames ==
    ASSUME IInv, KeysOK, UNCHANGED <<host, container, made, tokens, stray>>,
           rotations' = rotations,
           \A b \in Names(param') \cup NewPair' : b \in AllNames \/ b.kid = DerivedKid(b.key)
    PROVE  NamesOK'
<1>1. Running' = Running
  BY DEF Running
<1>2. \A b \in AllNames' : b \in AllNames \/ b.kid = DerivedKid(b.key)
  BY <1>1 DEF AllNames
<1>3. rotations \in Nat
  BY BoundsAssumption, Types
<1> QED
  BY <1>2, <1>3, NamesStep DEF KeysOK

(* The seed command reads, starts or ends. *)
LEMMA SeedOnlyKeys ==
    ASSUME IInv, KeysOK, PemOK',
           UNCHANGED <<param, host, container, tokens, rotation, rotations, now, made, stray, replaced>>
    PROVE  KeysOK'
<1>1. RotationOK' /\ NewPair' = NewPair
  BY DEF KeysOK, RotationOK, NewPair
<1>2. NamesOK'
  BY <1>1, GrowNames DEF AllNames
<1> QED
  BY <1>1, <1>2, GrowStep

LEMMA SeedWriteKeys ==
    ASSUME IInv, KeysOK, SeedWrite
    PROVE  KeysOK'
<1>1. /\ UNCHANGED <<host, container, tokens, rotation, rotations, now, made, stray>>
      /\ seed.step \in 4 .. 9
  BY SeedSteps DEF SeedWrite
<1>2. /\ rotation.step = "idle" /\ param.pem \in {Absent, seed.pem} /\ seed.pem \in Keys
      /\ seed.step >= 6 => param.pem = seed.pem
      /\ \A k \in param.previous.keys : k.kid # param.kid /\ k.key # param.pem
  BY <1>1 DEF IInv, SeedOK, KeysOK, PemOK, RotationOK
<1>3. PemOK'
  <2>1. param'.pem \in {Absent, seed.pem}
    BY <1>2, SeedPuts
  <2> QED
    BY <1>1, <1>2, <2>1, SeedGoesOn DEF PemOK
<1>4. NewPair' = {}
  BY <1>1, <1>2 DEF NewPair
<1>5. CASE seed.step # 6
  <2>1. Names(param') = Names(param) /\ RotationOK' /\ replaced' = replaced
    <3>1. CASE seed.step # 5 \/ param.pem # Absent
      <4>1. /\ param'.pem = param.pem /\ param'.kid = param.kid /\ param'.previous = param.previous
            /\ replaced' = replaced
        BY <1>2, <1>5, <3>1, SeedPuts
      <4>2. Names(param') = Names(param)
        BY <4>1, SameNames
      <4> QED
        BY <1>1, <4>1, <4>2 DEF KeysOK, RotationOK
    <3>2. CASE seed.step = 5 /\ param.pem = Absent
      <4>1. /\ param'.kid = Absent /\ param.kid = Absent /\ param.previous.keys = {}
            /\ param'.previous = param.previous /\ replaced' = replaced
        BY <3>2, SeedPuts DEF IInv, ParamOK
      <4> QED
        BY <1>1, <1>2, <4>1 DEF RotationOK, Names, Pair
    <3> QED
      BY <3>1, <3>2
  <2>2. NamesOK'
    BY <1>1, <1>4, <2>1, GrowNames DEF AllNames
  <2> QED
    BY <1>1, <1>3, <2>1, <2>2, GrowStep
<1>6. CASE seed.step = 6
  <2>1. /\ param'.pem = seed.pem /\ param.pem = seed.pem /\ param'.kid = DerivedKid(seed.pem)
        /\ param'.previous = param.previous
        /\ param.kid \in {Absent, DerivedKid(seed.pem)} \/ param.kid \in replaced'
        /\ replaced \subseteq replaced'
    BY <1>2, <1>6, SeedPuts
  <2>2. ASSUME NEW k \in param.previous.keys PROVE k.kid # DerivedKid(seed.pem)
    <3>1. Proper(k) /\ k.key # seed.pem
      BY <1>2, <2>1 DEF KeysOK, NamesOK, AllNames, Names
    <3> QED
      BY <3>1, DerivedInjective, ChosenApart DEF Proper
  <2>3. RotationOK'
    BY <1>1, <1>2, <2>1, <2>2 DEF RotationOK
  <2>4. PICK b : b = [kid |-> DerivedKid(seed.pem), key |-> seed.pem]
    OBVIOUS
  <2>5. b.kid = DerivedKid(b.key) /\ Names(param') = {b} \cup param.previous.keys
    <3>1. DerivedKid(seed.pem) # Absent /\ seed.pem # Absent
      BY <1>2, Derived, AbsentAssumption
    <3>2. Pair(param') = {b}
      BY <2>1, <2>2, <2>4, <3>1 DEF Pair
    <3> QED
      BY <2>1, <2>4, <3>2 DEF Names
  <2>6. NamesOK'
    BY <1>1, <1>4, <2>5, GrowNames DEF AllNames, Names
  <2>7. ASSUME NEW a \in Names(param) PROVE a \in Names(param') \/ a.kid \in replaced'
    <3>1. CASE a \in Pair(param)
      <4>1. a = [kid |-> param.kid, key |-> param.pem] /\ param.kid # Absent
        BY <3>1 DEF Pair
      <4> QED
        BY <2>1, <2>4, <2>5, <4>1
    <3> QED
      BY <2>5, <3>1 DEF Names
  <2> QED
    BY <1>1, <1>3, <2>1, <2>3, <2>6, <2>7, GrowStep
<1> QED
  BY <1>5, <1>6

LEMMA SyncKeys ==
    ASSUME IInv, KeysOK, SyncGeneratedParameters
    PROVE  KeysOK'
<1>1. UNCHANGED <<seed, host, container, tokens, rotation, rotations, now, made, stray, replaced>>
  BY DEF SyncGeneratedParameters, history
<1>2. /\ param'.pem = param.pem /\ param'.kid = param.kid /\ param'.previous = param.previous
      /\ Names(param') = Names(param)
  BY SyncStep, SameNames
<1>3. PemOK' /\ RotationOK' /\ NewPair' = NewPair
  BY <1>1, <1>2 DEF KeysOK, PemOK, RotationOK, NewPair
<1>4. NamesOK'
  BY <1>1, <1>2, <1>3, GrowNames DEF AllNames
<1> QED
  BY <1>1, <1>2, <1>3, <1>4, GrowStep

(* Steps 1 and 2 of a rotation: a fresh key, and a key ID of its own. *)
LEMMA RotatePreviousKeys ==
    ASSUME IInv, KeysOK, RotatePrevious, seed.step = 0
    PROVE  KeysOK'
<1>1. /\ UNCHANGED <<seed, host, container, tokens, now, made, stray, replaced>>
      /\ rotation.step = "idle" /\ rotations \in Nat /\ rotations' = rotations + 1
      /\ param.pem # Absent /\ param.kid # Absent
      /\ param'.pem = param.pem /\ param'.kid = param.kid
      /\ param'.previous.keys = param.previous.keys \cup {[kid |-> param.kid, key |-> param.pem]}
  BY RotatePreviousFacts
<1>2. PICK key \in FreshKeys : \E kid \in {DerivedKid(key), ChosenKid(rotations)} :
         rotation' = [step |-> "previous", key |-> key, kid |-> kid]
  BY DEF RotatePrevious
<1>3. PICK kid \in {DerivedKid(key), ChosenKid(rotations)} :
         rotation' = [step |-> "previous", key |-> key, kid |-> kid]
  BY <1>2
<1>4. /\ key # param.pem
      /\ \A k \in param.previous.keys : k.key # key
  BY Fresh
<1>5. \A k \in param.previous.keys : k.kid # param.kid
  BY <1>1 DEF KeysOK, RotationOK
<1>6. PICK b : b = [kid |-> param.kid, key |-> param.pem]
  OBVIOUS
<1>7. Names(param) = {b} \cup param.previous.keys
  BY <1>1, <1>5, <1>6 DEF Names, Pair
<1>8. Names(param') = {b} \cup param.previous.keys
  <2>1. Pair(param') = {}
    BY <1>1 DEF Pair
  <2> QED
    BY <1>1, <1>6, <2>1 DEF Names
<1>9. ASSUME NEW a, Proper(a), a.key # key PROVE a.kid # kid
  <2>1. \A n \in 0 .. rotations - 1 : n # rotations
    BY <1>1
  <2> QED
    BY <1>3, <1>9, <2>1, DerivedInjective, ChosenApart DEF Proper
<1>10. RotationOK'
  <2>1. \A k \in param'.previous.keys : k.key # key
    BY <1>1, <1>4
  <2>2. \A k \in param'.previous.keys : Proper(k)
    BY <1>1, <1>6, <1>7 DEF KeysOK, NamesOK, AllNames
  <2>3. \A k \in param'.previous.keys : k.kid # kid
    BY <1>9, <2>1, <2>2
  <2>4. b \in param'.previous.keys /\ b.kid = param'.kid
    BY <1>1, <1>6
  <2> QED
    BY <1>3, <2>1, <2>3, <2>4 DEF RotationOK
<1>11. NamesOK'
  <2>1. PICK new : new = [kid |-> kid, key |-> key]
    OBVIOUS
  <2>2. Running' = Running /\ NewPair' = {new}
    BY <1>1, <1>3, <2>1 DEF Running, NewPair
  <2>3. AllNames' \subseteq AllNames \cup {new}
    BY <1>1, <1>7, <1>8, <2>2 DEF AllNames
  <2>4. CASE kid = DerivedKid(key)
    <3>1. new.kid = DerivedKid(new.key)
      BY <2>1, <2>4
    <3>2. rotations' \in Nat /\ rotations <= rotations'
      BY <1>1
    <3> QED
      BY <2>3, <3>1, <3>2, NamesStep DEF KeysOK
  <2>5. CASE kid = ChosenKid(rotations)
    <3>1. ASSUME NEW a \in AllNames PROVE Proper(a) /\ a.kid # kid
      <4>1. Proper(a)
        BY <3>1 DEF KeysOK, NamesOK
      <4>2. \A n \in 0 .. rotations - 1 : n # rotations
        BY <1>1
      <4> QED
        BY <2>5, <4>1, <4>2, ChosenApart DEF Proper
    <3>2. 0 .. rotations - 1 \subseteq 0 .. rotations' - 1 /\ rotations \in 0 .. rotations' - 1
      BY <1>1
    <3>3. ASSUME NEW a \in AllNames' PROVE Proper(a)'
      <4>1. CASE a \in AllNames
        <5>1. Proper(a)
          BY <3>1, <4>1
        <5> QED
          BY <3>2, <5>1 DEF Proper
      <4>2. CASE a = new
        BY <2>1, <2>5, <3>2, <4>2 DEF Proper
      <4> QED
        BY <2>3, <4>1, <4>2
    <3>4. \A x, y \in AllNames' : x.kid = y.kid => x.key = y.key
      BY <2>1, <2>3, <3>1 DEF KeysOK, NamesOK
    <3> QED
      BY <3>3, <3>4 DEF NamesOK
  <2> QED
    BY <1>3, <2>4, <2>5
<1>12. PemOK'
  BY <1>1 DEF PemOK
<1> QED
  BY <1>1, <1>7, <1>8, <1>10, <1>11, <1>12, GrowStep

(* Steps 3 and 4: under the old key ID the new key is not named.            *)
LEMMA RotateKeyKeys ==
    ASSUME IInv, KeysOK, RotateKey
    PROVE  KeysOK'
<1>1. /\ UNCHANGED <<seed, host, container, tokens, rotations, now, made, stray, replaced>>
      /\ rotation.step = "previous" /\ rotation'.step = "key"
      /\ rotation'.key = rotation.key /\ rotation'.kid = rotation.kid
  BY RotateKeyFacts
<1>2. /\ param'.pem = rotation.key /\ param'.kid = param.kid /\ param'.previous = param.previous
  <2>1. param' = [param EXCEPT !["pem"] = rotation.key] /\ param \in ParameterSets
    BY RotateKeyFacts, Types
  <2> QED
    BY <2>1, ParameterType
<1>3. \E k \in param.previous.keys : k.kid = param.kid
  BY <1>1 DEF KeysOK, RotationOK
<1>4. Names(param') = Names(param)
  BY <1>2, <1>3 DEF Names, Pair
<1>5. RotationOK' /\ NewPair' = NewPair
  BY <1>1, <1>2 DEF KeysOK, RotationOK, NewPair
<1>6. PemOK'
  BY <1>1, SeedTyped DEF KeysOK, PemOK, IInv, SeedType
<1>7. NamesOK'
  BY <1>1, <1>4, <1>5, GrowNames DEF AllNames
<1> QED
  BY <1>1, <1>4, <1>5, <1>6, <1>7, GrowStep

(* Step 5: the new key has its own key ID. *)
LEMMA RotateKidKeys ==
    ASSUME IInv, KeysOK, RotateKid
    PROVE  KeysOK'
<1>1. /\ UNCHANGED <<seed, host, container, tokens, rotations, now, made, stray, replaced>>
      /\ rotation.step = "key" /\ rotation'.step = "idle"
  BY RotateKidFacts
<1>2. /\ param'.kid = rotation.kid /\ param'.pem = param.pem /\ param'.previous = param.previous
  <2>1. param' = [param EXCEPT !["kid"] = rotation.kid] /\ param \in ParameterSets
    BY RotateKidFacts, Types
  <2> QED
    BY <2>1, ParameterType
<1>3. /\ \A k \in param.previous.keys : k.kid # rotation.kid /\ k.key # rotation.key
      /\ \E k \in param.previous.keys : k.kid = param.kid
      /\ param.pem = rotation.key
  BY <1>1 DEF KeysOK, RotationOK
<1>4. Names(param) = param.previous.keys
  BY <1>3 DEF Names, Pair
<1>5. Names(param') \subseteq NewPair \cup param.previous.keys /\ param.previous.keys \subseteq Names(param')
  BY <1>1, <1>2, <1>3 DEF Names, Pair, NewPair
<1>6. RotationOK' /\ NewPair' = {}
  BY <1>1, <1>2, <1>3 DEF RotationOK, NewPair
<1>7. PemOK'
  BY <1>1, SeedTyped DEF KeysOK, PemOK, IInv, SeedType
<1>8. NamesOK'
  BY <1>1, <1>4, <1>5, <1>6, GrowNames DEF AllNames
<1> QED
  BY <1>1, <1>4, <1>5, <1>6, <1>7, <1>8, GrowStep

(* A previous key is removed once nothing signs under its key ID and its    *)
(* tokens have expired.                                                     *)
LEMMA RemoveKeys ==
    ASSUME IInv, KeysOK, RemovePreviousKey
    PROVE  KeysOK'
<1>1. PICK k \in param.previous.keys :
         /\ \A t \in tokens : t.key = k.key => t.exp <= now
         /\ param' = [param EXCEPT !.previous = PreviousJson(@.keys \ {k})]
  BY DEF RemovePreviousKey
<1>2. /\ UNCHANGED <<seed, host, container, tokens, rotation, rotations, now, made, stray, replaced>>
      /\ rotation.step = "idle" /\ container # Absent /\ container.kid = param.kid
      /\ host.step # "idle" => host.file.kid = param.kid
  BY DEF RemovePreviousKey, history
<1>3. /\ param'.previous.keys = param.previous.keys \ {k}
      /\ param'.pem = param.pem /\ param'.kid = param.kid
  BY <1>1, RemoveFacts
<1>4. \A l \in param.previous.keys : l.kid # param.kid /\ l.key # param.pem
  BY <1>2 DEF KeysOK, RotationOK
<1>5. Names(param') = Names(param) \ {k}
  <2>1. k \notin Pair(param)
    BY <1>1, <1>4 DEF Pair
  <2>2. /\ param.kid \notin {l.kid : l \in param.previous.keys}
        /\ param'.kid \notin {l.kid : l \in param'.previous.keys}
    BY <1>3, <1>4
  <2>3. Pair(param') = Pair(param)
    BY <1>3, <2>2 DEF Pair
  <2> QED
    BY <1>3, <2>1, <2>3 DEF Names
<1>6. PemOK' /\ RotationOK' /\ NewPair' = NewPair /\ Running' = Running
  BY <1>2, <1>3, <1>4 DEF KeysOK, PemOK, RotationOK, NewPair, Running
<1>7. NamesOK'
  BY <1>2, <1>5, <1>6, GrowNames DEF AllNames
<1>8. \A p : p.kid = param.kid => k \notin Pair(p)
  BY <1>1, <1>4 DEF Pair
<1>9. PairsOK'
  <2>1. Running.kid = param.kid
    <3>1. container \in ParameterSets
      BY <1>2, Types
    <3> QED
      BY <1>2, <3>1, ParameterType DEF Running
  <2>2. StillNames(param, Running)'
    BY <1>2, <1>5, <1>6, <1>8, <2>1 DEF KeysOK, PairsOK, StillNames
  <2>3. ASSUME host.step # "idle" PROVE StillNames(param, host.file)' /\ StillNames(host.file, Running)'
    BY <1>2, <1>5, <1>6, <1>8, <2>3 DEF KeysOK, PairsOK, StillNames
  <2> QED
    BY <1>2, <2>2, <2>3 DEF PairsOK
<1>10. TokensOK'
  <2>1. ASSUME NEW t \in tokens, Live(t) PROVE TokenPair(t) # k
    <3>1. now \in Nat /\ t.exp \in Nat
      BY BoundsAssumption, Types DEF TokenType
    <3>2. ~(t.exp <= now)
      BY <2>1, <3>1 DEF Live
    <3> QED
      BY <1>1, <3>2 DEF TokenPair
  <2>2. \A t : Live(t)' <=> Live(t)
    BY <1>2 DEF Live
  <2> QED
    BY <1>2, <1>5, <1>6, <2>1, <2>2 DEF KeysOK, TokensOK
<1> QED
  BY <1>6, <1>7, <1>9, <1>10 DEF KeysOK

-----------------------------------------------------------------------------
(* Theorems about the keys *)

LEMMA KeysHold == Init => (~overlap => KeysOK)
<1> SUFFICES ASSUME Init PROVE KeysOK
  OBVIOUS
<1>1. /\ param = NoParameters /\ host.file = NoParameters /\ host.step = "idle" /\ container = Absent
      /\ tokens = {} /\ seed.step = 0 /\ rotation.step = "idle"
  BY IdleHost, IdleSeed DEF Init, RotationIdle
<1>2. Running = NoParameters /\ NewPair = {} /\ AllNames = {}
  BY <1>1, NothingNamed DEF Running, NewPair, AllNames
<1>3. PemOK /\ RotationOK
  BY <1>1, NothingFields DEF PemOK, RotationOK
<1>4. NamesOK /\ PairsOK /\ TokensOK
  BY <1>1, <1>2, NothingNamed DEF NamesOK, PairsOK, StillNames, TokensOK
<1> QED
  BY <1>3, <1>4 DEF KeysOK

LEMMA NextKeepsKeys ==
    ASSUME IInv, ~overlap => KeysOK, [Next]_vars, ~overlap'
    PROVE  KeysOK'
<1>1. ~overlap
  BY DEF Next, vars, history, SeedStart, SeedRead, SeedWrite, SeedFail, SyncGeneratedParameters,
         RunnerRead, RunnerTruncateKey, RunnerWriteKey, RunnerPull, RunnerRemove, RunnerRun, Reboot,
         DeployDirect, StartProcess, CrashProcess, IssueAccessToken, RotatePrevious, RotateKey,
         RotateKid, RemovePreviousKey, Tick
<1>2. KeysOK
  BY <1>1
<1>3. CASE SeedStart
  <2>1. seed'.step = 1 /\ rotation.step = "idle"
    BY <1>3, IdleSeed DEF SeedStart
  <2>2. PemOK'
    BY <1>3, <2>1 DEF PemOK, SeedStart
  <2> QED
    BY <1>2, <1>3, <2>2, SeedOnlyKeys DEF SeedStart
<1>4. CASE SeedRead
  <2>1. PemOK'
    BY <1>2, <1>4, SeedReadStep DEF KeysOK, PemOK, SeedRead, history
  <2> QED
    BY <1>2, <1>4, <2>1, SeedOnlyKeys DEF SeedRead, history
<1>5. CASE SeedWrite
  BY <1>2, <1>5, SeedWriteKeys
<1>6. CASE SeedFail
  <2>1. PemOK'
    BY <1>6, SeedFailStep DEF PemOK
  <2> QED
    BY <1>2, <1>6, <2>1, SeedOnlyKeys DEF SeedFail, history
<1>7. CASE SyncGeneratedParameters
  BY <1>2, <1>7, SyncKeys
<1>8. CASE RunnerRead
  BY <1>2, <1>8, RunnerReadStep, FileStep DEF RunnerRead, history
<1>9. CASE RunnerTruncateKey
  BY <1>2, <1>9, RunnerTruncateKeyStep, FileStep DEF RunnerTruncateKey, history
<1>10. CASE RunnerWriteKey
  BY <1>2, <1>10, RunnerWriteKeyStep, FileStep DEF RunnerWriteKey, history
<1>11. CASE RunnerPull
  <2>1. host.step # "idle"
    BY <1>11 DEF RunnerPull
  <2> QED
    BY <1>2, <1>11, <2>1, RunnerPullStep, FileStep DEF RunnerPull, history
<1>12. CASE RunnerRemove
  BY <1>2, <1>12, RunnerRemoveStep, FileStep DEF RunnerRemove
<1>13. CASE RunnerRun
  BY <1>2, <1>13, RunnerRunKeys
<1>14. CASE Reboot
  BY <1>2, <1>14, RebootStep, FileStep DEF Reboot, history
<1>15. CASE DeployDirect
  BY <1>2, <1>15, DeployDirectKeys
<1>16. CASE StartProcess \/ CrashProcess
  BY <1>2, <1>16, FileStep DEF StartProcess, CrashProcess, history
<1>17. CASE IssueAccessToken
  BY <1>2, <1>17, IssueKeys
<1>18. CASE RotatePrevious
  <2>1. seed.step \in 0 .. 9
    BY SeedTyped DEF IInv, SeedType
  <2>2. ~ (seed.step > 0)
    BY <1>18, Zenon DEF RotatePrevious
  <2>3. seed.step = 0
    BY <2>1, <2>2
  <2> QED
    BY <1>2, <1>18, <2>3, RotatePreviousKeys
<1>19. CASE RotateKey
  BY <1>2, <1>19, RotateKeyKeys
<1>20. CASE RotateKid
  BY <1>2, <1>20, RotateKidKeys
<1>21. CASE RemovePreviousKey
  BY <1>2, <1>21, RemoveKeys
<1>22. CASE Tick
  BY <1>2, <1>22, TickKeys
<1>23. CASE UNCHANGED vars
  BY <1>2, <1>23, FileStep DEF vars, history
<1> QED
  BY <1>3, <1>4, <1>5, <1>6, <1>7, <1>8, <1>9, <1>10, <1>11, <1>12, <1>13, <1>14, <1>15, <1>16, <1>17,
     <1>18, <1>19, <1>20, <1>21, <1>22, <1>23 DEF Next

LEMMA KeysInvariance == Spec => [](IInv /\ (~overlap => KeysOK))
<1>1. Init => IInv /\ (~overlap => KeysOK)
  BY InitHolds, KeysHold
<1>2. IInv /\ (~overlap => KeysOK) /\ [Next]_vars => (IInv /\ (~overlap => KeysOK))'
  BY NextKeeps, NextKeepsKeys
<1> QED
  BY <1>1, <1>2, PTL DEF Spec

(* As long as no seed command overlaps with a rotation, no run of           *)
(* put-runtime-parameters.ts, interrupted or repeated and with whatever     *)
(* options, replaces the signing key, a client secret or its hash in the    *)
(* registry; a chosen key ID becomes the one derived from the key, and no   *)
(* other.                                                                   *)
THEOREM NothingReplaced == Spec => SeedKeepsSecrets
<1>1. ASSUME IInv, ~overlap => KeysOK, [Next]_vars, rotation' = rotation, ~overlap
      PROVE  /\ param.pem # Absent => param'.pem = param.pem
             /\ param.kid # Absent => param'.kid \in {param.kid, DerivedKid(param.pem)}
  <2>1. CASE SeedWrite
    <3>1. seed.step \in 4 .. 9
      BY <2>1, SeedSteps DEF SeedWrite
    <3>2. /\ param.pem \in {Absent, seed.pem}
          /\ seed.step = 6 => param.pem = seed.pem
      BY <1>1, <3>1 DEF KeysOK, PemOK, IInv, SeedOK
    <3> QED
      BY <1>1, <2>1, <3>2, SeedPuts
  <2>2. CASE SyncGeneratedParameters
    BY <1>1, <2>2, SyncStep
  <2>3. CASE RemovePreviousKey
    BY <1>1, <2>3, RemoveFacts DEF RemovePreviousKey
  <2>4. ~RotatePrevious /\ ~RotateKey /\ ~RotateKid
    <3>1. rotation'.step = rotation.step
      BY <1>1
    <3>2. RotatePrevious => rotation'.step = "previous" /\ rotation.step = "idle"
      BY <1>1, RotatePreviousFacts
    <3> QED
      BY <1>1, <3>1, <3>2, RotateKeyFacts, RotateKidFacts
  <2>5. CASE param' = param
    BY <2>5
  <2> QED
    BY <1>1, <2>1, <2>2, <2>3, <2>4, <2>5
       DEF Next, vars, SeedStart, SeedRead, SeedFail, RunnerRead, RunnerTruncateKey, RunnerWriteKey,
           RunnerPull, RunnerRemove, RunnerRun, Reboot, DeployDirect, StartProcess, CrashProcess,
           IssueAccessToken, Tick
<1>2. IInv /\ (~overlap => KeysOK) /\ [Next]_vars =>
         [(rotation' = rotation /\ ~ overlap) =>
            /\ \A name \in {"pem", "actions", "mcp"} : param[name] # Absent => param'[name] = param[name]
            /\ param.kid # Absent => param'.kid \in {param.kid, DerivedKid(param.pem)}
            /\ param.clients # Absent => /\ param'.clients.actions = param.clients.actions
                                         /\ param'.clients.mcp = param.clients.mcp]_vars
  BY <1>1, NextKeeps DEF Kept
<1> QED
  BY <1>2, KeysInvariance, PTL DEF Spec, SeedKeepsSecrets

(* As long as no seed command overlaps with a rotation, a key ID names one  *)
(* key for ever, in what signing-keys.ts publishes at /oauth/jwks and in    *)
(* every token: with derived and with chosen key IDs, restarts of run.sh at *)
(* any moment and rotations deployed at any of their steps.                 *)
THEOREM KidsAreStable == Spec => []KidNamesOneKey
<1>1. IInv /\ (~overlap => KeysOK) => KidNamesOneKey
  <2> SUFFICES ASSUME IInv, KeysOK PROVE KidNamesOneKey
    BY DEF KidNamesOneKey
  <2>1. PICK published : published = IF CanAnswer /\ ~KeyFileAhead THEN VerificationKeys ELSE {}
    OBVIOUS
  <2>2. PICK bindings : bindings = published \cup {[kid |-> t.kid, key |-> t.key] : t \in tokens \ stray}
    OBVIOUS
  <2>3. published \subseteq AllNames
    <3>1. CASE CanAnswer /\ ~KeyFileAhead
      <4>1. container # Absent /\ KeySetReadable
        BY <3>1 DEF CanAnswer, IInv, CopiesOK
      <4> QED
        BY <2>1, <3>1, <4>1, Published DEF AllNames
    <3> QED
      BY <2>1, <3>1
  <2>4. bindings \subseteq AllNames
    BY <2>2, <2>3 DEF AllNames, TokenPair
  <2>5. \A a, b \in bindings : a.kid = b.kid => a.key = b.key
    BY <2>4 DEF KeysOK, NamesOK
  <2> QED
    BY <2>1, <2>2, <2>5 DEF KidNamesOneKey
<1> QED
  BY <1>1, KeysInvariance, PTL

(* As long as no seed command overlaps with a rotation, every token is      *)
(* honoured until it expires, at exactly the operations whose audience and  *)
(* announced scopes it has, by every process that can answer:               *)
(* verifyAccessToken finds its key among the active and the previous ones   *)
(* of signing-keys.ts.  Not so a token that was issued while the key file   *)
(* was ahead of the container, and one whose chosen key ID the seed command *)
(* has replaced.                                                            *)
THEOREM IssuedTokensHonoured == Spec => []TokensHonoured
<1>1. IInv /\ (~overlap => KeysOK) => TokensHonoured
  <2> SUFFICES ASSUME IInv, KeysOK, CanAnswer, ~KeyFileAhead, NEW t \in tokens \ stray,
                      t.kid \notin replaced, NEW op \in Operations, NEW how \in Presentations
               PROVE  Serve(op, VerificationKeys, how, t, now).status = Promised(op, how, t)
    BY DEF TokensHonoured
  <2>1. container # Absent /\ VerificationKeys = Names(Running)
    BY Published DEF CanAnswer, IInv, CopiesOK
  <2>2. t.aud \in Audiences /\ t.iat \in Nat /\ t.exp \in Nat /\ now \in Nat /\ t.iat <= now
    BY BoundsAssumption, Types DEF TokenType, KeysOK, TokensOK
  <2>3. \A k \in VerificationKeys : k.kid = t.kid => k.key = t.key
    <3>1. TokenPair(t) \in AllNames /\ TokenPair(t).kid = t.kid /\ TokenPair(t).key = t.key
      BY DEF AllNames, TokenPair
    <3> QED
      BY <2>1, <3>1 DEF KeysOK, NamesOK, AllNames
  <2>4. now < t.exp => \E k \in VerificationKeys : k.kid = t.kid
    BY <2>1 DEF KeysOK, TokensOK, Live, TokenPair
  <2>5. Knows(VerificationKeys, t, now)
    BY <2>2, <2>3, <2>4 DEF Knows
  <2> QED
    BY <2>2, <2>5, ServedAsPromised
<1> QED
  BY <1>1, KeysInvariance, PTL


-----------------------------------------------------------------------------
(* The configuration, for any inputs and options an operator may type       *)

(* The variables that readConfig reads, and those that the stack writes.    *)
ConfigNames ==
    UrlNames \cup NumberNames \cup TextNames \cup Defaulted
      \cup {"OAUTH_STORE_BACKEND", "OAUTH_DYNAMODB_TABLE_NAME", "OAUTH_DYNAMODB_REGION", "ALLOWED_ORIGINS"}

LEMMA FallbackNames ==
    ASSUME NEW issuer, NEW upstream
    PROVE  DOMAIN Fallbacks(issuer, upstream) = ConfigNames
BY DEF Fallbacks, ConfigNames, UrlNames, NumberNames, TextNames, Defaulted

LEMMA StackNames ==
    ASSUME NEW in
    PROVE  /\ ConfigNames \ {"UPSTREAM_OIDC_CLIENT_SECRET"} \subseteq DOMAIN EnvironmentParameters(in)
           /\ "OAUTH_CLIENTS_JSON" \notin DOMAIN EnvironmentParameters(in)
           /\ "UPSTREAM_OIDC_CLIENT_SECRET" \notin DOMAIN EnvironmentParameters(in)
BY DEF EnvironmentParameters, ConfigNames, UrlNames, NumberNames, TextNames, Defaulted

(* A value that run.sh passes on is the value the service reads, as a URL   *)
(* in normal form.                                                          *)
LEMMA StackSetting ==
    ASSUME NEW in, NEW list, NEW name \in ConfigNames \ {"UPSTREAM_OIDC_CLIENT_SECRET"}
    PROVE  LET value == EnvironmentParameters(in)[name]
           IN  Settings(EnvironmentFile(EnvironmentParameters(in), list), TRUE)[name] =
                 IF name \in UrlNames /\ value # Missing THEN Normal(value) ELSE value
<1> DEFINE p == EnvironmentParameters(in)
           env == EnvironmentFile(p, list)
<1> HIDE DEF p
<1>1. name \in DOMAIN p /\ "OAUTH_CLIENTS_JSON" \notin ConfigNames
  BY StackNames DEF p, ConfigNames, UrlNames, NumberNames, TextNames, Defaulted
<1>2. name \in DOMAIN env /\ env[name] = p[name]
  BY <1>1 DEF EnvironmentFile
<1> HIDE DEF env
<1>3. \A i, u : name \in DOMAIN Fallbacks(i, u)
  BY FallbackNames
<1> QED BY <1>2, <1>3 DEF Settings, Given, p, env

LEMMA SecretSetting ==
    ASSUME NEW in, NEW list
    PROVE  Settings(EnvironmentFile(EnvironmentParameters(in), list), TRUE).UPSTREAM_OIDC_CLIENT_SECRET = "ok"
<1> DEFINE p == EnvironmentParameters(in)
           env == EnvironmentFile(p, list)
           name == "UPSTREAM_OIDC_CLIENT_SECRET"
<1> HIDE DEF p
<1>2. name \in DOMAIN env /\ env[name] = "ok"
  BY DEF EnvironmentFile
<1> HIDE DEF env
<1>3. \A i, u : name \in DOMAIN Fallbacks(i, u)
  BY FallbackNames DEF ConfigNames, TextNames
<1>4. name \notin UrlNames
  BY DEF UrlNames
<1> QED BY <1>2, <1>3, <1>4 DEF Settings, Given, p, env

(* The registry is passed on unless a display name has a quotation mark.    *)
LEMMA RegistrySetting ==
    ASSUME NEW in, NEW list
    PROVE  Given(EnvironmentFile(EnvironmentParameters(in), list), "OAUTH_CLIENTS_JSON", Missing) =
             IF \E i \in DOMAIN list : list[i].displayName = "quoted" THEN NotJson ELSE list
BY DEF Given, EnvironmentFile

-----------------------------------------------------------------------------
(* URLs *)

LEMMA PathsOfUrls ==
    /\ Texts \subseteq UrlPaths
    /\ Texts \X Texts \subseteq UrlPaths
BY DEF UrlPaths

LEMMA TypedUrls == TypedUrl \subseteq AnyUrl
BY PathsOfUrls DEF TypedUrl, AnyUrl

LEMMA NormalUrl ==
    ASSUME NEW url \in AnyUrl
    PROVE  /\ Normal(url) \in AnyUrl
           /\ Normal(url) # Missing
           /\ Normal(url).scheme = url.scheme
           /\ Normal(url).host = url.host
           /\ Normal(url).path = url.path
           /\ Normal(url).parts = url.parts
           /\ ~ Normal(url).slash
           /\ ~ url.slash => Normal(url) = url
<1>1. Normal(url) \in AnyUrl
  BY DEF AnyUrl, Normal
<1>2. Normal(url) # Missing
  BY <1>1, MissingAssumption
<1>3. /\ Normal(url).scheme = url.scheme
      /\ Normal(url).host = url.host
      /\ Normal(url).path = url.path
      /\ Normal(url).parts = url.parts
      /\ ~ Normal(url).slash
  BY DEF AnyUrl, Normal
<1>4. ~ url.slash => Normal(url) = url
  BY DEF AnyUrl, Normal
<1> QED BY <1>1, <1>2, <1>3, <1>4

LEMMA NormalTyped ==
    ASSUME NEW url \in TypedUrl
    PROVE  Normal(url) \in TypedUrl
BY DEF TypedUrl, Normal

(* A public URL is one that the service accepts in production, before and   *)
(* after it is brought to its normal form.                                  *)
LEMMA PublicUrl ==
    ASSUME NEW url \in AnyUrl, Public(url)
    PROVE  /\ Public(Normal(url))
           /\ HttpUrl(url, TRUE)
           /\ HttpUrl(Normal(url), TRUE)
<1>1. url # Missing
  BY MissingAssumption
<1> QED BY <1>1, NormalUrl DEF Public, HttpUrl, IsNonPublicHostname

LEMMA UrlFields ==
    ASSUME NEW scheme \in Texts, NEW hostname \in Texts, NEW path \in UrlPaths
    PROVE  /\ Url(scheme, hostname, path) \in AnyUrl
           /\ Url(scheme, hostname, path).scheme = scheme
           /\ Url(scheme, hostname, path).host = hostname
           /\ Url(scheme, hostname, path).path = path
           /\ Url(scheme, hostname, path).parts = "none"
           /\ Normal(Url(scheme, hostname, path)) = Url(scheme, hostname, path)
<1>1. Url(scheme, hostname, path) \in AnyUrl
  BY TextsAssumption DEF Url, AnyUrl
<1>2. /\ Url(scheme, hostname, path).scheme = scheme
      /\ Url(scheme, hostname, path).host = hostname
      /\ Url(scheme, hostname, path).path = path
      /\ Url(scheme, hostname, path).parts = "none"
      /\ ~ Url(scheme, hostname, path).slash
  BY DEF Url
<1> QED BY <1>1, <1>2, NormalUrl

LEMMA PublicHttps ==
    ASSUME NEW hostname \in {"public", "other", "idp"}, NEW path \in UrlPaths
    PROVE  Https(hostname, path) \in AnyUrl /\ Public(Https(hostname, path))
<1>1. hostname \in Texts /\ "https" \in Texts
  BY TextsAssumption
<1> QED BY <1>1, UrlFields DEF Https, Public

(* With inputs as the documents ask for them every URL of the stack is      *)
(* public.                                                                  *)
LEMMA PublicDiscovery ==
    ASSUME NEW in \in AnyInputs, in.mode = "external", RightInputs(in)
    PROVE  DiscoveryUrl(in) \in AnyUrl /\ Public(DiscoveryUrl(in))
<1>1. CASE in.discoveryUrl # Missing
  BY <1>1, TypedUrls DEF DiscoveryUrl, RightInputs, AnyInputs
<1>2. CASE in.discoveryUrl = Missing
  <2> DEFINE n == Normal(in.issuerUrl)
  <2>1. n \in TypedUrl /\ Public(n)
    BY NormalTyped, PublicUrl, TypedUrls DEF AnyInputs, RightInputs, Endpoints
  <2>2. DiscoveryUrl(in) = [n EXCEPT !.path = <<@, "openid-configuration">>]
    BY <1>2 DEF DiscoveryUrl
  <2> HIDE DEF n
  <2>3. <<n.path, "openid-configuration">> \in UrlPaths
    BY <2>1, PathsOfUrls, TextsAssumption DEF TypedUrl
  <2>4. n \in AnyUrl
    BY <2>1, TypedUrls
  <2>5. \A path \in UrlPaths : LET d == [n EXCEPT !.path = path]
                               IN  d \in AnyUrl /\ d.scheme = n.scheme /\ d.host = n.host /\ d.parts = n.parts
    BY <2>4 DEF AnyUrl
  <2> QED BY <2>1, <2>2, <2>3, <2>5 DEF Public
<1> QED BY <1>1, <1>2

LEMMA PublicProvider ==
    ASSUME NEW in \in AnyInputs, DeploymentConfig(in), RightInputs(in),
           NEW name \in Endpoints \cup {"discoveryUrl"}
    PROVE  IdentityProvider(in)[name] \in AnyUrl /\ Public(IdentityProvider(in)[name])
<1>1. CASE in.mode = "external"
  <2>1. \A e \in Endpoints : in[e] \in AnyUrl /\ Public(in[e])
    BY <1>1, TypedUrls DEF RightInputs, AnyInputs, Endpoints
  <2>2. DiscoveryUrl(in) \in AnyUrl /\ Public(DiscoveryUrl(in))
    BY <1>1, PublicDiscovery
  <2>3. \A e \in Endpoints : Normal(in[e]) \in AnyUrl /\ Public(Normal(in[e]))
    BY <2>1, NormalUrl, PublicUrl
  <2>4. Normal(DiscoveryUrl(in)) \in AnyUrl /\ Public(Normal(DiscoveryUrl(in)))
    BY <2>2, NormalUrl, PublicUrl
  <2>5. CASE name = "discoveryUrl"
    BY <1>1, <2>4, <2>5 DEF IdentityProvider
  <2>6. CASE name \in Endpoints
    <3>1. IdentityProvider(in)[name] = Normal(in[name])
      BY <1>1, <2>6 DEF IdentityProvider, Endpoints
    <3> QED BY <2>3, <2>6, <3>1
  <2> QED BY <2>5, <2>6
<1>2. CASE in.mode # "external"
  <2>1. IdentityProvider(in)[name] \in
          {Https("other", "/pool"), Https("other", <<"/pool", "openid-configuration">>),
           Https("idp", "/oauth2/authorize"), Https("idp", "/oauth2/token"), Https("idp", "/oauth2/userInfo")}
    BY <1>2 DEF IdentityProvider, Endpoints
  <2> QED BY <2>1, PublicHttps, PathsOfUrls, TextsAssumption
<1> QED BY <1>1, <1>2

LEMMA PublicStack ==
    ASSUME NEW in \in AnyInputs, DeploymentConfig(in), RightInputs(in), NEW name \in UrlNames
    PROVE  EnvironmentParameters(in)[name] \in AnyUrl /\ Public(EnvironmentParameters(in)[name])
<1> DEFINE p == EnvironmentParameters(in)
<1>1. in.domainName \in {"public", "other"}
  BY DEF RightInputs
<1>2. CASE name \in {"PUBLIC_ISSUER_URL", "MCP_RESOURCE_URL", "ACTIONS_AUDIENCE", "UPSTREAM_OIDC_REDIRECT_URI"}
  <2>1. p[name] \in {Https(in.domainName, path) : path \in {"/", "/mcp", "/actions", "/oauth/callback"}}
    BY <1>2 DEF EnvironmentParameters
  <2> QED BY <1>1, <2>1, PublicHttps, PathsOfUrls, TextsAssumption
<1>3. CASE name = "WIDGET_DOMAIN"
  <2>1. WidgetDomain(in) \in AnyUrl /\ Public(WidgetDomain(in))
    BY <1>1, PublicHttps, PathsOfUrls, TextsAssumption, TypedUrls DEF WidgetDomain, RightInputs, AnyInputs
  <2>2. p[name] = Normal(WidgetDomain(in))
    BY <1>3 DEF EnvironmentParameters
  <2>3. Normal(WidgetDomain(in)) \in AnyUrl
    BY <2>1, NormalUrl
  <2>4. Public(Normal(WidgetDomain(in)))
    BY <2>1, PublicUrl
  <2> QED BY <2>2, <2>3, <2>4
<1>4. CASE name \in UrlNames \ {"PUBLIC_ISSUER_URL", "MCP_RESOURCE_URL", "ACTIONS_AUDIENCE",
                               "UPSTREAM_OIDC_REDIRECT_URI", "WIDGET_DOMAIN"}
  <2>1. \E e \in Endpoints \cup {"discoveryUrl"} : p[name] = IdentityProvider(in)[e]
    BY <1>4 DEF EnvironmentParameters, UrlNames, Endpoints
  <2> QED BY <2>1, PublicProvider
<1> QED BY <1>2, <1>3, <1>4

-----------------------------------------------------------------------------
(* The start of the deployed service *)

DeployedSettings(in, list) == Settings(EnvironmentFile(EnvironmentParameters(in), list), TRUE)

LEMMA DeployedUrls ==
    ASSUME NEW in \in AnyInputs, DeploymentConfig(in), RightInputs(in), NEW list, NEW name \in UrlNames
    PROVE  /\ DeployedSettings(in, list)[name] = Normal(EnvironmentParameters(in)[name])
           /\ HttpUrl(DeployedSettings(in, list)[name], TRUE)
<1> DEFINE url == EnvironmentParameters(in)[name]
<1>1. url \in AnyUrl /\ Public(url)
  BY PublicStack
<1>2. url # Missing
  BY <1>1, MissingAssumption
<1>3. name \in ConfigNames \ {"UPSTREAM_OIDC_CLIENT_SECRET"}
  BY DEF ConfigNames, UrlNames
<1>4. DeployedSettings(in, list)[name] = Normal(url)
  BY <1>2, <1>3, StackSetting DEF DeployedSettings
<1>5. HttpUrl(Normal(url), TRUE)
  BY <1>1, PublicUrl
<1> QED BY <1>4, <1>5

(* The URLs that are made from the domain name. *)
LEMMA DeployedDomain ==
    ASSUME NEW in \in AnyInputs, DeploymentConfig(in), RightInputs(in), NEW list
    PROVE  LET s == DeployedSettings(in, list)
           IN  /\ s.PUBLIC_ISSUER_URL = Https(in.domainName, "/")
               /\ s.MCP_RESOURCE_URL = Https(in.domainName, "/mcp")
               /\ s.ACTIONS_AUDIENCE = Https(in.domainName, "/actions")
               /\ s.UPSTREAM_OIDC_REDIRECT_URI = Https(in.domainName, "/oauth/callback")
<1> DEFINE s == DeployedSettings(in, list)
           p == EnvironmentParameters(in)
<1>1. /\ p.PUBLIC_ISSUER_URL = Https(in.domainName, "/")
      /\ p.MCP_RESOURCE_URL = Https(in.domainName, "/mcp")
      /\ p.ACTIONS_AUDIENCE = Https(in.domainName, "/actions")
      /\ p.UPSTREAM_OIDC_REDIRECT_URI = Https(in.domainName, "/oauth/callback")
  BY DEF EnvironmentParameters
<1>2. in.domainName \in Texts /\ "https" \in Texts
  BY TextsAssumption DEF RightInputs
<1>3. \A path \in {"/", "/mcp", "/actions", "/oauth/callback"} :
         Normal(Https(in.domainName, path)) = Https(in.domainName, path)
  <2>1. {"/", "/mcp", "/actions", "/oauth/callback"} \subseteq UrlPaths
    BY PathsOfUrls, TextsAssumption
  <2> QED BY <1>2, <2>1, UrlFields DEF Https
<1> HIDE DEF s, p
<1>4. \A name \in UrlNames : s[name] = Normal(p[name])
  BY DeployedUrls DEF s, p
<1>5. {"PUBLIC_ISSUER_URL", "MCP_RESOURCE_URL", "ACTIONS_AUDIENCE", "UPSTREAM_OIDC_REDIRECT_URI"} \subseteq UrlNames
  BY DEF UrlNames
<1>6. /\ s.PUBLIC_ISSUER_URL = Https(in.domainName, "/")
      /\ s.MCP_RESOURCE_URL = Https(in.domainName, "/mcp")
      /\ s.ACTIONS_AUDIENCE = Https(in.domainName, "/actions")
      /\ s.UPSTREAM_OIDC_REDIRECT_URI = Https(in.domainName, "/oauth/callback")
  BY <1>1, <1>3, <1>4, <1>5
<1> QED BY <1>6 DEF s

(* What is no URL is passed on as it is. *)
LEMMA DeployedOthers ==
    ASSUME NEW in, NEW list, NEW name \in ConfigNames \ (UrlNames \cup {"UPSTREAM_OIDC_CLIENT_SECRET"})
    PROVE  DeployedSettings(in, list)[name] = EnvironmentParameters(in)[name]
BY StackSetting DEF DeployedSettings

LEMMA DeployedNumbers ==
    ASSUME NEW in, NEW list
    PROVE  LET s == DeployedSettings(in, list)
           IN  /\ \A name \in NumberNames \ {"MCP_LIST_PAGE_SIZE"} : PositiveNumber(s[name], MaxNumber)
               /\ PositiveNumber(s.MCP_LIST_PAGE_SIZE, 256)
<1> DEFINE s == DeployedSettings(in, list)
           p == EnvironmentParameters(in)
<1>1. /\ p.ACCESS_TOKEN_TTL_SECONDS = 900 /\ p.ID_TOKEN_TTL_SECONDS = 300
      /\ p.AUTHORIZATION_CODE_TTL_SECONDS = 300 /\ p.REFRESH_TOKEN_TTL_SECONDS = 2592000
      /\ p.RATE_LIMIT_WINDOW_SECONDS = 60 /\ p.RATE_LIMIT_MAX_REQUESTS = 120
      /\ p.MCP_LIST_PAGE_SIZE = 128 /\ p.MCP_SSE_MAX_CONNECTIONS = 1024
  BY SMT DEF EnvironmentParameters
<1>3. NumberNames \subseteq ConfigNames \ (UrlNames \cup {"UPSTREAM_OIDC_CLIENT_SECRET"})
  BY DEF ConfigNames, NumberNames, UrlNames
<1> HIDE DEF s, p
<1>4. \A name \in NumberNames : s[name] = p[name]
  BY <1>3, DeployedOthers DEF s, p
<1>5. "MCP_LIST_PAGE_SIZE" \in NumberNames
  BY DEF NumberNames
<1>6. \A name \in NumberNames : p[name] \in Nat /\ p[name] >= 1 /\ p[name] <= MaxNumber
  BY <1>1, ConfigurationAssumption, SMT DEF NumberNames
<1>7. \A name \in NumberNames : PositiveNumber(s[name], MaxNumber)
  BY <1>4, <1>6, ConfigurationAssumption, MissingAssumption, SMT DEF PositiveNumber
<1>8. PositiveNumber(s.MCP_LIST_PAGE_SIZE, 256)
  BY <1>1, <1>4, <1>5, MissingAssumption, SMT DEF PositiveNumber
<1> QED BY <1>7, <1>8 DEF s

LEMMA DeployedOrigins ==
    ASSUME NEW in \in AnyInputs, RightInputs(in), PublicOrigins(in)
    PROVE  LET origins == EnvironmentParameters(in).ALLOWED_ORIGINS
           IN  /\ origins \notin {Missing, {}}
               /\ \A origin \in origins : NormalizeOrigin(origin, TRUE)
<1> DEFINE origins == EnvironmentParameters(in).ALLOWED_ORIGINS
<1>1. origins = IF in.allowedOrigins = Missing THEN ChatGptOrigins ELSE in.allowedOrigins
  BY DEF EnvironmentParameters
<1> HIDE DEF origins
<1>2. CASE in.allowedOrigins = Missing
  <2> DEFINE url == Https("other", "/")
  <2>1. url \in AnyUrl /\ Public(url) /\ url.path = "/"
    <3>1. "/" \in UrlPaths /\ "https" \in Texts /\ "other" \in Texts
      BY PathsOfUrls, TextsAssumption
    <3>2. url.path = "/"
      BY <3>1, UrlFields DEF Https
    <3> QED BY <3>1, <3>2, PublicHttps
  <2>2. url.host # "*" /\ HttpUrl(url, TRUE)
    BY <2>1, PublicUrl DEF Public
  <2>3. NormalizeOrigin(url, TRUE)
    BY <2>1, <2>2 DEF NormalizeOrigin
  <2>4. origins = {url} /\ origins # Missing
    BY <1>1, <1>2, MissingAssumption DEF ChatGptOrigins
  <2> QED BY <2>3, <2>4 DEF origins
<1>3. CASE in.allowedOrigins # Missing
  <2>1. origins \notin {Missing, {}}
    BY <1>1, <1>3 DEF RightInputs
  <2>2. ASSUME NEW url \in origins PROVE NormalizeOrigin(url, TRUE)
    <3>1. url \in AnyUrl /\ url.path = "/" /\ url.host # "*" /\ url.parts = "none"
      BY <1>1, <1>3, TypedUrls DEF RightInputs, AnyInputs
    <3>2. url.scheme = "https" /\ ~ IsNonPublicHostname(url.host)
      BY <1>1, <1>3 DEF PublicOrigins
    <3>3. HttpUrl(url, TRUE)
      BY <3>1, <3>2, MissingAssumption DEF HttpUrl
    <3> QED BY <3>1, <3>3 DEF NormalizeOrigin
  <2> QED BY <2>1, <2>2 DEF origins
<1> QED BY <1>2, <1>3

LEMMA DeployedReadConfig ==
    ASSUME NEW in \in AnyInputs, DeploymentConfig(in), RightInputs(in), PublicOrigins(in), NEW list
    PROVE  ReadConfig(DeployedSettings(in, list), TRUE)
<1> DEFINE s == DeployedSettings(in, list)
           p == EnvironmentParameters(in)
           texts == {"OAUTH_STORE_BACKEND", "OAUTH_DYNAMODB_TABLE_NAME", "OAUTH_DYNAMODB_REGION",
                     "ALLOWED_ORIGINS", "RATE_LIMIT_POLICIES_JSON", "UPSTREAM_OIDC_CLIENT_ID",
                     "UPSTREAM_OIDC_SCOPES", "UPSTREAM_OIDC_TOKEN_AUTH_METHOD"}
<1>1. \A name \in UrlNames : HttpUrl(s[name], TRUE)
  BY DeployedUrls
<1>2. s.PUBLIC_ISSUER_URL.path = "/" /\ s.MCP_RESOURCE_URL.path = "/mcp"
  <2>1. {"/", "/mcp"} \subseteq UrlPaths /\ in.domainName \in Texts /\ "https" \in Texts
    BY PathsOfUrls, TextsAssumption DEF RightInputs
  <2>2. s.PUBLIC_ISSUER_URL = Https(in.domainName, "/") /\ s.MCP_RESOURCE_URL = Https(in.domainName, "/mcp")
    BY DeployedDomain
  <2>3. Https(in.domainName, "/").path = "/" /\ Https(in.domainName, "/mcp").path = "/mcp"
    BY <2>1, UrlFields DEF Https
  <2> QED BY <2>2, <2>3
<1>3. s.WIDGET_DOMAIN.path = "/"
  <2>1. p.WIDGET_DOMAIN = Normal(WidgetDomain(in)) /\ "WIDGET_DOMAIN" \in UrlNames
    BY DEF EnvironmentParameters, UrlNames
  <2>2. WidgetDomain(in) \in AnyUrl
    BY PublicHttps, PathsOfUrls, TextsAssumption, TypedUrls DEF WidgetDomain, RightInputs, AnyInputs
  <2>3. WidgetDomain(in).path = "/"
    BY DEF DeploymentConfig
  <2>4. s.WIDGET_DOMAIN = Normal(p.WIDGET_DOMAIN)
    BY <2>1, DeployedUrls
  <2>5. Normal(WidgetDomain(in)) \in AnyUrl /\ Normal(WidgetDomain(in)).path = "/"
    BY <2>2, <2>3, NormalUrl
  <2>6. Normal(Normal(WidgetDomain(in))).path = "/"
    BY <2>5, NormalUrl
  <2> QED BY <2>1, <2>4, <2>6
<1>4. \A name \in texts : s[name] = p[name]
  <2>1. texts \subseteq ConfigNames \ (UrlNames \cup {"UPSTREAM_OIDC_CLIENT_SECRET"})
    BY DEF ConfigNames, UrlNames, TextNames, Defaulted
  <2> QED BY <2>1, DeployedOthers
<1>5. /\ p.OAUTH_STORE_BACKEND = "dynamodb" /\ p.OAUTH_DYNAMODB_TABLE_NAME = "ok" /\ p.OAUTH_DYNAMODB_REGION = "ok"
      /\ p.RATE_LIMIT_POLICIES_JSON = <<>> /\ p.UPSTREAM_OIDC_CLIENT_ID = "ok"
      /\ p.UPSTREAM_OIDC_SCOPES = IdentityProvider(in).scopes
      /\ p.UPSTREAM_OIDC_TOKEN_AUTH_METHOD = IdentityProvider(in).tokenAuthMethod
  BY DEF EnvironmentParameters
<1>6. s.UPSTREAM_OIDC_CLIENT_SECRET = "ok"
  BY SecretSetting DEF DeployedSettings
<1>7. /\ "openid" \in IdentityProvider(in).scopes
      /\ IdentityProvider(in).tokenAuthMethod \in {"client_secret_post", "client_secret_basic"}
  BY DEF IdentityProvider, DeploymentConfig, UpstreamInputs
<1>8. /\ s.ALLOWED_ORIGINS \notin {Missing, {}}
      /\ \A origin \in s.ALLOWED_ORIGINS : NormalizeOrigin(origin, TRUE)
  <2>1. s.ALLOWED_ORIGINS = p.ALLOWED_ORIGINS
    BY <1>4
  <2> QED BY <2>1, DeployedOrigins
<1>9. /\ \A name \in NumberNames \ {"MCP_LIST_PAGE_SIZE"} : PositiveNumber(s[name], MaxNumber)
      /\ PositiveNumber(s.MCP_LIST_PAGE_SIZE, 256)
  BY DeployedNumbers
<1> HIDE DEF s, p
<1>10. StoreConfig(s, TRUE)
  BY <1>4, <1>5 DEF StoreConfig
<1>11. PoliciesValid(s.RATE_LIMIT_POLICIES_JSON)
  <2>1. s.RATE_LIMIT_POLICIES_JSON = <<>>
    BY <1>4, <1>5
  <2> QED BY <2>1 DEF PoliciesValid
<1>12. \A name \in TextNames : s[name] = "ok"
  BY <1>4, <1>5, <1>6 DEF TextNames
<1>13. /\ "openid" \in s.UPSTREAM_OIDC_SCOPES
       /\ s.UPSTREAM_OIDC_TOKEN_AUTH_METHOD \in {"client_secret_post", "client_secret_basic"}
  BY <1>4, <1>5, <1>7
<1>14. ReadConfig(s, TRUE)
  BY <1>1, <1>2, <1>3, <1>8, <1>9, <1>10, <1>11, <1>12, <1>13 DEF ReadConfig
<1> QED BY <1>14 DEF s

(* An origin that is not public is refused. *)
LEMMA RefusedOrigins ==
    ASSUME NEW in \in AnyInputs, ~ PublicOrigins(in), NEW list
    PROVE  ~ ReadConfig(DeployedSettings(in, list), TRUE)
<1> DEFINE s == DeployedSettings(in, list)
<1>1. in.allowedOrigins # Missing
  BY DEF PublicOrigins
<1>2. PICK url \in in.allowedOrigins : ~ (url.scheme = "https" /\ ~ IsNonPublicHostname(url.host))
  BY <1>1 DEF PublicOrigins
<1>3. s.ALLOWED_ORIGINS = in.allowedOrigins
  <2>1. EnvironmentParameters(in).ALLOWED_ORIGINS = in.allowedOrigins
    BY <1>1 DEF EnvironmentParameters
  <2>2. "ALLOWED_ORIGINS" \in ConfigNames \ (UrlNames \cup {"UPSTREAM_OIDC_CLIENT_SECRET"})
    BY DEF ConfigNames, UrlNames
  <2> QED BY <2>1, <2>2, DeployedOthers
<1> HIDE DEF s
<1>4. ~ NormalizeOrigin(url, TRUE)
  BY <1>2 DEF NormalizeOrigin, HttpUrl
<1>5. ~ ReadConfig(s, TRUE)
  BY <1>2, <1>3, <1>4 DEF ReadConfig
<1> QED BY <1>5 DEF s

(* The provider's document is the one that the service expects, unless an   *)
(* endpoint was typed with a final slash.                                   *)
LEMMA DeployedMetadata ==
    ASSUME NEW in \in AnyInputs, DeploymentConfig(in), RightInputs(in), NEW list
    PROVE  FetchUpstreamProviderMetadata(DeployedSettings(in, list), Publishes(in)) <=> NoFinalSlash(in)
<1> DEFINE s == DeployedSettings(in, list)
           i == IdentityProvider(in)
           d == Publishes(in)
<1>1. /\ s.UPSTREAM_OIDC_ISSUER_URL = Normal(i.issuerUrl)
      /\ s.UPSTREAM_OIDC_AUTHORIZATION_URL = Normal(i.authorizationUrl)
      /\ s.UPSTREAM_OIDC_TOKEN_URL = Normal(i.tokenUrl)
      /\ s.UPSTREAM_OIDC_USERINFO_URL = Normal(i.userinfoUrl)
  <2>1. {"UPSTREAM_OIDC_ISSUER_URL", "UPSTREAM_OIDC_AUTHORIZATION_URL",
         "UPSTREAM_OIDC_TOKEN_URL", "UPSTREAM_OIDC_USERINFO_URL"} \subseteq UrlNames
    BY DEF UrlNames
  <2>2. /\ EnvironmentParameters(in).UPSTREAM_OIDC_ISSUER_URL = i.issuerUrl
        /\ EnvironmentParameters(in).UPSTREAM_OIDC_AUTHORIZATION_URL = i.authorizationUrl
        /\ EnvironmentParameters(in).UPSTREAM_OIDC_TOKEN_URL = i.tokenUrl
        /\ EnvironmentParameters(in).UPSTREAM_OIDC_USERINFO_URL = i.userinfoUrl
    BY DEF EnvironmentParameters
  <2> HIDE DEF s, i
  <2>3. \A name \in UrlNames : s[name] = Normal(EnvironmentParameters(in)[name])
    BY DeployedUrls DEF s
  <2> QED BY <2>1, <2>2, <2>3
<1>2. NoFinalSlash(in) <=> \A name \in Endpoints : Normal(i[name]) = d[name]
  <2>1. CASE in.mode = "external"
    <3>1. \A name \in Endpoints : in[name] \in AnyUrl
      BY TypedUrls DEF AnyInputs, Endpoints
    <3>2. \A name \in Endpoints : i[name] = Normal(in[name])
      BY <2>1 DEF IdentityProvider, Endpoints
    <3>3. \A name \in Endpoints : d[name] = in[name]
      BY <2>1 DEF Publishes
    <3> HIDE DEF i, d
    <3>4. \A name \in Endpoints : Normal(Normal(in[name])) = in[name] <=> ~ in[name].slash
      <4> SUFFICES ASSUME NEW name \in Endpoints
                   PROVE  Normal(Normal(in[name])) = in[name] <=> ~ in[name].slash
        OBVIOUS
      <4> DEFINE u == in[name]
                 n == Normal(u)
      <4>1. u \in AnyUrl
        BY <3>1
      <4> HIDE DEF u
      <4>2. n \in AnyUrl /\ (~ u.slash => n = u)
        BY <4>1, NormalUrl
      <4> HIDE DEF n
      <4>3. ~ Normal(n).slash /\ (~ n.slash => Normal(n) = n)
        BY <4>2, NormalUrl
      <4>4. ~ u.slash => Normal(n) = u
        BY <4>2, <4>3
      <4>5. Normal(n) = u <=> ~ u.slash
        BY <4>3, <4>4
      <4> QED BY <4>5 DEF n, u
    <3> QED BY <2>1, <3>2, <3>3, <3>4 DEF NoFinalSlash
  <2>2. CASE in.mode # "external"
    <3>1. d = i
      BY <2>2 DEF Publishes
    <3>2. {"other", "idp", "https", "/pool", "/oauth2/authorize", "/oauth2/token", "/oauth2/userInfo"} \subseteq Texts
      BY TextsAssumption
    <3>3. \A name \in Endpoints : \E hostname \in Texts, path \in Texts : i[name] = Https(hostname, path)
      BY <2>2, <3>2 DEF IdentityProvider, Endpoints
    <3>4. \A hostname \in Texts, path \in Texts : Normal(Https(hostname, path)) = Https(hostname, path)
      BY <3>2, UrlFields, PathsOfUrls DEF Https
    <3>5. \A name \in Endpoints : Normal(i[name]) = d[name]
      BY <3>1, <3>3, <3>4
    <3>6. NoFinalSlash(in)
      BY <2>2 DEF NoFinalSlash
    <3> QED BY <3>5, <3>6
  <2> QED BY <2>1, <2>2
<1>3. Endpoints = {"issuerUrl", "authorizationUrl", "tokenUrl", "userinfoUrl"}
  BY DEF Endpoints
<1> HIDE DEF s, i, d
<1>4. FetchUpstreamProviderMetadata(s, d) <=> \A name \in Endpoints : Normal(i[name]) = d[name]
  BY <1>1, <1>3 DEF FetchUpstreamProviderMetadata
<1>5. FetchUpstreamProviderMetadata(s, d) <=> NoFinalSlash(in)
  BY <1>2, <1>4
<1> QED BY <1>5 DEF s, d

(* The registry that the seed command writes is one that the service takes. *)
LEMMA RightRedirects ==
    ASSUME NEW o \in AnyOptions, RuntimeParameterOptions(o), RightOptions(o), NEW client \in {o.actions, o.mcp}
    PROVE  /\ client.id # "bad" /\ client.name # "bad"
           /\ client.redirectUris # <<>> /\ Distinct(client.redirectUris)
           /\ \A i \in DOMAIN client.redirectUris : RedirectUrl(client.redirectUris[i], TRUE)
<1>1. client.id # "bad" /\ client.name # "bad" /\ client.redirectUris # <<>>
  BY DEF RuntimeParameterOptions
<1>2. Distinct(client.redirectUris)
  BY DEF RightOptions
<1>3. ASSUME NEW i \in DOMAIN client.redirectUris
      PROVE  RedirectUrl(client.redirectUris[i], TRUE)
  <2> DEFINE url == client.redirectUris[i]
  <2>1. client.redirectUris \in Seq(TypedUrl)
    BY DEF AnyOptions, ClientOption
  <2> HIDE DEF url
  <2>2. url \in TypedUrl
    BY <2>1 DEF url
  <2>3. \/ url \in {Url("http", "localhost", "/a"), Url("http", "loopback", "/a")}
        \/ Public([url EXCEPT !.parts = IF @ = "query" THEN "none" ELSE @])
    BY DEF RightOptions, url
  <2>4. CASE url \in {Url("http", "localhost", "/a"), Url("http", "loopback", "/a")}
    <3>1. url.scheme = "http" /\ url.host \in {"localhost", "loopback"} /\ url.parts = "none"
      BY <2>4 DEF Url
    <3> QED BY <3>1 DEF RedirectUrl, url
  <2>5. CASE Public([url EXCEPT !.parts = IF @ = "query" THEN "none" ELSE @])
    <3> DEFINE u == [url EXCEPT !.parts = IF @ = "query" THEN "none" ELSE @]
    <3>1. /\ u.scheme = url.scheme /\ u.host = url.host
          /\ u.parts = IF url.parts = "query" THEN "none" ELSE url.parts
      BY <2>2 DEF TypedUrl
    <3>2. u.scheme = "https" /\ u.host \in {"public", "other", "idp"} /\ u.parts = "none"
      BY <2>5 DEF Public
    <3> HIDE DEF u
    <3>3. url.scheme = "https" /\ url.host # "*" /\ url.parts # "other"
      BY <3>1, <3>2
    <3> QED BY <3>3 DEF RedirectUrl, url
  <2> QED BY <2>3, <2>4, <2>5
<1> QED BY <1>1, <1>2, <1>3

LEMMA OneResource ==
    ASSUME NEW url
    PROVE  /\ <<url>> # <<>> /\ Distinct(<<url>>) /\ DOMAIN <<url>> = {1} /\ <<url>>[1] = url
BY DEF Distinct

LEMMA ClientFields ==
    ASSUME NEW option, NEW urls, NEW policy, NEW class
    PROVE  LET c == Client(option, urls, policy, class)
           IN  /\ c.clientId = option.id /\ c.displayName = option.name
               /\ c.redirectUris = option.redirectUris /\ c.allowedResources = urls
               /\ c.pkcePolicy = policy /\ c.clientClass = class
BY DEF Client

LEMMA SeededParse ==
    ASSUME NEW in \in AnyInputs, RightInputs(in),
           NEW o \in AnyOptions, RuntimeParameterOptions(o), RightOptions(o)
    PROVE  LET list == SeededClients(o, EnvironmentParameters(in))
           IN  /\ list \in Registries
               /\ ParseClientJson(list, TRUE)
               /\ (\E i \in DOMAIN list : list[i].displayName = "quoted") <=> ~ PlainNames(o)
<1> DEFINE a == Https(in.domainName, "/actions")
           m == Https(in.domainName, "/mcp")
           first == Client(o.actions, <<a>>, "optional", "gpt-actions")
           second == Client(o.mcp, <<m>>, "required", "gpt-apps-mcp")
           list == SeededClients(o, EnvironmentParameters(in))
<1>1. list = <<first, second>>
  <2>1. EnvironmentParameters(in).ACTIONS_AUDIENCE = a /\ EnvironmentParameters(in).MCP_RESOURCE_URL = m
    BY DEF EnvironmentParameters
  <2> HIDE DEF a, m
  <2> QED BY <2>1 DEF SeededClients
<1>2. a \in TypedUrl /\ m \in TypedUrl /\ ResourceUrl(a, TRUE) /\ ResourceUrl(m, TRUE)
  <2>1. in.domainName \in Texts /\ in.domainName \in {"public", "other"}
        /\ {"https", "none", "/actions", "/mcp"} \subseteq Texts
    BY TextsAssumption DEF RightInputs
  <2>2. a \in TypedUrl /\ m \in TypedUrl
    BY <2>1 DEF Https, Url, TypedUrl
  <2>3. ResourceUrl(a, TRUE) /\ ResourceUrl(m, TRUE)
    BY <2>1 DEF Https, Url, ResourceUrl
  <2> QED BY <2>2, <2>3
<1> HIDE DEF a, m
<1>3. first \in [clientId : Texts, displayName : Texts, redirectUris : Seq(TypedUrl),
                 allowedScopes : SUBSET Texts, allowedResources : Seq(TypedUrl),
                 tokenEndpointAuthMethod : Texts, pkcePolicy : Texts, clientClass : Texts]
  <2>1. <<a>> \in Seq(TypedUrl)
    BY <1>2
  <2>2. {"openid", "profile", "email", "client_secret_post", "optional", "gpt-actions"} \subseteq Texts
    BY TextsAssumption
  <2>3. o.actions.id \in Texts /\ o.actions.name \in Texts /\ o.actions.redirectUris \in Seq(TypedUrl)
    BY DEF AnyOptions, ClientOption
  <2> QED BY <2>1, <2>2, <2>3 DEF Client
<1>4. second \in [clientId : Texts, displayName : Texts, redirectUris : Seq(TypedUrl),
                  allowedScopes : SUBSET Texts, allowedResources : Seq(TypedUrl),
                  tokenEndpointAuthMethod : Texts, pkcePolicy : Texts, clientClass : Texts]
  <2>1. <<m>> \in Seq(TypedUrl)
    BY <1>2
  <2>2. {"openid", "profile", "email", "client_secret_post", "required", "gpt-apps-mcp"} \subseteq Texts
    BY TextsAssumption
  <2>3. o.mcp.id \in Texts /\ o.mcp.name \in Texts /\ o.mcp.redirectUris \in Seq(TypedUrl)
    BY DEF AnyOptions, ClientOption
  <2> QED BY <2>1, <2>2, <2>3 DEF Client
<1>5. ParseClient(first, TRUE) /\ first.clientId = o.actions.id /\ first.displayName = o.actions.name
  <2>1. /\ first.clientId = o.actions.id /\ first.displayName = o.actions.name
        /\ first.redirectUris = o.actions.redirectUris /\ first.allowedResources = <<a>>
        /\ first.clientClass = "gpt-actions"
    BY ClientFields
  <2>2. /\ o.actions.id # "bad" /\ o.actions.name # "bad"
        /\ o.actions.redirectUris # <<>> /\ Distinct(o.actions.redirectUris)
        /\ \A i \in DOMAIN o.actions.redirectUris : RedirectUrl(o.actions.redirectUris[i], TRUE)
    BY RightRedirects
  <2>3. /\ <<a>> # <<>> /\ Distinct(<<a>>)
        /\ \A i \in DOMAIN <<a>> : ResourceUrl(<<a>>[i], TRUE)
    BY <1>2, OneResource
  <2> HIDE DEF first
  <2> QED BY <2>1, <2>2, <2>3 DEF ParseClient, ValidateProductionPkce
<1>6. ParseClient(second, TRUE) /\ second.clientId = o.mcp.id /\ second.displayName = o.mcp.name
  <2>1. /\ second.clientId = o.mcp.id /\ second.displayName = o.mcp.name
        /\ second.redirectUris = o.mcp.redirectUris /\ second.allowedResources = <<m>>
        /\ second.pkcePolicy = "required"
    BY ClientFields
  <2>2. /\ o.mcp.id # "bad" /\ o.mcp.name # "bad"
        /\ o.mcp.redirectUris # <<>> /\ Distinct(o.mcp.redirectUris)
        /\ \A i \in DOMAIN o.mcp.redirectUris : RedirectUrl(o.mcp.redirectUris[i], TRUE)
    BY RightRedirects
  <2>3. /\ <<m>> # <<>> /\ Distinct(<<m>>)
        /\ \A i \in DOMAIN <<m>> : ResourceUrl(<<m>>[i], TRUE)
    BY <1>2, OneResource
  <2> HIDE DEF second
  <2> QED BY <2>1, <2>2, <2>3 DEF ParseClient, ValidateProductionPkce
<1> HIDE DEF first, second, list
<1>7. list \in Registries
  BY <1>1, <1>3, <1>4 DEF Registries
<1>8. DOMAIN list = {1, 2} /\ list[1] = first /\ list[2] = second
  BY <1>1
<1>9. Distinct([i \in DOMAIN list |-> list[i].clientId])
  BY <1>5, <1>6, <1>8 DEF Distinct, RightOptions
<1>10. list # <<>> /\ list # NotJson
  BY <1>1, <1>7, MissingAssumption
<1>11. ParseClientJson(list, TRUE)
  BY <1>5, <1>6, <1>8, <1>9, <1>10 DEF ParseClientJson
<1>12. (\E i \in DOMAIN list : list[i].displayName = "quoted") <=> ~ PlainNames(o)
  BY <1>5, <1>6, <1>8 DEF PlainNames
<1> QED BY <1>7, <1>11, <1>12 DEF list

LEMMA TwoElements ==
    ASSUME NEW a, NEW m, a # m
    PROVE  Cardinality({a, m}) = 2
<1>1. IsFiniteSet({a}) /\ Cardinality({a}) = 1
  BY FS_Singleton
<1>2. m \notin {a} /\ {a} \cup {m} = {a, m}
  OBVIOUS
<1>3. Cardinality({a} \cup {m}) = Cardinality({a}) + 1
  BY <1>1, <1>2, FS_AddElement
<1> QED BY <1>1, <1>2, <1>3

(* Two audiences that the clients share make a service usable. *)
LEMMA UsableService ==
    ASSUME NEW s, NEW a, NEW m, a # m,
           s.config.ACTIONS_AUDIENCE = a, s.config.MCP_RESOURCE_URL = m,
           UNION {{c.allowedResources[i] : i \in DOMAIN c.allowedResources} :
                  c \in {s.clients[i] : i \in DOMAIN s.clients}} = {a, m},
           s.config.UPSTREAM_OIDC_REDIRECT_URI = [s.config.PUBLIC_ISSUER_URL EXCEPT !.path = "/oauth/callback"]
    PROVE  Usable(s)
BY TwoElements DEF Usable

(* A URL with another path. *)
LEMMA OtherPath ==
    ASSUME NEW scheme \in Texts, NEW hostname \in Texts, NEW path \in UrlPaths, NEW other \in UrlPaths
    PROVE  [Url(scheme, hostname, path) EXCEPT !.path = other] = Url(scheme, hostname, other)
<1> DEFINE u == Url(scheme, hostname, path)
           v == Url(scheme, hostname, other)
           w == [u EXCEPT !.path = other]
<1>1. u \in AnyUrl /\ v \in AnyUrl
  BY UrlFields
<1>2. u.scheme = v.scheme /\ u.host = v.host /\ u.parts = v.parts /\ u.slash = v.slash /\ v.path = other
  BY DEF Url
<1> HIDE DEF u, v
<1>3. w = v
  BY <1>1, <1>2 DEF AnyUrl
<1> QED BY <1>3 DEF u, v

LEMMA OneEntry ==
    ASSUME NEW url, NEW t, t = <<url>>
    PROVE  {t[i] : i \in DOMAIN t} = {url}
OBVIOUS

LEMMA StartedFields ==
    ASSUME NEW env, NEW production, NEW s, s = Settings(env, production),
           NEW list, list = Given(env, "OAUTH_CLIENTS_JSON", Missing),
           ReadConfig(s, production),
           IF list = Missing THEN ~ production ELSE ParseClientJson(list, production)
    PROVE  LET v == ValidateStartup(env, production)
           IN  /\ v.started = TRUE
               /\ v.config = s
               /\ v.clients = IF list = Missing THEN LocalClients(s) ELSE list
BY DEF ValidateStartup

LEMMA NotStarted ==
    ASSUME NEW env, NEW production,
           \/ ~ ReadConfig(Settings(env, production), production)
           \/ Given(env, "OAUTH_CLIENTS_JSON", Missing) = NotJson
    PROVE  ~ ValidateStartup(env, production).started
<1> DEFINE list == Given(env, "OAUTH_CLIENTS_JSON", Missing)
<1>1. ~ /\ ReadConfig(Settings(env, production), production)
        /\ IF list = Missing THEN ~ production ELSE ParseClientJson(list, production)
  BY MissingAssumption DEF ParseClientJson
<1>2. ValidateStartup(env, production) = [started |-> FALSE]
  BY <1>1 DEF ValidateStartup
<1> QED BY <1>2

LEMMA DeployedStart ==
    ASSUME NEW in \in AnyInputs, DeploymentConfig(in), RightInputs(in), PublicOrigins(in),
           NEW o \in AnyOptions, RuntimeParameterOptions(o), RightOptions(o), PlainNames(o)
    PROVE  LET p == EnvironmentParameters(in)
               v == ValidateStartup(EnvironmentFile(p, SeededClients(o, p)), TRUE)
           IN  /\ v.started /\ Usable(v)
               /\ FetchUpstreamProviderMetadata(v.config, Publishes(in)) <=> NoFinalSlash(in)
<1> DEFINE p == EnvironmentParameters(in)
           list == SeededClients(o, p)
           env == EnvironmentFile(p, list)
           v == ValidateStartup(env, TRUE)
           s == DeployedSettings(in, list)
           a == Https(in.domainName, "/actions")
           m == Https(in.domainName, "/mcp")
<1>1. ReadConfig(s, TRUE) /\ (FetchUpstreamProviderMetadata(s, Publishes(in)) <=> NoFinalSlash(in))
  BY DeployedReadConfig, DeployedMetadata
<1>2. list \in Registries /\ ParseClientJson(list, TRUE) /\ ~ (\E i \in DOMAIN list : list[i].displayName = "quoted")
  BY SeededParse
<1>3. Given(env, "OAUTH_CLIENTS_JSON", Missing) = list /\ list # Missing
  BY <1>2, RegistrySetting, MissingAssumption
<1>4. s = Settings(env, TRUE)
  BY DEF DeployedSettings
<1>5. /\ s.PUBLIC_ISSUER_URL = Https(in.domainName, "/") /\ s.MCP_RESOURCE_URL = m
      /\ s.ACTIONS_AUDIENCE = a /\ s.UPSTREAM_OIDC_REDIRECT_URI = Https(in.domainName, "/oauth/callback")
  BY DeployedDomain
<1>6. UNION {{c.allowedResources[i] : i \in DOMAIN c.allowedResources} :
             c \in {list[i] : i \in DOMAIN list}} = {a, m}
  <2> DEFINE first == Client(o.actions, <<a>>, "optional", "gpt-actions")
             second == Client(o.mcp, <<m>>, "required", "gpt-apps-mcp")
  <2>1. p.ACTIONS_AUDIENCE = a /\ p.MCP_RESOURCE_URL = m
    BY DEF EnvironmentParameters
  <2> HIDE DEF a, m, p
  <2>2. list = <<first, second>>
    BY <2>1 DEF SeededClients
  <2>3. first.allowedResources = <<a>> /\ second.allowedResources = <<m>>
    BY DEF Client
  <2> HIDE DEF first, second, list
  <2>4. {list[i] : i \in DOMAIN list} = {first, second}
    BY <2>2
  <2>5. /\ {first.allowedResources[i] : i \in DOMAIN first.allowedResources} = {a}
        /\ {second.allowedResources[i] : i \in DOMAIN second.allowedResources} = {m}
    <3>1. \A c : c.allowedResources = <<a>> => {c.allowedResources[i] : i \in DOMAIN c.allowedResources} = {a}
      BY OneEntry
    <3>2. \A c : c.allowedResources = <<m>> => {c.allowedResources[i] : i \in DOMAIN c.allowedResources} = {m}
      BY OneEntry
    <3> QED BY <2>3, <3>1, <3>2
  <2> QED BY <2>4, <2>5
<1>7. a # m
  BY DEF Https, Url
<1>8. [Https(in.domainName, "/") EXCEPT !.path = "/oauth/callback"] = Https(in.domainName, "/oauth/callback")
  <2>1. /\ "https" \in Texts /\ in.domainName \in Texts
        /\ "/" \in UrlPaths /\ "/oauth/callback" \in UrlPaths
    BY PathsOfUrls, TextsAssumption DEF RightInputs
  <2> QED BY <2>1, OtherPath DEF Https
<1> HIDE DEF a, m, s, list, env, p
<1>9. v.started = TRUE /\ v.config = s /\ v.clients = list
  BY <1>1, <1>2, <1>3, <1>4, StartedFields
<1> HIDE DEF v
<1>10. Usable(v)
  <2>1. v.config.ACTIONS_AUDIENCE = a /\ v.config.MCP_RESOURCE_URL = m
    BY <1>5, <1>9
  <2>2. v.config.UPSTREAM_OIDC_REDIRECT_URI = [v.config.PUBLIC_ISSUER_URL EXCEPT !.path = "/oauth/callback"]
    BY <1>5, <1>8, <1>9
  <2>3. UNION {{c.allowedResources[i] : i \in DOMAIN c.allowedResources} :
               c \in {v.clients[i] : i \in DOMAIN v.clients}} = {a, m}
    BY <1>6, <1>9
  <2> QED BY <1>7, <2>1, <2>2, <2>3, UsableService
<1>11. /\ v.started /\ Usable(v)
       /\ FetchUpstreamProviderMetadata(v.config, Publishes(in)) <=> NoFinalSlash(in)
  BY <1>1, <1>9, <1>10
<1> QED BY <1>11 DEF v, env, list, p

LEMMA DeployedRefused ==
    ASSUME NEW in \in AnyInputs, RightInputs(in),
           NEW o \in AnyOptions, RuntimeParameterOptions(o), RightOptions(o),
           ~ (PlainNames(o) /\ PublicOrigins(in))
    PROVE  LET p == EnvironmentParameters(in)
           IN  ~ ValidateStartup(EnvironmentFile(p, SeededClients(o, p)), TRUE).started
<1> DEFINE p == EnvironmentParameters(in)
           list == SeededClients(o, p)
           env == EnvironmentFile(p, list)
<1>1. ~ PublicOrigins(in) => ~ ReadConfig(Settings(env, TRUE), TRUE)
  BY RefusedOrigins DEF DeployedSettings
<1>2. ~ PlainNames(o) => Given(env, "OAUTH_CLIENTS_JSON", Missing) = NotJson
  <2>1. ~ PlainNames(o) => \E i \in DOMAIN list : list[i].displayName = "quoted"
    BY SeededParse
  <2>2. Given(env, "OAUTH_CLIENTS_JSON", Missing) =
          IF \E i \in DOMAIN list : list[i].displayName = "quoted" THEN NotJson ELSE list
    BY RegistrySetting
  <2> HIDE DEF env, list
  <2> QED BY <2>1, <2>2
<1> HIDE DEF env
<1>3. ~ ValidateStartup(env, TRUE).started
  BY <1>1, <1>2, NotStarted
<1> QED BY <1>3 DEF env

-----------------------------------------------------------------------------
(* The start of a developer's service *)

(* The environments that StartLocally is about, alone or together. *)
LocalEnvironment(env) ==
    /\ DOMAIN env \subseteq {"OAUTH_STORE_BACKEND", "PUBLIC_ISSUER_URL", "UPSTREAM_OIDC_ISSUER_URL",
                             "RATE_LIMIT_POLICIES_JSON"}
    /\ "OAUTH_STORE_BACKEND" \in DOMAIN env => env.OAUTH_STORE_BACKEND = "file"
    /\ "PUBLIC_ISSUER_URL" \in DOMAIN env => env.PUBLIC_ISSUER_URL = Url("http", "loopback", "/")
    /\ "UPSTREAM_OIDC_ISSUER_URL" \in DOMAIN env => env.UPSTREAM_OIDC_ISSUER_URL = Url("https", "idp", "/")
    /\ "RATE_LIMIT_POLICIES_JSON" \in DOMAIN env =>
         env.RATE_LIMIT_POLICIES_JSON = [bucket \in {"mcp-tool"} |-> [maxRequests |-> 5]]

LEMMA LocalTexts ==
    /\ {"http", "https", "localhost", "loopback", "idp", "other"} \subseteq Texts
    /\ {"/", "/mcp", "/actions", "/oauth/callback", "/oauth2/authorize", "/oauth2/token",
        "/oauth2/userInfo"} \subseteq UrlPaths
    /\ <<"/", "openid-configuration">> \in UrlPaths
<1>1. {"/", "openid-configuration"} \subseteq Texts
  BY TextsAssumption
<1>2. <<"/", "openid-configuration">> \in UrlPaths
  BY <1>1, PathsOfUrls
<1>3. {"/", "/mcp", "/actions", "/oauth/callback", "/oauth2/authorize", "/oauth2/token",
       "/oauth2/userInfo"} \subseteq UrlPaths
  BY PathsOfUrls, TextsAssumption
<1> QED BY <1>2, <1>3, TextsAssumption

(* The URLs that a developer's service falls back on. *)
LEMMA LocalUrls ==
    ASSUME NEW hostname \in {"localhost", "loopback"},
           NEW upstream \in {Url("http", "loopback", "/"), Url("https", "idp", "/")},
           NEW name \in UrlNames
    PROVE  \E scheme \in {"http", "https"}, h \in Texts, path \in UrlPaths :
             Fallbacks(Url("http", hostname, "/"), upstream)[name] = Url(scheme, h, path)
<1> DEFINE issuer == Url("http", hostname, "/")
           f == Fallbacks(issuer, upstream)
<1>1. hostname \in Texts
  BY TextsAssumption
<1>2. ASSUME NEW path \in UrlPaths
      PROVE  [issuer EXCEPT !.path = path] = Url("http", hostname, path)
  <2>1. "http" \in Texts /\ "/" \in UrlPaths
    BY LocalTexts
  <2> QED BY <1>1, <2>1, OtherPath
<1>3. [upstream EXCEPT !.path = <<@, "openid-configuration">>] \in
        {Url("http", "loopback", <<"/", "openid-configuration">>), Url("https", "idp", <<"/", "openid-configuration">>)}
  <2>1. upstream.path = "/"
    BY LocalTexts, UrlFields
  <2>2. ASSUME NEW path \in UrlPaths
        PROVE  [upstream EXCEPT !.path = path] \in {Url("http", "loopback", path), Url("https", "idp", path)}
    <3>1. "http" \in Texts /\ "https" \in Texts /\ "loopback" \in Texts /\ "idp" \in Texts /\ "/" \in UrlPaths
      BY LocalTexts
    <3>2. /\ [Url("http", "loopback", "/") EXCEPT !.path = path] = Url("http", "loopback", path)
          /\ [Url("https", "idp", "/") EXCEPT !.path = path] = Url("https", "idp", path)
      BY <3>1, OtherPath
    <3> QED BY <3>2
  <2> QED BY <2>1, <2>2, LocalTexts
<1>4. f[name] \in
        {Url("http", "localhost", "/"), issuer, [issuer EXCEPT !.path = "/mcp"], [issuer EXCEPT !.path = "/actions"],
         [issuer EXCEPT !.path = "/oauth/callback"], Url("http", "loopback", "/"),
         [upstream EXCEPT !.path = <<@, "openid-configuration">>],
         Url("http", "loopback", "/oauth2/authorize"), Url("http", "loopback", "/oauth2/token"),
         Url("http", "loopback", "/oauth2/userInfo")}
  <2> HIDE DEF issuer
  <2> QED BY DEF Fallbacks, UrlNames
<1>5. f[name] \in
        {Url("http", "localhost", "/"), Url("http", hostname, "/"), Url("http", hostname, "/mcp"), Url("http", hostname, "/actions"),
         Url("http", hostname, "/oauth/callback"), Url("http", "loopback", "/"),
         Url("http", "loopback", <<"/", "openid-configuration">>), Url("https", "idp", <<"/", "openid-configuration">>),
         Url("http", "loopback", "/oauth2/authorize"), Url("http", "loopback", "/oauth2/token"),
         Url("http", "loopback", "/oauth2/userInfo")}
  BY <1>2, <1>3, <1>4, LocalTexts
<1> HIDE DEF f
<1>6. \E scheme \in {"http", "https"}, h \in Texts, path \in UrlPaths : f[name] = Url(scheme, h, path)
  BY <1>1, <1>5, LocalTexts
<1> QED BY <1>6 DEF f

LEMMA NormalLocal ==
    ASSUME NEW scheme \in {"http", "https"}, NEW hostname \in Texts, NEW path \in UrlPaths
    PROVE  LET url == Url(scheme, hostname, path)
           IN  url \in AnyUrl /\ url # Missing /\ Normal(url) = url /\ HttpUrl(url, FALSE)
<1>1. scheme \in Texts
  BY TextsAssumption
<1> DEFINE url == Url(scheme, hostname, path)
<1>2. url \in AnyUrl /\ Normal(url) = url /\ url.scheme = scheme /\ url.parts = "none"
  BY <1>1, UrlFields
<1>3. url # Missing
  BY <1>2, MissingAssumption
<1> HIDE DEF url
<1>4. HttpUrl(url, FALSE)
  BY <1>2, <1>3 DEF HttpUrl
<1> QED BY <1>2, <1>3, <1>4 DEF url

(* Each setting of a developer's service is the one of the environment or   *)
(* the fallback, which follows the issuer's URL.                            *)
LEMMA LocalSettings ==
    ASSUME NEW env, LocalEnvironment(env)
    PROVE  \E hostname \in {"localhost", "loopback"}, upstream \in {Url("http", "loopback", "/"), Url("https", "idp", "/")} :
             LET s == Settings(env, FALSE)
                 f == Fallbacks(Url("http", hostname, "/"), upstream)
             IN  /\ s.PUBLIC_ISSUER_URL = Url("http", hostname, "/")
                 /\ s.UPSTREAM_OIDC_ISSUER_URL = upstream
                 /\ \A name \in ConfigNames : s[name] = IF name \in DOMAIN env THEN env[name] ELSE f[name]
<1> DEFINE issuer == Normal(Given(env, "PUBLIC_ISSUER_URL", LocalIssuer))
           upstream == Normal(Given(env, "UPSTREAM_OIDC_ISSUER_URL", LocalUpstream))
           f == Fallbacks(issuer, upstream)
           s == Settings(env, FALSE)
<1>1. {"localhost", "loopback", "idp"} \subseteq Texts /\ "/" \in UrlPaths
  BY LocalTexts
<1>2. \E hostname \in {"localhost", "loopback"} :
         issuer = Url("http", hostname, "/") /\ Given(env, "PUBLIC_ISSUER_URL", LocalIssuer) = Url("http", hostname, "/")
  <2>1. \E hostname \in {"localhost", "loopback"} : Given(env, "PUBLIC_ISSUER_URL", LocalIssuer) = Url("http", hostname, "/")
    BY DEF LocalEnvironment, Given, LocalIssuer
  <2> QED BY <1>1, <2>1, NormalLocal
<1>3. PICK hostname \in {"localhost", "loopback"} :
         issuer = Url("http", hostname, "/") /\ Given(env, "PUBLIC_ISSUER_URL", LocalIssuer) = Url("http", hostname, "/")
  BY <1>2
<1>4. /\ upstream \in {Url("http", "loopback", "/"), Url("https", "idp", "/")}
      /\ Given(env, "UPSTREAM_OIDC_ISSUER_URL", LocalUpstream) = upstream
  <2>1. Given(env, "UPSTREAM_OIDC_ISSUER_URL", LocalUpstream) \in {Url("http", "loopback", "/"), Url("https", "idp", "/")}
    BY DEF LocalEnvironment, Given, LocalUpstream
  <2>2. \A url \in {Url("http", "loopback", "/"), Url("https", "idp", "/")} : Normal(url) = url
    BY <1>1, NormalLocal
  <2> QED BY <2>1, <2>2
<1>5. ASSUME NEW name \in ConfigNames
      PROVE  s[name] = IF name \in UrlNames /\ Given(env, name, f[name]) # Missing
                       THEN Normal(Given(env, name, f[name])) ELSE Given(env, name, f[name])
  <2>1. name \in DOMAIN f
    BY FallbackNames
  <2> HIDE DEF issuer, upstream
  <2> QED BY <2>1 DEF Settings, issuer, upstream
<1> HIDE DEF s, issuer, upstream
<1>6. ASSUME NEW name \in ConfigNames
      PROVE  s[name] = IF name \in DOMAIN env THEN env[name] ELSE f[name]
  <2>1. CASE name \notin UrlNames
    BY <1>5, <2>1 DEF Given
  <2>2. CASE name \in UrlNames /\ name \notin DOMAIN env
    <3>1. \E scheme \in {"http", "https"}, h \in Texts, path \in UrlPaths : f[name] = Url(scheme, h, path)
      BY <1>3, <1>4, <2>2, LocalUrls
    <3>2. Normal(f[name]) = f[name]
      BY <3>1, NormalLocal
    <3> QED BY <1>5, <2>2, <3>2 DEF Given
  <2>3. CASE name \in UrlNames /\ name \in DOMAIN env
    <3>1. name \in {"PUBLIC_ISSUER_URL", "UPSTREAM_OIDC_ISSUER_URL"}
      BY <2>3 DEF LocalEnvironment, UrlNames
    <3>2. env[name] \in {Url("http", "loopback", "/"), Url("https", "idp", "/")}
      BY <2>3, <3>1 DEF LocalEnvironment
    <3>3. Normal(env[name]) = env[name]
      BY <1>1, <3>2, NormalLocal
    <3> QED BY <1>5, <2>3, <3>3 DEF Given
  <2> QED BY <2>1, <2>2, <2>3
<1>7. s.PUBLIC_ISSUER_URL = Url("http", hostname, "/") /\ s.UPSTREAM_OIDC_ISSUER_URL = upstream
  <2>1. {"PUBLIC_ISSUER_URL", "UPSTREAM_OIDC_ISSUER_URL"} \subseteq ConfigNames
    BY DEF ConfigNames, UrlNames
  <2>2. f.PUBLIC_ISSUER_URL = LocalIssuer /\ f.UPSTREAM_OIDC_ISSUER_URL = LocalUpstream
    BY DEF Fallbacks, LocalIssuer, LocalUpstream
  <2> HIDE DEF f
  <2> QED BY <1>3, <1>4, <1>6, <2>1, <2>2 DEF Given
<1> QED BY <1>3, <1>4, <1>6, <1>7 DEF s

LEMMA LocalOriginsAllowed ==
    /\ LocalOrigins \notin {Missing, {}}
    /\ \A origin \in LocalOrigins : NormalizeOrigin(origin, FALSE)
<1>1. {"https", "http", "other", "localhost"} \subseteq Texts /\ "/" \in UrlPaths
  BY LocalTexts
<1>2. LocalOrigins = {Url("https", "other", "/"), Url("http", "localhost", "/")}
  BY DEF LocalOrigins, ChatGptOrigins, Https
<1>3. HttpUrl(Url("https", "other", "/"), FALSE) /\ HttpUrl(Url("http", "localhost", "/"), FALSE)
  BY <1>1, NormalLocal
<1>4. /\ Url("https", "other", "/").host # "*" /\ Url("https", "other", "/").path = "/"
      /\ Url("http", "localhost", "/").host # "*" /\ Url("http", "localhost", "/").path = "/"
  BY DEF Url
<1>5. NormalizeOrigin(Url("https", "other", "/"), FALSE) /\ NormalizeOrigin(Url("http", "localhost", "/"), FALSE)
  BY <1>3, <1>4 DEF NormalizeOrigin
<1> QED BY <1>2, <1>5, MissingAssumption

LEMMA LocalReadConfig ==
    ASSUME NEW env, LocalEnvironment(env)
    PROVE  ReadConfig(Settings(env, FALSE), FALSE)
<1> DEFINE s == Settings(env, FALSE)
<1> HIDE DEF s
<1>1. PICK hostname \in {"localhost", "loopback"}, upstream \in {Url("http", "loopback", "/"), Url("https", "idp", "/")} :
         /\ s.PUBLIC_ISSUER_URL = Url("http", hostname, "/")
         /\ s.UPSTREAM_OIDC_ISSUER_URL = upstream
         /\ \A name \in ConfigNames :
              s[name] = IF name \in DOMAIN env THEN env[name] ELSE Fallbacks(Url("http", hostname, "/"), upstream)[name]
  BY LocalSettings DEF s
<1> DEFINE issuer == Url("http", hostname, "/")
           f == Fallbacks(issuer, upstream)
<1>2. hostname \in Texts /\ {"http", "https", "loopback", "idp"} \subseteq Texts
      /\ "/" \in UrlPaths /\ "/mcp" \in UrlPaths
  BY TextsAssumption, PathsOfUrls
<1>3. ASSUME NEW name \in UrlNames PROVE HttpUrl(s[name], FALSE)
  <2>1. \E scheme \in {"http", "https"}, h \in Texts, path \in UrlPaths : s[name] = Url(scheme, h, path)
    <3>1. CASE name \in DOMAIN env
      <4>1. name \in {"PUBLIC_ISSUER_URL", "UPSTREAM_OIDC_ISSUER_URL"}
        BY <3>1 DEF LocalEnvironment, UrlNames
      <4> QED BY <1>1, <1>2, <4>1
    <3>2. CASE name \notin DOMAIN env
      <4>1. s[name] = f[name]
        BY <1>1, <3>2 DEF ConfigNames
      <4> QED BY <4>1, LocalUrls
    <3> QED BY <3>1, <3>2
  <2> QED BY <2>1, NormalLocal
<1>4. issuer.path = "/" /\ [issuer EXCEPT !.path = "/mcp"].path = "/mcp"
  <2>1. issuer.path = "/"
    BY DEF Url
  <2>2. [issuer EXCEPT !.path = "/mcp"] = Url("http", hostname, "/mcp")
    BY <1>2, OtherPath
  <2>3. Url("http", hostname, "/mcp").path = "/mcp"
    BY DEF Url
  <2> QED BY <2>1, <2>2, <2>3
<1> HIDE DEF issuer
<1> DEFINE plain == ConfigNames \ {"OAUTH_STORE_BACKEND", "PUBLIC_ISSUER_URL", "UPSTREAM_OIDC_ISSUER_URL",
                                   "RATE_LIMIT_POLICIES_JSON"}
<1>5. \A name \in plain : s[name] = f[name]
  BY <1>1 DEF LocalEnvironment, issuer
<1>6. /\ f.MCP_RESOURCE_URL = [issuer EXCEPT !.path = "/mcp"] /\ f.WIDGET_DOMAIN = issuer
      /\ f.ALLOWED_ORIGINS = LocalOrigins
      /\ f.UPSTREAM_OIDC_CLIENT_ID = "ok" /\ f.UPSTREAM_OIDC_CLIENT_SECRET = "ok"
      /\ f.UPSTREAM_OIDC_SCOPES = {"openid", "profile", "email"}
      /\ f.UPSTREAM_OIDC_TOKEN_AUTH_METHOD = "client_secret_post"
      /\ f.OAUTH_STORE_BACKEND = "file"
      /\ f.RATE_LIMIT_POLICIES_JSON = <<>>
  BY DEF Fallbacks
<1>7. /\ f.ACCESS_TOKEN_TTL_SECONDS = 900 /\ f.ID_TOKEN_TTL_SECONDS = 300
      /\ f.AUTHORIZATION_CODE_TTL_SECONDS = 300 /\ f.REFRESH_TOKEN_TTL_SECONDS = 2592000
      /\ f.RATE_LIMIT_WINDOW_SECONDS = 60 /\ f.RATE_LIMIT_MAX_REQUESTS = 120
      /\ f.MCP_LIST_PAGE_SIZE = 128 /\ f.MCP_SSE_MAX_CONNECTIONS = 1024
  BY SMT DEF Fallbacks
<1>8. "OAUTH_STORE_BACKEND" \in ConfigNames /\ "RATE_LIMIT_POLICIES_JSON" \in ConfigNames
  BY DEF ConfigNames, Defaulted
<1>9. s.OAUTH_STORE_BACKEND = "file"
  BY <1>1, <1>6, <1>8 DEF LocalEnvironment, issuer
<1>10. s.RATE_LIMIT_POLICIES_JSON \in {<<>>, [bucket \in {"mcp-tool"} |-> [maxRequests |-> 5]]}
  BY <1>1, <1>6, <1>8 DEF LocalEnvironment, issuer
<1> HIDE DEF f
<1>11. PoliciesValid(s.RATE_LIMIT_POLICIES_JSON)
  <2>1. PoliciesValid(<<>>)
    BY DEF PoliciesValid
  <2>2. PoliciesValid([bucket \in {"mcp-tool"} |-> [maxRequests |-> 5]])
    BY ConfigurationAssumption, SMT DEF PoliciesValid, Buckets
  <2> QED BY <1>10, <2>1, <2>2
<1>12. NumberNames \subseteq plain
  BY DEF ConfigNames, NumberNames
<1>13. {"MCP_RESOURCE_URL", "WIDGET_DOMAIN", "ALLOWED_ORIGINS", "UPSTREAM_OIDC_CLIENT_ID",
        "UPSTREAM_OIDC_CLIENT_SECRET", "UPSTREAM_OIDC_SCOPES", "UPSTREAM_OIDC_TOKEN_AUTH_METHOD"} \subseteq plain
  BY DEF ConfigNames, UrlNames, TextNames, Defaulted
<1> HIDE DEF plain
<1>14. \A name \in NumberNames : PositiveNumber(s[name], MaxNumber)
  <2>1. \A name \in NumberNames : f[name] \in Nat /\ f[name] >= 1 /\ f[name] <= MaxNumber
    BY <1>7, ConfigurationAssumption, SMT DEF NumberNames
  <2> QED BY <1>5, <1>12, <2>1, ConfigurationAssumption, MissingAssumption, SMT DEF PositiveNumber
<1>15. PositiveNumber(s.MCP_LIST_PAGE_SIZE, 256)
  BY <1>5, <1>7, <1>12, MissingAssumption, SMT DEF PositiveNumber, NumberNames
<1>16. s.PUBLIC_ISSUER_URL.path = "/" /\ s.MCP_RESOURCE_URL.path = "/mcp" /\ s.WIDGET_DOMAIN.path = "/"
  BY <1>1, <1>4, <1>5, <1>6, <1>13 DEF issuer
<1>17. /\ s.ALLOWED_ORIGINS \notin {Missing, {}}
       /\ \A origin \in s.ALLOWED_ORIGINS : NormalizeOrigin(origin, FALSE)
  <2>1. s.ALLOWED_ORIGINS = LocalOrigins
    BY <1>5, <1>6, <1>13
  <2> QED BY <2>1, LocalOriginsAllowed
<1>18. /\ \A name \in TextNames : s[name] = "ok"
       /\ "openid" \in s.UPSTREAM_OIDC_SCOPES
       /\ s.UPSTREAM_OIDC_TOKEN_AUTH_METHOD \in {"client_secret_post", "client_secret_basic"}
  BY <1>5, <1>6, <1>13 DEF TextNames
<1>19. ReadConfig(s, FALSE)
  BY <1>3, <1>9, <1>11, <1>14, <1>15, <1>16, <1>17, <1>18 DEF ReadConfig, StoreConfig
<1> QED BY <1>19 DEF s

LEMMA LocalStart ==
    ASSUME NEW env, LocalEnvironment(env)
    PROVE  LET v == ValidateStartup(env, FALSE) IN v.started /\ Usable(v)
<1> DEFINE v == ValidateStartup(env, FALSE)
           s == Settings(env, FALSE)
<1>1. Given(env, "OAUTH_CLIENTS_JSON", Missing) = Missing
  BY DEF LocalEnvironment, Given
<1>2. v.started = TRUE /\ v.config = s /\ v.clients = LocalClients(s)
  BY <1>1, LocalReadConfig, StartedFields
<1> HIDE DEF s, v
<1>3. PICK hostname \in {"localhost", "loopback"}, upstream \in {Url("http", "loopback", "/"), Url("https", "idp", "/")} :
         /\ s.PUBLIC_ISSUER_URL = Url("http", hostname, "/")
         /\ \A name \in ConfigNames :
              s[name] = IF name \in DOMAIN env THEN env[name] ELSE Fallbacks(Url("http", hostname, "/"), upstream)[name]
  BY LocalSettings DEF s
<1> DEFINE issuer == Url("http", hostname, "/")
           a == Url("http", hostname, "/actions")
           m == Url("http", hostname, "/mcp")
           f == Fallbacks(issuer, upstream)
<1>4. /\ [issuer EXCEPT !.path = "/actions"] = a
      /\ [issuer EXCEPT !.path = "/mcp"] = m
      /\ [issuer EXCEPT !.path = "/oauth/callback"] = Url("http", hostname, "/oauth/callback")
  <2>1. /\ hostname \in Texts /\ "http" \in Texts /\ "/" \in UrlPaths /\ "/actions" \in UrlPaths
        /\ "/mcp" \in UrlPaths /\ "/oauth/callback" \in UrlPaths
    BY TextsAssumption, PathsOfUrls
  <2> QED BY <2>1, OtherPath
<1>5. a # m
  BY DEF Url
<1> HIDE DEF issuer, a, m
<1>6. /\ f.ACTIONS_AUDIENCE = [issuer EXCEPT !.path = "/actions"]
      /\ f.MCP_RESOURCE_URL = [issuer EXCEPT !.path = "/mcp"]
      /\ f.UPSTREAM_OIDC_REDIRECT_URI = [issuer EXCEPT !.path = "/oauth/callback"]
  BY DEF Fallbacks
<1>7. \A name \in {"ACTIONS_AUDIENCE", "MCP_RESOURCE_URL", "UPSTREAM_OIDC_REDIRECT_URI"} : s[name] = f[name]
  <2>1. \A name \in {"ACTIONS_AUDIENCE", "MCP_RESOURCE_URL", "UPSTREAM_OIDC_REDIRECT_URI"} :
          name \in ConfigNames /\ name \notin DOMAIN env
    BY DEF LocalEnvironment, ConfigNames, UrlNames
  <2> QED BY <1>3, <2>1 DEF issuer
<1> HIDE DEF f
<1>8. /\ s.ACTIONS_AUDIENCE = a /\ s.MCP_RESOURCE_URL = m
      /\ s.UPSTREAM_OIDC_REDIRECT_URI = [s.PUBLIC_ISSUER_URL EXCEPT !.path = "/oauth/callback"]
  BY <1>3, <1>4, <1>6, <1>7 DEF issuer
<1>9. UNION {{c.allowedResources[i] : i \in DOMAIN c.allowedResources} :
             c \in {v.clients[i] : i \in DOMAIN v.clients}} = {a, m}
  <2>1. \E o1, o2, o3 :
          v.clients = <<Client(o1, <<a, m>>, "optional", "local-test"),
                        Client(o2, <<a>>, "optional", "gpt-actions"),
                        Client(o3, <<m>>, "required", "gpt-apps-mcp")>>
    BY <1>2, <1>8 DEF LocalClients
  <2>2. PICK o1, o2, o3 :
          v.clients = <<Client(o1, <<a, m>>, "optional", "local-test"),
                        Client(o2, <<a>>, "optional", "gpt-actions"),
                        Client(o3, <<m>>, "required", "gpt-apps-mcp")>>
    BY <2>1
  <2> DEFINE c1 == Client(o1, <<a, m>>, "optional", "local-test")
             c2 == Client(o2, <<a>>, "optional", "gpt-actions")
             c3 == Client(o3, <<m>>, "required", "gpt-apps-mcp")
  <2>3. c1.allowedResources = <<a, m>> /\ c2.allowedResources = <<a>> /\ c3.allowedResources = <<m>>
    BY DEF Client
  <2> HIDE DEF c1, c2, c3
  <2>4. {v.clients[i] : i \in DOMAIN v.clients} = {c1, c2, c3}
    <3> DEFINE t == v.clients
    <3>1. t = <<c1, c2, c3>>
      BY <2>2 DEF c1, c2, c3
    <3> HIDE DEF t
    <3>2. DOMAIN t = {1, 2, 3} /\ t[1] = c1 /\ t[2] = c2 /\ t[3] = c3
      BY <3>1
    <3>3. {t[i] : i \in DOMAIN t} = {c1, c2, c3}
      BY <3>2
    <3> QED BY <3>3 DEF t
  <2>5. {c1.allowedResources[i] : i \in DOMAIN c1.allowedResources} = {a, m}
    <3> DEFINE t == c1.allowedResources
    <3>1. t = <<a, m>>
      BY <2>3
    <3> HIDE DEF t
    <3>2. DOMAIN t = {1, 2} /\ t[1] = a /\ t[2] = m
      BY <3>1
    <3>3. {t[i] : i \in DOMAIN t} = {a, m}
      BY <3>2
    <3> QED BY <3>3 DEF t
  <2>6. \A c : c.allowedResources = <<a>> => {c.allowedResources[i] : i \in DOMAIN c.allowedResources} = {a}
    BY OneEntry
  <2>7. \A c : c.allowedResources = <<m>> => {c.allowedResources[i] : i \in DOMAIN c.allowedResources} = {m}
    BY OneEntry
  <2> QED BY <2>3, <2>4, <2>5, <2>6, <2>7
<1>10. Usable(v)
  <2>1. /\ v.config.ACTIONS_AUDIENCE = a /\ v.config.MCP_RESOURCE_URL = m
        /\ v.config.UPSTREAM_OIDC_REDIRECT_URI = [v.config.PUBLIC_ISSUER_URL EXCEPT !.path = "/oauth/callback"]
    BY <1>2, <1>8
  <2> QED BY <1>5, <1>9, <2>1, UsableService
<1> QED BY <1>2, <1>10 DEF v

-----------------------------------------------------------------------------
(* The operator's commands, in any order and with any inputs *)

(* The stack is the one of the last inputs; once it is seeded, so are the   *)
(* clients; and a service that is restarted or started locally has read     *)
(* what there is then.                                                      *)
ConfigInv ==
    /\ stack # Missing \/ done \in {"deployed", "seeded", "restarted"} =>
         inputs \in AnyInputs /\ DeploymentConfig(inputs) /\ stack = EnvironmentParameters(inputs)
    /\ done \in {"seeded", "restarted"} =>
         options \in AnyOptions /\ RuntimeParameterOptions(options) /\ clients = SeededClients(options, stack)
    /\ done = "restarted" =>
         service = ValidateStartup(IF clients = Missing THEN stack ELSE EnvironmentFile(stack, clients), TRUE)
    /\ done \in {"nothing", "local"} => stack = Missing
    /\ done = "local" => \E env : LocalEnvironment(env) /\ service = ValidateStartup(env, FALSE)

LEMMA ConfigInvInit == ConfigInit => ConfigInv
BY DEF ConfigInit, ConfigInv

LEMMA ConfigInvStep == ConfigInv /\ [OperatorNext]_configVars => ConfigInv'
<1> SUFFICES ASSUME ConfigInv, [OperatorNext]_configVars PROVE ConfigInv'
  OBVIOUS
<1>1. ASSUME NEW in \in AnyInputs, Deploy(in) PROVE ConfigInv'
  BY <1>1 DEF Deploy, ConfigInv
<1>2. ASSUME NEW o \in AnyOptions, Seed(o) PROVE ConfigInv'
  BY <1>2 DEF Seed, ConfigInv
<1>3. CASE Restart
  BY <1>3 DEF Restart, ConfigInv
<1>4. CASE StartLocally
  <2>1. PICK env \in {<<>>, [OAUTH_STORE_BACKEND |-> "file"], [PUBLIC_ISSUER_URL |-> Url("http", "loopback", "/")],
                     [UPSTREAM_OIDC_ISSUER_URL |-> Https("idp", "/")],
                     [RATE_LIMIT_POLICIES_JSON |-> [bucket \in {"mcp-tool"} |-> [maxRequests |-> 5]]]} :
          service' = ValidateStartup(env, FALSE)
    BY <1>4 DEF StartLocally
  <2>2. LocalEnvironment(env)
    <3>1. CASE env = <<>>
      BY <3>1 DEF LocalEnvironment
    <3>2. CASE env = [OAUTH_STORE_BACKEND |-> "file"]
      BY <3>2 DEF LocalEnvironment
    <3>3. CASE env = [PUBLIC_ISSUER_URL |-> Url("http", "loopback", "/")]
      BY <3>3 DEF LocalEnvironment
    <3>4. CASE env = [UPSTREAM_OIDC_ISSUER_URL |-> Https("idp", "/")]
      BY <3>4 DEF LocalEnvironment, Https
    <3>5. CASE env = [RATE_LIMIT_POLICIES_JSON |-> [bucket \in {"mcp-tool"} |-> [maxRequests |-> 5]]]
      BY <3>5 DEF LocalEnvironment
    <3> QED BY <2>1, <3>1, <3>2, <3>3, <3>4, <3>5
  <2>3. stack = Missing /\ UNCHANGED <<inputs, stack, clients, options>> /\ done' = "local"
    BY <1>4 DEF StartLocally, ConfigInv
  <2> QED BY <2>1, <2>2, <2>3 DEF ConfigInv
<1>5. CASE UNCHANGED configVars
  BY <1>5 DEF configVars, ConfigInv
<1> QED BY <1>1, <1>2, <1>3, <1>4, <1>5 DEF OperatorNext

(* With any inputs and options that keep to the documents the service that  *)
(* is deployed, seeded and restarted (ci/cdk/src/config.ts, seed, run.sh,    *)
(* readConfig, loadClients) starts just if no display name has a quotation   *)
(* mark and every origin is public; it then serves its audiences, and        *)
(* accepts its provider's document just if no endpoint was typed with a      *)
(* final slash.  A developer's service always starts.                        *)
THEOREM AnyConfigurationCarries == OperatorSpec => []ConfigurationCarries
<1>1. ConfigInv => ConfigurationCarries
  <2> SUFFICES ASSUME ConfigInv PROVE ConfigurationCarries
    OBVIOUS
  <2>1. ASSUME done = "restarted", RightInputs(inputs), RightOptions(options)
        PROVE  /\ service.started <=> PlainNames(options) /\ PublicOrigins(inputs)
               /\ service.started =>
                    /\ Usable(service)
                    /\ FetchUpstreamProviderMetadata(service.config, Publishes(inputs)) <=> NoFinalSlash(inputs)
    <3>1. /\ inputs \in AnyInputs /\ DeploymentConfig(inputs) /\ stack = EnvironmentParameters(inputs)
          /\ options \in AnyOptions /\ RuntimeParameterOptions(options) /\ clients = SeededClients(options, stack)
          /\ service = ValidateStartup(IF clients = Missing THEN stack ELSE EnvironmentFile(stack, clients), TRUE)
      BY <2>1 DEF ConfigInv
    <3>2. clients # Missing
      <4>1. clients \in Registries
        BY <2>1, <3>1, SeededParse
      <4> QED BY <4>1, MissingAssumption
    <3>3. CASE PlainNames(options) /\ PublicOrigins(inputs)
      BY <2>1, <3>1, <3>2, <3>3, DeployedStart
    <3>4. CASE ~ (PlainNames(options) /\ PublicOrigins(inputs))
      BY <2>1, <3>1, <3>2, <3>4, DeployedRefused
    <3> QED BY <3>3, <3>4
  <2>2. ASSUME done = "local" PROVE service.started /\ Usable(service)
    BY <2>2, LocalStart DEF ConfigInv
  <2> QED BY <2>1, <2>2 DEF ConfigurationCarries
<1> QED BY <1>1, ConfigInvInit, ConfigInvStep, PTL DEF OperatorSpec

(* The inputs and options of the bounded instance are among them. *)
LEMMA GoodInputsTyped == GoodInputs \subseteq AnyInputs
<1> SUFFICES ASSUME NEW domain \in {"public", "other"}, NEW mode_ \in {"external", "cognito"}
             PROVE  [names |-> "ok", domainName |-> domain, mode |-> mode_, widgetDomain |-> Missing,
                     allowedOrigins |-> Missing, issuerUrl |-> Https("idp", "/"), discoveryUrl |-> Missing,
                     authorizationUrl |-> Https("idp", "/authorize"), tokenUrl |-> Https("idp", "/token"),
                     userinfoUrl |-> Https("idp", "/userinfo"), scopes |-> Missing, tokenAuthMethod |-> Missing]
                       \in AnyInputs
  BY DEF GoodInputs
<1>1. \A path \in Texts : Https("idp", path) \in TypedUrl
  BY TextsAssumption DEF Https, Url, TypedUrl
<1>2. /\ {"ok", "public", "other", "external", "cognito"} \subseteq Texts
      /\ {"/", "/authorize", "/token", "/userinfo"} \subseteq Texts
  BY TextsAssumption
<1>3. /\ Https("idp", "/") \in TypedUrl /\ Https("idp", "/authorize") \in TypedUrl
      /\ Https("idp", "/token") \in TypedUrl /\ Https("idp", "/userinfo") \in TypedUrl
  BY <1>1, <1>2
<1> QED BY <1>2, <1>3 DEF AnyInputs

LEMMA SomeUrlsTyped ==
    ASSUME NEW path \in Texts
    PROVE  SomeUrls(path) \subseteq TypedUrl
<1>1. ASSUME NEW scheme \in {"http", "https"},
             NEW hostname \in {"public", "localhost", "sub.localhost", "loopback", "privateIp", "*"}
      PROVE  Url(scheme, hostname, path) \in TypedUrl
  BY TextsAssumption DEF Url, TypedUrl
<1>2. Https("idp", path) \in TypedUrl
  BY TextsAssumption DEF Https, Url, TypedUrl
<1>3. [Https("idp", path) EXCEPT !.slash = TRUE] \in TypedUrl
  BY <1>2 DEF TypedUrl
<1>4. ASSUME NEW parts \in {"query", "other"} PROVE [Https("idp", path) EXCEPT !.parts = parts] \in TypedUrl
  BY <1>2, TextsAssumption DEF TypedUrl
<1>5. ASSUME NEW url \in SomeUrls(path) PROVE url \in TypedUrl
  <2>1. \/ \E scheme \in {"http", "https"},
              hostname \in {"public", "localhost", "sub.localhost", "loopback", "privateIp", "*"} :
            url = Url(scheme, hostname, path)
        \/ url = [Https("idp", path) EXCEPT !.slash = TRUE]
        \/ \E parts \in {"query", "other"} : url = [Https("idp", path) EXCEPT !.parts = parts]
    BY DEF SomeUrls
  <2> QED BY <1>1, <1>3, <1>4, <2>1
<1> QED BY <1>5

LEMMA InputsTyped == Inputs \subseteq AnyInputs
<1> DEFINE good == CHOOSE in \in GoodInputs : in.domainName = "public" /\ in.mode = "external"
           differing(name, values) == {[good EXCEPT ![name] = value] : value \in values}
<1>1. good \in AnyInputs
  <2>1. \E in \in GoodInputs : in.domainName = "public" /\ in.mode = "external"
    <3> DEFINE g == [names |-> "ok", domainName |-> "public", mode |-> "external", widgetDomain |-> Missing,
                     allowedOrigins |-> Missing, issuerUrl |-> Https("idp", "/"), discoveryUrl |-> Missing,
                     authorizationUrl |-> Https("idp", "/authorize"), tokenUrl |-> Https("idp", "/token"),
                     userinfoUrl |-> Https("idp", "/userinfo"), scopes |-> Missing, tokenAuthMethod |-> Missing]
    <3>1. g \in GoodInputs
      BY SMT DEF GoodInputs
    <3>2. g.domainName = "public" /\ g.mode = "external"
      OBVIOUS
    <3> HIDE DEF g
    <3> QED BY <3>1, <3>2
  <2>2. good \in GoodInputs
    BY <2>1
  <2> QED BY <2>2, GoodInputsTyped
<1> HIDE DEF good
<1>2. SomeUrls("/") \subseteq TypedUrl /\ SomeUrls("/x") \subseteq TypedUrl
  BY SomeUrlsTyped, TextsAssumption
<1>3. differing("domainName", {"localhost", "sub.localhost", "privateIp"}) \subseteq AnyInputs
  BY <1>1, TextsAssumption DEF AnyInputs
<1>4. differing("names", {"bad"}) \subseteq AnyInputs /\ differing("mode", {"other"}) \subseteq AnyInputs
  BY <1>1, TextsAssumption DEF AnyInputs
<1>5. ASSUME NEW name \in Endpoints \cup {"discoveryUrl"}
      PROVE  differing(name, SomeUrls("/x")) \subseteq AnyInputs
  BY <1>1, <1>2 DEF AnyInputs, Endpoints
<1>6. differing("widgetDomain", SomeUrls("/") \cup SomeUrls("/x")) \subseteq AnyInputs
  BY <1>1, <1>2 DEF AnyInputs
<1>7. differing("allowedOrigins", {{}} \cup {{url} : url \in SomeUrls("/") \cup SomeUrls("/x")}) \subseteq AnyInputs
  BY <1>1, <1>2 DEF AnyInputs
<1>8. differing("scopes", {{"openid"}, {"profile"}, {"openid", "?"}}) \subseteq AnyInputs
  BY <1>1, TextsAssumption DEF AnyInputs
<1>9. differing("tokenAuthMethod", {"client_secret_basic", "none"}) \subseteq AnyInputs
  BY <1>1, TextsAssumption DEF AnyInputs
<1>10. Inputs =
          GoodInputs
            \cup differing("domainName", {"localhost", "sub.localhost", "privateIp"})
            \cup differing("names", {"bad"})
            \cup differing("mode", {"other"})
            \cup (UNION {differing(name, SomeUrls("/x")) : name \in Endpoints \cup {"discoveryUrl"}})
            \cup differing("widgetDomain", SomeUrls("/") \cup SomeUrls("/x"))
            \cup differing("allowedOrigins", {{}} \cup {{url} : url \in SomeUrls("/") \cup SomeUrls("/x")})
            \cup differing("scopes", {{"openid"}, {"profile"}, {"openid", "?"}})
            \cup differing("tokenAuthMethod", {"client_secret_basic", "none"})
  BY Zenon DEF Inputs, good
<1> HIDE DEF differing
<1> DEFINE d1 == differing("domainName", {"localhost", "sub.localhost", "privateIp"})
           d2 == differing("names", {"bad"})
           d3 == differing("mode", {"other"})
           d4 == UNION {differing(name, SomeUrls("/x")) : name \in Endpoints \cup {"discoveryUrl"}}
           d5 == differing("widgetDomain", SomeUrls("/") \cup SomeUrls("/x"))
           d6 == differing("allowedOrigins", {{}} \cup {{url} : url \in SomeUrls("/") \cup SomeUrls("/x")})
           d7 == differing("scopes", {{"openid"}, {"profile"}, {"openid", "?"}})
           d8 == differing("tokenAuthMethod", {"client_secret_basic", "none"})
<1>11. d4 \subseteq AnyInputs
  BY <1>5
<1>12. d1 \subseteq AnyInputs /\ d2 \subseteq AnyInputs /\ d3 \subseteq AnyInputs
  BY <1>3, <1>4
<1>13. d5 \subseteq AnyInputs /\ d6 \subseteq AnyInputs /\ d7 \subseteq AnyInputs /\ d8 \subseteq AnyInputs
  BY <1>6, <1>7, <1>8, <1>9
<1>14. Inputs = GoodInputs \cup d1 \cup d2 \cup d3 \cup d4 \cup d5 \cup d6 \cup d7 \cup d8
  BY <1>10, Zenon
<1> HIDE DEF d1, d2, d3, d4, d5, d6, d7, d8
<1> QED BY <1>14, <1>11, <1>12, <1>13, GoodInputsTyped

LEMMA OptionsTyped == Options \subseteq AnyOptions
<1>1. GoodOptions \in AnyOptions
  <2>1. Https("other", "/a") \in TypedUrl /\ Https("other", "/b") \in TypedUrl /\ Https("public", "/b") \in TypedUrl
    BY TextsAssumption DEF Https, Url, TypedUrl
  <2>2. "a" \in Texts /\ "m" \in Texts /\ "plain" \in Texts
    BY TextsAssumption
  <2>3. <<Https("other", "/a")>> \in Seq(TypedUrl) /\ <<Https("other", "/b"), Https("public", "/b")>> \in Seq(TypedUrl)
    BY <2>1
  <2> QED BY <2>2, <2>3 DEF GoodOptions, AnyOptions, ClientOption
<1>2. ASSUME NEW id \in {"m", "bad"} PROVE [GoodOptions EXCEPT !.actions.id = id] \in AnyOptions
  BY <1>1, TextsAssumption DEF AnyOptions, ClientOption
<1>3. ASSUME NEW name \in {"quoted", "bad"} PROVE [GoodOptions EXCEPT !.actions.name = name] \in AnyOptions
  BY <1>1, TextsAssumption DEF AnyOptions, ClientOption
<1>4. ASSUME NEW uris \in {<<>>, <<Https("other", "/a"), Https("other", "/a")>>} \cup {<<url>> : url \in SomeUrls("/a")}
      PROVE  [GoodOptions EXCEPT !.actions.redirectUris = uris] \in AnyOptions
  <2>1. Https("other", "/a") \in TypedUrl /\ SomeUrls("/a") \subseteq TypedUrl
    BY SomeUrlsTyped, TextsAssumption DEF Https, Url, TypedUrl
  <2>2. /\ <<>> \in Seq(TypedUrl) /\ <<Https("other", "/a"), Https("other", "/a")>> \in Seq(TypedUrl)
        /\ \A url \in TypedUrl : <<url>> \in Seq(TypedUrl)
    BY <2>1
  <2>3. uris \in Seq(TypedUrl)
    BY <2>1, <2>2, Zenon
  <2> QED BY <1>1, <2>3 DEF AnyOptions, ClientOption
<1> QED BY <1>1, <1>2, <1>3, <1>4 DEF Options

(* So the commands of the bounded instance are an operator's.               *)
THEOREM ConfigurationCarriesHolds == ConfigSpec => []ConfigurationCarries
<1>1. ConfigNext => OperatorNext
  <2>1. GoodInputs \subseteq AnyInputs /\ Inputs \subseteq AnyInputs /\ Options \subseteq AnyOptions /\ GoodOptions \in AnyOptions
    BY GoodInputsTyped, InputsTyped, OptionsTyped DEF Options
  <2> QED BY <2>1 DEF ConfigNext, OperatorNext
<1>2. ConfigSpec => OperatorSpec
  BY <1>1, PTL DEF ConfigSpec, OperatorSpec
<1> QED BY <1>2, AnyConfigurationCarries, PTL
=============================================================================
