------------------------- MODULE AuthorizationFlow -------------------------
(***************************************************************************)
(* The authorization code grant with upstream login: /oauth/authorize      *)
(* (auth/authorize.ts, auth/upstream-authorization.ts), /oauth/callback    *)
(* (auth/endpoints.upstream-callback.ts, auth/upstream-oidc-client.ts) and *)
(* the authorization_code grant of /oauth/token                            *)
(* (auth/tokens/authorization-code.ts), over the login states and the      *)
(* codes of either store.                                                  *)
(*                                                                         *)
(* A login is one authorization request that was let through.  The random  *)
(* values made for it (the state, the verifier and the nonce the service   *)
(* uses upstream, and the client's own verifier) are all named by the      *)
(* login; a challenge is its verifier.  What a browser or a client sends   *)
(* is arbitrary: any state with any upstream code, any code with any       *)
(* verifier, client and resource.  A request that is refused before it     *)
(* changed anything is a stuttering step.                                  *)
(***************************************************************************)
EXTENDS DynamoTable

CONSTANTS
    Login, Client, User, Code, UpstreamCode,
    RedirectUri, Resource, Scope,
    Worker,
    Registration,   \* what each client may be registered as, at one time or another
    None,
    CodeTtl,        \* AUTHORIZATION_CODE_TTL_SECONDS, for states and codes
    MaxDelay,       \* how old the time in a request to the store may be
    MaxClock

Policy == [redirectUris : SUBSET RedirectUri, resources : SUBSET Resource,
           scopes : SUBSET Scope, pkceRequired : BOOLEAN, gptActions : BOOLEAN]

ASSUME AuthorizationFlowAssumption ==
    /\ None \notin Login \cup Resource \cup User
    /\ Registration \in [Client -> SUBSET Policy]
    /\ CodeTtl \in Nat \ {0}
    /\ MaxDelay \in Nat
    /\ MaxClock \in Nat

VARIABLES
    backend,    \* the store the deployment was configured with
    clock,      \* nowSeconds()
    state,      \* upstream authorization states, by login
    code,       \* authorization codes
    upstream,   \* codes the upstream provider has issued
    call,       \* callbacks and token requests under way, by worker
    request,    \* history: what each login asked for
    issued,     \* history: authorization codes ever created
    settled,    \* history: redirects back to the client, by login
    families,   \* history: refresh tokens created, by code
    grants,     \* history: what was granted
    burnt       \* history: codes whose request failed after it consumed them

vars == <<backend, clock, state, code, upstream, call, request, issued, settled, families, grants, burnt>>

(* ValidatedAuthorization *)
Authorization == [client : Client, redirectUri : RedirectUri, resource : Resource,
                  scopes : SUBSET Scope, login : Login, codeChallenge : Login \cup {None}]

StateRecord == [authorization : Authorization, expiresAt : Nat]

CodeRecord == [authorization : Authorization, user : User, expiresAt : Nat, consumed : BOOLEAN]

(* The scopes, the user and the login are the record's; the client, the     *)
(* redirect URI, the verifier and the resource are the token request's.     *)
Grant == [code : Code, client : Client, redirectUri : RedirectUri, resource : Resource,
          verifier : Login \cup {None}, scopes : SUBSET Scope, user : User, login : Login]

CallbackCall ==
    [pc : {"exchange"}, authorization : Authorization, upstreamCode : UpstreamCode, user : {None}, now : Nat]
      \cup
    [pc : {"createCode"}, authorization : Authorization, upstreamCode : UpstreamCode, user : User, now : Nat]

TokenCall == [pc : {"consume", "createRefreshToken"}, grant : Grant, now : Nat]

Init ==
    /\ backend \in {"disk", "dynamodb"}
    /\ clock = 0
    /\ state = EmptyTable
    /\ code = EmptyTable
    /\ upstream = EmptyTable
    /\ call = EmptyTable
    /\ request = EmptyTable
    /\ issued = {}
    /\ settled = [l \in Login |-> 0]
    /\ families = [k \in Code |-> 0]
    /\ grants = {}
    /\ burnt = {}

-----------------------------------------------------------------------------
(* Helpers *)

Answer(w) == call' = DeleteItem(call, w)

Continue(w, next) == call' = PutItem(call, w, next)

(* The times a request to the store may carry when it takes effect. *)
Earlier == {now \in 0..clock : clock <= now + MaxDelay}

(* resolveClient: the static entry, or the metadata document of the moment  *)
(* or of a cache.                                                           *)
ResolveClient(c) == Registration[c]

(* resolveOAuthGrantResource: the resources the request may resolve to, at  *)
(* most one; a GPT Actions client with one resource may leave it out.       *)
ResolveResource(policy, requested) ==
    {r \in policy.resources :
        r = requested \/ (requested = None /\ policy.gptActions /\ policy.resources = {r})}

(* pkceInput: whether the request comes with a challenge. *)
PkceInput(policy) == {TRUE} \cup {with \in BOOLEAN : ~policy.pkceRequired}

-----------------------------------------------------------------------------
(* GET /oauth/authorize *)

(* pruneExpiredUpstreamStates, on the disk store only. *)
Pruned(now) == {l \in DOMAIN state : backend = "disk" => ExpiresAfter(state, l, now)}

(* createUpstreamAuthorizationState *)
SaveState(l, authorization) ==
    \E now \in Earlier :
        state' = PutItem([s \in Pruned(now) |-> state[s]], l,
                         [authorization |-> authorization, expiresAt |-> now + CodeTtl])

(* createAuthorizationRedirect and createLoginRedirect. *)
Authorize(l, c, requested) ==
    /\ l \notin DOMAIN request
    /\ \E policy \in ResolveClient(c) :
       \E redirectUri \in policy.redirectUris, resource \in ResolveResource(policy, requested),
          scopes \in SUBSET policy.scopes \ {{}}, with \in PkceInput(policy) :
         LET authorization == [client |-> c, redirectUri |-> redirectUri, resource |-> resource,
                               scopes |-> scopes, login |-> l,
                               codeChallenge |-> IF with THEN l ELSE None] IN
         /\ request' = PutItem(request, l, authorization)
         /\ SaveState(l, authorization)
    /\ UNCHANGED <<backend, clock, code, upstream, call, issued, settled, families, grants, burnt>>

(* The upstream provider logs a user in on the page the login led to, and   *)
(* issues a code for it.  It may do so again when the page is visited again.*)
UpstreamLogin(l, u, uc) ==
    /\ l \in DOMAIN request
    /\ ~HasItem(upstream, uc)
    /\ upstream' = PutItem(upstream, uc, [nonce |-> l, user |-> u])
    /\ UNCHANGED <<backend, clock, state, code, call, request, issued, settled, families, grants, burnt>>

-----------------------------------------------------------------------------
(* GET /oauth/callback *)

(* Mutant: the state is read and left in the store. *)
MutStateTaken(l) == [s \in Pruned(clock) |-> state[s]]

(* consumeUpstreamAuthorizationState deletes what it returns, and on disk   *)
(* what has expired...                                                      *)
StateTaken(l) == [s \in Pruned(clock) \ {l} |-> state[s]]

(* ...provided that it has not expired: at a time taken before the request  *)
(* to the table was sent, or inside the update of the file.                 *)
StateValid(l) == \E now \in IF backend = "disk" THEN {clock} ELSE Earlier : ExpiresAfter(state, l, now)

(* The browser comes back with a code. *)
Callback(w, l, uc) ==
    /\ w \notin DOMAIN call
    /\ HasItem(upstream, uc)
    /\ StateValid(l)
    /\ state' = StateTaken(l)
    /\ Continue(w, [pc |-> "exchange", authorization |-> state[l].authorization, upstreamCode |-> uc,
                    user |-> None, now |-> clock])
    /\ UNCHANGED <<backend, clock, code, upstream, request, issued, settled, families, grants, burnt>>

(* The browser comes back with an error, and is sent on to the client with  *)
(* access_denied; or with no code at all, which is answered here.           *)
CallbackDenied(l) ==
    /\ StateValid(l)
    /\ state' = StateTaken(l)
    /\ \E redirected \in {0, 1} : settled' = [settled EXCEPT ![l] = @ + redirected]
    /\ UNCHANGED <<backend, clock, code, upstream, call, request, issued, families, grants, burnt>>

(* Mutant: the nonce of the upstream ID token is not compared. *)
MutExchangeAccepts(authorization, idToken, userinfo) == userinfo = idToken.user

(* validateUpstreamIdToken and validateUpstreamUserinfo: the upstream nonce *)
(* is the login's, and both answers are about the same subject.             *)
ExchangeAccepts(authorization, idToken, userinfo) ==
    /\ idToken.nonce = authorization.login
    /\ userinfo = idToken.user

(* exchangeUpstreamCode.  Nothing is assumed of the provider's own checks:  *)
(* it may accept a wrong verifier and a code it has seen before, and its    *)
(* userinfo endpoint may answer about anybody.                              *)
Exchange(w) ==
    /\ w \in DOMAIN call
    /\ call[w].pc = "exchange"
    /\ \E userinfo \in User :
         /\ ExchangeAccepts(call[w].authorization, upstream[call[w].upstreamCode], userinfo)
         /\ Continue(w, [call[w] EXCEPT !.pc = "createCode", !.user = userinfo, !.now = clock])
    /\ UNCHANGED <<backend, clock, state, code, upstream, request, issued, settled, families, grants, burnt>>

(* Mutant: the challenge is not copied into the code. *)
MutNewCode(c) ==
    [authorization |-> [c.authorization EXCEPT !.codeChallenge = None], user |-> c.user,
     expiresAt |-> c.now + CodeTtl, consumed |-> FALSE]

(* What createServiceAuthorizationCode stores. *)
NewCode(c) ==
    [authorization |-> c.authorization, user |-> c.user,
     expiresAt |-> c.now + CodeTtl, consumed |-> FALSE]

CreateAuthorizationCode(w, k) ==
    /\ w \in DOMAIN call
    /\ call[w].pc = "createCode"
    /\ k \notin issued
    /\ code' = PutItem(code, k, NewCode(call[w]))
    /\ issued' = issued \cup {k}
    /\ settled' = [settled EXCEPT ![call[w].authorization.login] = @ + 1]
    /\ Answer(w)
    /\ UNCHANGED <<backend, clock, state, upstream, request, families, grants, burnt>>

-----------------------------------------------------------------------------
(* POST /oauth/token, grant_type=authorization_code, by a client that has   *)
(* authenticated.                                                           *)

(* validateAuthorizationCode, but for the code's own state.  The resource   *)
(* is one the policy allows, since the request's is.                        *)
Matches(authorization, c, policy, redirectUri, resource, verifier) ==
    /\ authorization.client = c
    /\ authorization.redirectUri = redirectUri
    /\ authorization.resource = resource
    /\ authorization.scopes \subseteq policy.scopes
    /\ authorization.codeChallenge # None => verifier = authorization.codeChallenge

Granted(k, c, redirectUri, resource, verifier) ==
    [code |-> k, client |-> c, redirectUri |-> redirectUri, resource |-> resource, verifier |-> verifier,
     scopes |-> code[k].authorization.scopes, user |-> code[k].user,
     login |-> code[k].authorization.login]

(* authorizationCodeGrant up to the read of consumeAuthorizationCode. *)
ConsumeRead(w, k, c, redirectUri, requested, verifier) ==
    /\ backend = "dynamodb"
    /\ w \notin DOMAIN call
    /\ ExpiresAfter(code, k, clock)
    /\ ~code[k].consumed
    /\ \E policy \in ResolveClient(c) : \E resource \in ResolveResource(policy, requested) :
         /\ Matches(code[k].authorization, c, policy, redirectUri, resource, verifier)
         /\ Continue(w, [pc |-> "consume", now |-> clock,
                         grant |-> Granted(k, c, redirectUri, resource, verifier)])
    /\ UNCHANGED <<backend, clock, state, code, upstream, request, issued, settled, families, grants, burnt>>

(* Mutant: the update asks only whether the code is expired. *)
MutConsumeHolds(k, now) == ExpiresAfter(code, k, now)

ConsumeHolds(k, now) == ExpiresAfter(code, k, now) /\ ~code[k].consumed

ConsumeWrite(w) ==
    /\ w \in DOMAIN call
    /\ call[w].pc = "consume"
    /\ ConsumeHolds(call[w].grant.code, call[w].now)
    /\ code' = [code EXCEPT ![call[w].grant.code].consumed = TRUE]
    /\ Continue(w, [call[w] EXCEPT !.pc = "createRefreshToken"])
    /\ UNCHANGED <<backend, clock, state, upstream, request, issued, settled, families, grants, burnt>>

(* Mutant: the code is consumed before the request is validated. *)
MutDiskConsume(w, k, c, redirectUri, requested, verifier) ==
    /\ backend = "disk"
    /\ w \notin DOMAIN call
    /\ ConsumeHolds(k, clock)
    /\ \E policy \in ResolveClient(c) : \E resource \in ResolveResource(policy, requested) :
         IF Matches(code[k].authorization, c, policy, redirectUri, resource, verifier)
           THEN Continue(w, [pc |-> "createRefreshToken", now |-> clock,
                             grant |-> Granted(k, c, redirectUri, resource, verifier)])
           ELSE UNCHANGED call
    /\ code' = [code EXCEPT ![k].consumed = TRUE]
    /\ UNCHANGED <<backend, clock, state, upstream, request, issued, settled, families, grants, burnt>>

(* The disk store reads, validates and consumes in one update. *)
DiskConsume(w, k, c, redirectUri, requested, verifier) ==
    /\ backend = "disk"
    /\ w \notin DOMAIN call
    /\ ConsumeHolds(k, clock)
    /\ \E policy \in ResolveClient(c) : \E resource \in ResolveResource(policy, requested) :
         /\ Matches(code[k].authorization, c, policy, redirectUri, resource, verifier)
         /\ Continue(w, [pc |-> "createRefreshToken", now |-> clock,
                         grant |-> Granted(k, c, redirectUri, resource, verifier)])
    /\ code' = [code EXCEPT ![k].consumed = TRUE]
    /\ UNCHANGED <<backend, clock, state, upstream, request, issued, settled, families, grants, burnt>>

(* createRefreshToken and issueTokenResponse. *)
CreateRefreshToken(w) ==
    /\ w \in DOMAIN call
    /\ call[w].pc = "createRefreshToken"
    /\ families' = [families EXCEPT ![call[w].grant.code] = @ + 1]
    /\ grants' = grants \cup {call[w].grant}
    /\ Answer(w)
    /\ UNCHANGED <<backend, clock, state, code, upstream, request, issued, settled, burnt>>

-----------------------------------------------------------------------------
(* A request is refused or fails, its answer is lost, or its process dies.  *)
CallEnds(w) ==
    /\ w \in DOMAIN call
    /\ Answer(w)
    /\ burnt' = IF call[w].pc = "createRefreshToken" THEN burnt \cup {call[w].grant.code} ELSE burnt
    /\ UNCHANGED <<backend, clock, state, code, upstream, request, issued, settled, families, grants>>

(* The table's TTL process. *)
SweepState(l) ==
    /\ backend = "dynamodb"
    /\ HasItem(state, l)
    /\ state[l].expiresAt <= clock
    /\ state' = DeleteItem(state, l)
    /\ UNCHANGED <<backend, clock, code, upstream, call, request, issued, settled, families, grants, burnt>>

SweepCode(k) ==
    /\ backend = "dynamodb"
    /\ HasItem(code, k)
    /\ code[k].expiresAt <= clock
    /\ code' = DeleteItem(code, k)
    /\ UNCHANGED <<backend, clock, state, upstream, call, request, issued, settled, families, grants, burnt>>

Tick ==
    /\ clock < MaxClock
    /\ clock' = clock + 1
    /\ UNCHANGED <<backend, state, code, upstream, call, request, issued, settled, families, grants, burnt>>

Next ==
    \/ \E l \in Login, c \in Client, requested \in Resource \cup {None} : Authorize(l, c, requested)
    \/ \E l \in Login, u \in User, uc \in UpstreamCode : UpstreamLogin(l, u, uc)
    \/ \E l \in Login : CallbackDenied(l)
    \/ \E w \in Worker :
          \/ \E l \in Login, uc \in UpstreamCode : Callback(w, l, uc)
          \/ Exchange(w)
          \/ \E k \in Code : CreateAuthorizationCode(w, k)
          \/ \E k \in Code, c \in Client, redirectUri \in RedirectUri,
                requested \in Resource \cup {None}, verifier \in Login \cup {None} :
                \/ ConsumeRead(w, k, c, redirectUri, requested, verifier)
                \/ DiskConsume(w, k, c, redirectUri, requested, verifier)
          \/ ConsumeWrite(w)
          \/ CreateRefreshToken(w)
          \/ CallEnds(w)
    \/ \E l \in Login : SweepState(l)
    \/ \E k \in Code : SweepCode(k)
    \/ Tick

Spec == Init /\ [][Next]_vars

-----------------------------------------------------------------------------
(* Properties *)

TypeOK ==
    /\ backend \in {"disk", "dynamodb"}
    /\ clock \in Nat
    /\ DOMAIN state \subseteq DOMAIN request
    /\ \A l \in DOMAIN state : state[l] \in StateRecord
    /\ DOMAIN code \subseteq issued
    /\ \A k \in DOMAIN code : code[k] \in CodeRecord
    /\ DOMAIN upstream \subseteq UpstreamCode
    /\ \A uc \in DOMAIN upstream : upstream[uc] \in [nonce : Login, user : User]
    /\ DOMAIN call \subseteq Worker
    /\ \A w \in DOMAIN call : call[w] \in CallbackCall \cup TokenCall
    /\ DOMAIN request \subseteq Login
    /\ \A l \in DOMAIN request : request[l] \in Authorization
    /\ issued \subseteq Code
    /\ settled \in [Login -> Nat]
    /\ families \in [Code -> Nat]
    /\ grants \subseteq Grant
    /\ burnt \subseteq Code

(* An authorization code yields at most one refresh token family, however   *)
(* many token requests present it at once, and also when the table's TTL    *)
(* process removes it while one of them is under way.                       *)
CodeOnce == \A k \in Code : families[k] <= 1

(* A login comes back to its client at most once, with a code or with       *)
(* access_denied, however often the callback is visited.                    *)
LoginOnce == \A l \in Login : settled[l] <= 1

(* What was granted, in the terms of the login behind it. *)
UserLoggedIn(l, u) == \E uc \in DOMAIN upstream : upstream[uc] = [nonce |-> l, user |-> u]

Asked(g) ==
    /\ g.login \in DOMAIN request
    /\ LET a == request[g.login] IN
         /\ g.client = a.client
         /\ g.redirectUri = a.redirectUri
         /\ g.resource = a.resource
         /\ g.scopes = a.scopes
         /\ a.codeChallenge # None => g.verifier = g.login

(* Whatever states, upstream codes, codes and verifiers are mixed, a grant  *)
(* is made to the client of the login, for what the login asked, on the     *)
(* verifier of the login, and about a user who logged in upstream in the    *)
(* course of this login and no other.                                       *)
GrantIsBound == \A g \in grants : Asked(g) /\ UserLoggedIn(g.login, g.user)

(* A client that is always registered with PKCE required gets a grant only  *)
(* for the verifier of the login: the requirement is checked at authorize,  *)
(* and what it checked survives the state and the code.                     *)
RequiredProof ==
    \A g \in grants :
        (\A policy \in ResolveClient(g.client) : policy.pkceRequired) => g.verifier = g.login

(* A code is spent only by a request that holds it or by one that failed    *)
(* after it had consumed the code; requests that are refused leave it.      *)
(* auth/storage, docs/architecture/oauth-provider.md:65.                    *)
SpentCodesAccountedFor ==
    \A k \in DOMAIN code :
        LET holders == {w \in DOMAIN call : call[w].pc = "createRefreshToken" /\ call[w].grant.code = k} IN
        IF code[k].consumed
          THEN families[k] + Cardinality(holders) + Cardinality(burnt \cap {k}) = 1
          ELSE families[k] = 0 /\ holders = {} /\ k \notin burnt
=============================================================================
