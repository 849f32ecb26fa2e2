---------------------- MODULE AuthorizationFlow_proofs ----------------------
(* Proofs about AuthorizationFlow, for any logins, codes and requests. *)
EXTENDS AuthorizationFlow, FiniteSetTheorems, TLAPS

-----------------------------------------------------------------------------
(* Types *)

(* An authorization that was let through is well typed, and carries the     *)
(* challenge of its own login if it has one.                                *)
LEMMA AuthorizationType ==
    ASSUME NEW l \in Login, NEW c \in Client, NEW requested \in Resource \cup {None},
           NEW policy \in ResolveClient(c),
           NEW redirectUri \in policy.redirectUris, NEW resource \in ResolveResource(policy, requested),
           NEW scopes \in SUBSET policy.scopes \ {{}}, NEW with \in PkceInput(policy)
    PROVE  [client |-> c, redirectUri |-> redirectUri, resource |-> resource, scopes |-> scopes,
            login |-> l, codeChallenge |-> IF with THEN l ELSE None] \in Authorization
<1>1. policy \in Policy
  BY AuthorizationFlowAssumption DEF ResolveClient
<1>2. redirectUri \in RedirectUri /\ resource \in Resource /\ scopes \in SUBSET Scope
  BY <1>1 DEF Policy, ResolveResource
<1> QED
  BY <1>2 DEF Authorization

(* A call that goes on, or ends, leaves the other calls alone. *)
LEMMA ContinueType ==
    ASSUME TypeOK, NEW w \in Worker, NEW c \in CallbackCall \cup TokenCall, Continue(w, c)
    PROVE  DOMAIN call' \subseteq Worker /\ \A v \in DOMAIN call' : call'[v] \in CallbackCall \cup TokenCall
BY DEF TypeOK, Continue, PutItem

LEMMA AnswerType ==
    ASSUME TypeOK, NEW w, Answer(w)
    PROVE  DOMAIN call' \subseteq Worker /\ \A v \in DOMAIN call' : call'[v] \in CallbackCall \cup TokenCall
BY DEF TypeOK, Answer, DeleteItem

(* What a token request is granted is well typed. *)
LEMMA GrantType ==
    ASSUME TypeOK, NEW k \in DOMAIN code, NEW c \in Client, NEW redirectUri \in RedirectUri,
           NEW policy \in ResolveClient(c), NEW requested, NEW resource \in ResolveResource(policy, requested),
           NEW verifier \in Login \cup {None}
    PROVE  Granted(k, c, redirectUri, resource, verifier) \in Grant
<1>1. policy \in Policy
  BY AuthorizationFlowAssumption DEF ResolveClient
<1>2. resource \in Resource
  BY <1>1 DEF Policy, ResolveResource
<1>3. k \in Code /\ code[k] \in CodeRecord
  BY DEF TypeOK
<1> QED
  BY <1>2, <1>3 DEF Granted, Grant, CodeRecord, Authorization

LEMMA TypeStep == TypeOK /\ [Next]_vars => TypeOK'
<1> SUFFICES ASSUME TypeOK, [Next]_vars PROVE TypeOK'
  OBVIOUS
<1>1. ASSUME NEW l \in Login, NEW c \in Client, NEW requested \in Resource \cup {None}, Authorize(l, c, requested)
      PROVE  TypeOK'
  <2>1. PICK policy \in ResolveClient(c) : \E redirectUri \in policy.redirectUris, resource \in ResolveResource(policy, requested),
          scopes \in SUBSET policy.scopes \ {{}}, with \in PkceInput(policy) :
         LET authorization == [client |-> c, redirectUri |-> redirectUri, resource |-> resource,
                               scopes |-> scopes, login |-> l,
                               codeChallenge |-> IF with THEN l ELSE None] IN
         /\ request' = PutItem(request, l, authorization)
         /\ SaveState(l, authorization)
    BY <1>1 DEF Authorize
  <2>2. PICK a \in Authorization : request' = PutItem(request, l, a) /\ SaveState(l, a)
    BY <2>1, AuthorizationType
  <2>3. PICK now \in Earlier : state' = PutItem([s \in Pruned(now) |-> state[s]], l,
                                                [authorization |-> a, expiresAt |-> now + CodeTtl])
    BY <2>2 DEF SaveState
  <2>4. now \in Nat /\ now + CodeTtl \in Nat
    BY AuthorizationFlowAssumption DEF Earlier, TypeOK
  <2>5. [authorization |-> a, expiresAt |-> now + CodeTtl] \in StateRecord
    BY <2>4 DEF StateRecord
  <2>6. /\ DOMAIN state' \subseteq DOMAIN request'
        /\ \A s \in DOMAIN state' : state'[s] \in StateRecord
    BY <2>2, <2>3, <2>5 DEF TypeOK, PutItem, Pruned
  <2>7. DOMAIN request' \subseteq Login /\ \A s \in DOMAIN request' : request'[s] \in Authorization
    BY <2>2 DEF TypeOK, PutItem
  <2> QED
    BY <1>1, <2>6, <2>7 DEF Authorize, TypeOK
<1>2. ASSUME NEW l \in Login, NEW u \in User, NEW uc \in UpstreamCode, UpstreamLogin(l, u, uc)
      PROVE  TypeOK'
  BY <1>2 DEF UpstreamLogin, TypeOK, PutItem
<1>3. ASSUME NEW l \in Login, CallbackDenied(l) PROVE TypeOK'
  <2>1. DOMAIN state' \subseteq DOMAIN state /\ \A s \in DOMAIN state' : state'[s] \in StateRecord
    BY <1>3 DEF CallbackDenied, StateTaken, Pruned, TypeOK
  <2>2. settled' \in [Login -> Nat]
    BY <1>3 DEF CallbackDenied, TypeOK
  <2> QED
    BY <1>3, <2>1, <2>2 DEF CallbackDenied, TypeOK
<1>4. ASSUME NEW w \in Worker, NEW l \in Login, NEW uc \in UpstreamCode, Callback(w, l, uc) PROVE TypeOK'
  <2>1. DOMAIN state' \subseteq DOMAIN state /\ \A s \in DOMAIN state' : state'[s] \in StateRecord
    BY <1>4 DEF Callback, StateTaken, Pruned, TypeOK
  <2>2. state[l].authorization \in Authorization
    BY <1>4 DEF Callback, StateValid, ExpiresAfter, HasItem, TypeOK, StateRecord
  <2>3. [pc |-> "exchange", authorization |-> state[l].authorization, upstreamCode |-> uc,
         user |-> None, now |-> clock] \in CallbackCall
    BY <2>2 DEF CallbackCall, TypeOK
  <2>4. DOMAIN call' \subseteq Worker /\ \A v \in DOMAIN call' : call'[v] \in CallbackCall \cup TokenCall
    BY <1>4, <2>3, ContinueType DEF Callback
  <2> QED
    BY <1>4, <2>1, <2>4 DEF Callback, TypeOK
<1>5. ASSUME NEW w \in Worker, Exchange(w) PROVE TypeOK'
  <2>1. call[w] \in CallbackCall
    BY <1>5 DEF Exchange, TypeOK, TokenCall
  <2>2. PICK u \in User : Continue(w, [call[w] EXCEPT !.pc = "createCode", !.user = u, !.now = clock])
    BY <1>5 DEF Exchange
  <2>3. [call[w] EXCEPT !.pc = "createCode", !.user = u, !.now = clock] \in CallbackCall
    BY <2>1 DEF CallbackCall, TypeOK
  <2>4. DOMAIN call' \subseteq Worker /\ \A v \in DOMAIN call' : call'[v] \in CallbackCall \cup TokenCall
    BY <2>2, <2>3, ContinueType
  <2> QED
    BY <1>5, <2>4 DEF Exchange, TypeOK
<1>6. ASSUME NEW w \in Worker, NEW k \in Code, CreateAuthorizationCode(w, k) PROVE TypeOK'
  <2>1. call[w] \in CallbackCall
    BY <1>6 DEF CreateAuthorizationCode, TypeOK, TokenCall
  <2>2. /\ call[w].user \in User
        /\ call[w].authorization \in Authorization
        /\ call[w].now + CodeTtl \in Nat
    BY <1>6, <2>1, AuthorizationFlowAssumption DEF CreateAuthorizationCode, CallbackCall
  <2>3. NewCode(call[w]) \in CodeRecord
    BY <2>2 DEF NewCode, CodeRecord
  <2>4. DOMAIN code' \subseteq issued' /\ \A j \in DOMAIN code' : code'[j] \in CodeRecord
    BY <1>6, <2>3 DEF CreateAuthorizationCode, TypeOK, PutItem
  <2>5. DOMAIN call' \subseteq Worker /\ \A v \in DOMAIN call' : call'[v] \in CallbackCall \cup TokenCall
    BY <1>6, AnswerType DEF CreateAuthorizationCode
  <2>6. settled' \in [Login -> Nat]
    BY <1>6, <2>2 DEF CreateAuthorizationCode, TypeOK, Authorization
  <2> QED
    BY <1>6, <2>4, <2>5, <2>6 DEF CreateAuthorizationCode, TypeOK
<1>7. ASSUME NEW w \in Worker, NEW k \in Code, NEW c \in Client, NEW redirectUri \in RedirectUri,
             NEW requested \in Resource \cup {None}, NEW verifier \in Login \cup {None},
             ConsumeRead(w, k, c, redirectUri, requested, verifier)
      PROVE  TypeOK'
  <2>1. k \in DOMAIN code
    BY <1>7 DEF ConsumeRead, ExpiresAfter, HasItem
  <2>2. PICK policy \in ResolveClient(c) : \E resource \in ResolveResource(policy, requested) :
           Continue(w, [pc |-> "consume", now |-> clock, grant |-> Granted(k, c, redirectUri, resource, verifier)])
    BY <1>7 DEF ConsumeRead
  <2>3. PICK resource \in ResolveResource(policy, requested) :
           Continue(w, [pc |-> "consume", now |-> clock, grant |-> Granted(k, c, redirectUri, resource, verifier)])
    BY <2>2
  <2>4. Granted(k, c, redirectUri, resource, verifier) \in Grant
    BY <2>1, GrantType
  <2>5. [pc |-> "consume", now |-> clock, grant |-> Granted(k, c, redirectUri, resource, verifier)] \in TokenCall
    BY <2>4 DEF TokenCall, TypeOK
  <2>6. DOMAIN call' \subseteq Worker /\ \A v \in DOMAIN call' : call'[v] \in CallbackCall \cup TokenCall
    BY <2>3, <2>5, ContinueType
  <2> QED
    BY <1>7, <2>6 DEF ConsumeRead, TypeOK
<1>8. ASSUME NEW w \in Worker, NEW k \in Code, NEW c \in Client, NEW redirectUri \in RedirectUri,
             NEW requested \in Resource \cup {None}, NEW verifier \in Login \cup {None},
             DiskConsume(w, k, c, redirectUri, requested, verifier)
      PROVE  TypeOK'
  <2>1. k \in DOMAIN code
    BY <1>8 DEF DiskConsume, ConsumeHolds, ExpiresAfter, HasItem
  <2>2. PICK policy \in ResolveClient(c) : \E resource \in ResolveResource(policy, requested) :
           Continue(w, [pc |-> "createRefreshToken", now |-> clock, grant |-> Granted(k, c, redirectUri, resource, verifier)])
    BY <1>8 DEF DiskConsume
  <2>3. PICK resource \in ResolveResource(policy, requested) :
           Continue(w, [pc |-> "createRefreshToken", now |-> clock, grant |-> Granted(k, c, redirectUri, resource, verifier)])
    BY <2>2
  <2>4. Granted(k, c, redirectUri, resource, verifier) \in Grant
    BY <2>1, GrantType
  <2>5. [pc |-> "createRefreshToken", now |-> clock, grant |-> Granted(k, c, redirectUri, resource, verifier)] \in TokenCall
    BY <2>4 DEF TokenCall, TypeOK
  <2>6. DOMAIN call' \subseteq Worker /\ \A v \in DOMAIN call' : call'[v] \in CallbackCall \cup TokenCall
    BY <2>3, <2>5, ContinueType
  <2>7. DOMAIN code' = DOMAIN code /\ \A j \in DOMAIN code' : code'[j] \in CodeRecord
    BY <1>8, <2>1 DEF DiskConsume, TypeOK, CodeRecord
  <2> QED
    BY <1>8, <2>6, <2>7 DEF DiskConsume, TypeOK
<1>9. ASSUME NEW w \in Worker, ConsumeWrite(w) PROVE TypeOK'
  <2>1. call[w] \in TokenCall
    BY <1>9 DEF ConsumeWrite, TypeOK, CallbackCall
  <2>2. [call[w] EXCEPT !.pc = "createRefreshToken"] \in TokenCall
    BY <2>1 DEF TokenCall
  <2>3. DOMAIN call' \subseteq Worker /\ \A v \in DOMAIN call' : call'[v] \in CallbackCall \cup TokenCall
    BY <1>9, <2>2, ContinueType DEF ConsumeWrite
  <2>4. DOMAIN code' = DOMAIN code /\ \A j \in DOMAIN code' : code'[j] \in CodeRecord
    BY <1>9 DEF ConsumeWrite, ConsumeHolds, ExpiresAfter, HasItem, TypeOK, CodeRecord
  <2> QED
    BY <1>9, <2>3, <2>4 DEF ConsumeWrite, TypeOK
<1>10. ASSUME NEW w \in Worker, CreateRefreshToken(w) PROVE TypeOK'
  <2>1. call[w].grant \in Grant
    BY <1>10 DEF CreateRefreshToken, TypeOK, CallbackCall, TokenCall
  <2>2. DOMAIN call' \subseteq Worker /\ \A v \in DOMAIN call' : call'[v] \in CallbackCall \cup TokenCall
    BY <1>10, AnswerType DEF CreateRefreshToken
  <2>3. families' \in [Code -> Nat]
    BY <1>10, <2>1 DEF CreateRefreshToken, TypeOK, Grant
  <2> QED
    BY <1>10, <2>1, <2>2, <2>3 DEF CreateRefreshToken, TypeOK
<1>11. ASSUME NEW w \in Worker, CallEnds(w) PROVE TypeOK'
  <2>1. call[w].pc = "createRefreshToken" => call[w].grant.code \in Code
    BY <1>11 DEF CallEnds, TypeOK, CallbackCall, TokenCall, Grant
  <2>2. DOMAIN call' \subseteq Worker /\ \A v \in DOMAIN call' : call'[v] \in CallbackCall \cup TokenCall
    BY <1>11, AnswerType DEF CallEnds
  <2> QED
    BY <1>11, <2>1, <2>2 DEF CallEnds, TypeOK
<1>12. ASSUME NEW l \in Login, SweepState(l) PROVE TypeOK'
  BY <1>12 DEF SweepState, TypeOK, DeleteItem
<1>13. ASSUME NEW k \in Code, SweepCode(k) PROVE TypeOK'
  BY <1>13 DEF SweepCode, TypeOK, DeleteItem
<1>14. CASE Tick
  BY <1>14 DEF Tick, TypeOK
<1>15. CASE UNCHANGED vars
  BY <1>15 DEF vars, TypeOK
<1> QED
  BY <1>1, <1>2, <1>3, <1>4, <1>5, <1>6, <1>7, <1>8, <1>9, <1>10, <1>11, <1>12, <1>13, <1>14, <1>15 DEF Next

(* Every reachable state is well typed. *)
THEOREM TypeCorrect == Spec => []TypeOK
<1>1. Init => TypeOK
  BY DEF Init, TypeOK, EmptyTable
<1> QED
  BY <1>1, TypeStep, PTL DEF Spec

-----------------------------------------------------------------------------
(* Codes *)

(* A token request that has consumed k and has not created its token yet. *)
Holds(w, k) == w \in DOMAIN call /\ call[w].pc = "createRefreshToken" /\ call[w].grant.code = k

(* No request will find k fit for use again. *)
Spent(k) == k \in issued /\ (k \in DOMAIN code => code[k].consumed)

CodeUse ==
    /\ \A w \in DOMAIN call : call[w].pc = "consume" => call[w].grant.code \in issued
    /\ \A k \in Code : families[k] = 0 \/ (families[k] = 1 /\ Spent(k))
    /\ \A w \in DOMAIN call, k \in Code : Holds(w, k) => families[k] = 0 /\ Spent(k)
    /\ \A w, v \in DOMAIN call, k \in Code : Holds(w, k) /\ Holds(v, k) => v = w

(* A step that touches neither codes nor families, and lets calls only end  *)
(* or go on outside of a grant, keeps CodeUse.                              *)
LEMMA QuietForCodes ==
    ASSUME CodeUse, UNCHANGED families, issued \subseteq issued',
           \A k \in DOMAIN code' : k \in DOMAIN code /\ code'[k] = code[k],
           \A w \in DOMAIN call' : (w \in DOMAIN call /\ call'[w] = call[w])
                                  \/ call'[w].pc \in {"exchange", "createCode"}
    PROVE  CodeUse'
BY DEF CodeUse, Holds, Spent

LEMMA CodeStep == TypeOK /\ CodeUse /\ [Next]_vars => CodeUse'
<1> SUFFICES ASSUME TypeOK, CodeUse, [Next]_vars PROVE CodeUse'
  OBVIOUS
<1>1. ASSUME NEW l \in Login, NEW c \in Client, NEW requested \in Resource \cup {None}, Authorize(l, c, requested)
      PROVE  CodeUse'
  BY <1>1, QuietForCodes DEF Authorize
<1>2. ASSUME NEW l \in Login, NEW u \in User, NEW uc \in UpstreamCode, UpstreamLogin(l, u, uc)
      PROVE  CodeUse'
  BY <1>2, QuietForCodes DEF UpstreamLogin
<1>3. ASSUME NEW l \in Login, CallbackDenied(l) PROVE CodeUse'
  BY <1>3, QuietForCodes DEF CallbackDenied
<1>4. ASSUME NEW w \in Worker, NEW l \in Login, NEW uc \in UpstreamCode, Callback(w, l, uc) PROVE CodeUse'
  BY <1>4, QuietForCodes DEF Callback, Continue, PutItem
<1>5. ASSUME NEW w \in Worker, Exchange(w) PROVE CodeUse'
  <2>1. call[w] \in CallbackCall
    BY <1>5 DEF Exchange, TypeOK, TokenCall
  <2>2. \A u : [call[w] EXCEPT !.pc = "createCode", !.user = u, !.now = clock].pc = "createCode"
    BY <2>1 DEF CallbackCall
  <2> QED
    BY <1>5, <2>2, QuietForCodes DEF Exchange, Continue, PutItem
<1>6. ASSUME NEW w \in Worker, NEW k \in Code, CreateAuthorizationCode(w, k) PROVE CodeUse'
  <2>1. \A j \in DOMAIN code' : j # k => j \in DOMAIN code /\ code'[j] = code[j]
    BY <1>6 DEF CreateAuthorizationCode, PutItem
  <2>2. \A v \in DOMAIN call' : v \in DOMAIN call /\ call'[v] = call[v]
    BY <1>6 DEF CreateAuthorizationCode, Answer, DeleteItem
  <2>3. k \notin issued /\ issued' = issued \cup {k} /\ families' = families
    BY <1>6 DEF CreateAuthorizationCode
  <2> QED
    BY <2>1, <2>2, <2>3 DEF CodeUse, Holds, Spent
<1>7. ASSUME NEW w \in Worker, NEW k \in Code, NEW c \in Client, NEW redirectUri \in RedirectUri,
             NEW requested \in Resource \cup {None}, NEW verifier \in Login \cup {None},
             ConsumeRead(w, k, c, redirectUri, requested, verifier)
      PROVE  CodeUse'
  <2>1. k \in issued /\ UNCHANGED <<families, code, issued>>
    BY <1>7 DEF ConsumeRead, ExpiresAfter, HasItem, TypeOK
  <2>2. /\ \A v \in DOMAIN call' : v # w => v \in DOMAIN call /\ call'[v] = call[v]
        /\ call'[w].pc = "consume" /\ call'[w].grant.code = k
    BY <1>7 DEF ConsumeRead, Continue, PutItem, Granted
  <2> QED
    BY <2>1, <2>2 DEF CodeUse, Holds, Spent
<1>8. ASSUME NEW w \in Worker, NEW k \in Code, NEW c \in Client, NEW redirectUri \in RedirectUri,
             NEW requested \in Resource \cup {None}, NEW verifier \in Login \cup {None},
             DiskConsume(w, k, c, redirectUri, requested, verifier)
      PROVE  CodeUse'
  <2>1. k \in DOMAIN code /\ k \in issued /\ ~code[k].consumed /\ UNCHANGED <<families, issued>>
    BY <1>8 DEF DiskConsume, ConsumeHolds, ExpiresAfter, HasItem, TypeOK
  <2>2. DOMAIN code' = DOMAIN code /\ code'[k].consumed /\ \A j \in DOMAIN code : j # k => code'[j] = code[j]
    BY <1>8, <2>1 DEF DiskConsume, TypeOK, CodeRecord
  <2>3. /\ \A v \in DOMAIN call' : v # w => v \in DOMAIN call /\ call'[v] = call[v]
        /\ call'[w].pc = "createRefreshToken" /\ call'[w].grant.code = k
    BY <1>8 DEF DiskConsume, Continue, PutItem, Granted
  <2> QED
    BY <2>1, <2>2, <2>3 DEF CodeUse, Holds, Spent
<1>9. ASSUME NEW w \in Worker, ConsumeWrite(w) PROVE CodeUse'
  <2> DEFINE k == call[w].grant.code
  <2>1. w \in DOMAIN call /\ call[w] \in TokenCall
    BY <1>9 DEF ConsumeWrite, TypeOK, CallbackCall
  <2>2. k \in DOMAIN code /\ k \in issued /\ ~code[k].consumed /\ UNCHANGED <<families, issued>>
    BY <1>9 DEF ConsumeWrite, ConsumeHolds, ExpiresAfter, HasItem, TypeOK
  <2>3. DOMAIN code' = DOMAIN code /\ code'[k].consumed /\ \A j \in DOMAIN code : j # k => code'[j] = code[j]
    BY <1>9, <2>2 DEF ConsumeWrite, TypeOK, CodeRecord
  <2>4. /\ \A v \in DOMAIN call' : v # w => v \in DOMAIN call /\ call'[v] = call[v]
        /\ call'[w].pc = "createRefreshToken" /\ call'[w].grant.code = k
    BY <1>9, <2>1 DEF ConsumeWrite, Continue, PutItem, TokenCall
  <2> HIDE DEF k
  <2> QED
    BY <2>1, <2>2, <2>3, <2>4 DEF CodeUse, Holds, Spent
<1>10. ASSUME NEW w \in Worker, CreateRefreshToken(w) PROVE CodeUse'
  <2> DEFINE k == call[w].grant.code
  <2>1. k \in Code /\ w \in DOMAIN call /\ Holds(w, k)
    BY <1>10 DEF CreateRefreshToken, TypeOK, CallbackCall, TokenCall, Grant, Holds
  <2>2. families' = [families EXCEPT ![k] = families[k] + 1] /\ UNCHANGED <<code, issued>>
    BY <1>10 DEF CreateRefreshToken
  <2>3. \A v \in DOMAIN call' : v # w /\ v \in DOMAIN call /\ call'[v] = call[v]
    BY <1>10 DEF CreateRefreshToken, Answer, DeleteItem
  <2>4. families[k] = 0 /\ Spent(k) /\ \A v \in DOMAIN call : Holds(v, k) => v = w
    BY <2>1 DEF CodeUse
  <2>5. families'[k] = 1 /\ \A j \in Code : j # k => families'[j] = families[j]
    BY <2>1, <2>2, <2>4 DEF TypeOK
  <2> HIDE DEF k
  <2> QED
    BY <2>1, <2>2, <2>3, <2>4, <2>5 DEF CodeUse, Holds, Spent
<1>11. ASSUME NEW w \in Worker, CallEnds(w) PROVE CodeUse'
  BY <1>11, QuietForCodes DEF CallEnds, Answer, DeleteItem
<1>12. ASSUME NEW l \in Login, SweepState(l) PROVE CodeUse'
  BY <1>12, QuietForCodes DEF SweepState
<1>13. ASSUME NEW k \in Code, SweepCode(k) PROVE CodeUse'
  BY <1>13, QuietForCodes DEF SweepCode, DeleteItem
<1>14. CASE Tick
  BY <1>14, QuietForCodes DEF Tick
<1>15. CASE UNCHANGED vars
  BY <1>15, QuietForCodes DEF vars
<1> QED
  BY <1>1, <1>2, <1>3, <1>4, <1>5, <1>6, <1>7, <1>8, <1>9, <1>10, <1>11, <1>12, <1>13, <1>14, <1>15 DEF Next

(* An authorization code yields at most one refresh token family, for any   *)
(* number of concurrent token requests, failures and sweeps.                *)
THEOREM CodesUsedOnce == Spec => []CodeOnce
<1>1. Init => TypeOK /\ CodeUse
  BY DEF Init, TypeOK, CodeUse, EmptyTable, Holds
<1>2. TypeOK /\ CodeUse /\ [Next]_vars => TypeOK' /\ CodeUse'
  BY TypeStep, CodeStep
<1>3. TypeOK /\ CodeUse => CodeOnce
  BY DEF TypeOK, CodeUse, CodeOnce
<1> QED
  BY <1>1, <1>2, <1>3, PTL DEF Spec
-----------------------------------------------------------------------------
(* Logins *)

InCallback(w) == w \in DOMAIN call /\ call[w].pc \in {"exchange", "createCode"}

(* The right to settle a login is in the store, or with one callback, or    *)
(* gone.                                                                    *)
LoginUse ==
    /\ \A l \in Login : settled[l] \in {0, 1} /\ (l \notin DOMAIN request => settled[l] = 0)
    /\ \A l \in DOMAIN state : settled[l] = 0 /\ state[l].authorization.login = l
    /\ \A w \in DOMAIN call : InCallback(w) =>
          LET l == call[w].authorization.login IN
          l \in DOMAIN request /\ settled[l] = 0 /\ l \notin DOMAIN state
    /\ \A w, v \in DOMAIN call :
          InCallback(w) /\ InCallback(v) /\ call[w].authorization.login = call[v].authorization.login => w = v

(* A step that settles nothing, takes no state and lets callbacks only end  *)
(* keeps LoginUse.                                                          *)
LEMMA QuietForLogins ==
    ASSUME LoginUse, UNCHANGED settled, DOMAIN request \subseteq DOMAIN request',
           \A l \in DOMAIN state' : l \in DOMAIN state /\ state'[l] = state[l],
           \A w \in DOMAIN call' : (w \in DOMAIN call /\ call'[w] = call[w])
                                  \/ call'[w].pc \in {"consume", "createRefreshToken"}
    PROVE  LoginUse'
BY DEF LoginUse, InCallback

LEMMA LoginStep == TypeOK /\ LoginUse /\ [Next]_vars => LoginUse'
<1> SUFFICES ASSUME TypeOK, LoginUse, [Next]_vars PROVE LoginUse'
  OBVIOUS
<1>1. ASSUME NEW l \in Login, NEW c \in Client, NEW requested \in Resource \cup {None}, Authorize(l, c, requested)
      PROVE  LoginUse'
  <2>1. PICK a : a.login = l /\ request' = PutItem(request, l, a) /\ SaveState(l, a)
    BY <1>1 DEF Authorize
  <2>2. PICK now : state' = PutItem([s \in Pruned(now) |-> state[s]], l,
                                    [authorization |-> a, expiresAt |-> now + CodeTtl])
    BY <2>1 DEF SaveState
  <2>3. /\ DOMAIN state' \subseteq DOMAIN state \cup {l}
        /\ state'[l].authorization.login = l
        /\ \A s \in DOMAIN state' : s # l => state'[s] = state[s]
    BY <2>1, <2>2 DEF PutItem, Pruned
  <2>4. DOMAIN request' = DOMAIN request \cup {l} /\ l \notin DOMAIN request /\ UNCHANGED <<settled, call>>
    BY <1>1, <2>1 DEF PutItem, Authorize
  <2> QED
    BY <2>3, <2>4 DEF LoginUse, InCallback
<1>2. ASSUME NEW l \in Login, NEW u \in User, NEW uc \in UpstreamCode, UpstreamLogin(l, u, uc)
      PROVE  LoginUse'
  BY <1>2, QuietForLogins DEF UpstreamLogin
<1>3. ASSUME NEW l \in Login, CallbackDenied(l) PROVE LoginUse'
  <2>1. l \in DOMAIN state /\ UNCHANGED <<request, call>>
    BY <1>3 DEF CallbackDenied, StateValid, ExpiresAfter, HasItem
  <2>2. \A s \in DOMAIN state' : s # l /\ s \in DOMAIN state /\ state'[s] = state[s]
    BY <1>3 DEF CallbackDenied, StateTaken, Pruned
  <2>3. settled[l] = 0 /\ l \in DOMAIN request
    BY <2>1 DEF LoginUse, TypeOK
  <2>4. settled'[l] \in {0, 1} /\ \A m \in Login : m # l => settled'[m] = settled[m]
    BY <1>3, <2>3 DEF CallbackDenied, TypeOK
  <2>5. \A w \in DOMAIN call : InCallback(w) => call[w].authorization.login \in Login \ {l}
    BY <2>1 DEF LoginUse, TypeOK
  <2>6. DOMAIN state' \subseteq Login
    BY <2>2 DEF TypeOK
  <2> QED
    BY <2>1, <2>2, <2>3, <2>4, <2>5, <2>6 DEF LoginUse, InCallback
<1>4. ASSUME NEW w \in Worker, NEW l \in Login, NEW uc \in UpstreamCode, Callback(w, l, uc) PROVE LoginUse'
  <2>1. l \in DOMAIN state /\ w \notin DOMAIN call /\ UNCHANGED <<request, settled>>
    BY <1>4 DEF Callback, StateValid, ExpiresAfter, HasItem
  <2>2. \A s \in DOMAIN state' : s # l /\ s \in DOMAIN state /\ state'[s] = state[s]
    BY <1>4 DEF Callback, StateTaken, Pruned
  <2>3. /\ \A v \in DOMAIN call' : v # w => v \in DOMAIN call /\ call'[v] = call[v]
        /\ call'[w].authorization = state[l].authorization
    BY <1>4 DEF Callback, Continue, PutItem
  <2>4. settled[l] = 0 /\ l \in DOMAIN request /\ state[l].authorization.login = l
    BY <2>1 DEF LoginUse, TypeOK
  <2> QED
    BY <2>1, <2>2, <2>3, <2>4 DEF LoginUse, InCallback
<1>5. ASSUME NEW w \in Worker, Exchange(w) PROVE LoginUse'
  <2>1. call[w] \in CallbackCall /\ InCallback(w) /\ UNCHANGED <<request, settled, state>>
    BY <1>5 DEF Exchange, TypeOK, TokenCall, InCallback
  <2>2. /\ DOMAIN call' = DOMAIN call
        /\ \A v \in DOMAIN call : v # w => call'[v] = call[v]
        /\ call'[w].authorization = call[w].authorization
    BY <1>5, <2>1 DEF Exchange, Continue, PutItem, CallbackCall
  <2> QED
    BY <2>1, <2>2 DEF LoginUse, InCallback
<1>6. ASSUME NEW w \in Worker, NEW k \in Code, CreateAuthorizationCode(w, k) PROVE LoginUse'
  <2> DEFINE l == call[w].authorization.login
  <2>1. w \in DOMAIN call /\ InCallback(w) /\ UNCHANGED <<request, state>>
    BY <1>6 DEF CreateAuthorizationCode, InCallback
  <2>2. l \in DOMAIN request /\ l \in Login /\ settled[l] = 0 /\ l \notin DOMAIN state
    BY <2>1 DEF LoginUse, TypeOK
  <2>3. settled'[l] = 1 /\ \A m \in Login : m # l => settled'[m] = settled[m]
    BY <1>6, <2>2 DEF CreateAuthorizationCode, TypeOK
  <2>4. \A v \in DOMAIN call' : v # w /\ v \in DOMAIN call /\ call'[v] = call[v]
    BY <1>6 DEF CreateAuthorizationCode, Answer, DeleteItem
  <2>5. \A v \in DOMAIN call' : InCallback(v) => call[v].authorization.login \in Login \ {l}
    BY <2>1, <2>4 DEF LoginUse, TypeOK
  <2>6. DOMAIN state \subseteq Login
    BY DEF TypeOK
  <2> HIDE DEF l
  <2> QED
    BY <2>1, <2>2, <2>3, <2>4, <2>5, <2>6 DEF LoginUse, InCallback
<1>7. ASSUME NEW w \in Worker, NEW k \in Code, NEW c \in Client, NEW redirectUri \in RedirectUri,
             NEW requested \in Resource \cup {None}, NEW verifier \in Login \cup {None},
             ConsumeRead(w, k, c, redirectUri, requested, verifier)
      PROVE  LoginUse'
  BY <1>7, QuietForLogins DEF ConsumeRead, Continue, PutItem
<1>8. ASSUME NEW w \in Worker, NEW k \in Code, NEW c \in Client, NEW redirectUri \in RedirectUri,
             NEW requested \in Resource \cup {None}, NEW verifier \in Login \cup {None},
             DiskConsume(w, k, c, redirectUri, requested, verifier)
      PROVE  LoginUse'
  BY <1>8, QuietForLogins DEF DiskConsume, Continue, PutItem
<1>9. ASSUME NEW w \in Worker, ConsumeWrite(w) PROVE LoginUse'
  <2>1. [call[w] EXCEPT !.pc = "createRefreshToken"].pc = "createRefreshToken"
    BY <1>9 DEF ConsumeWrite, TypeOK, CallbackCall, TokenCall
  <2> QED
    BY <1>9, <2>1, QuietForLogins DEF ConsumeWrite, Continue, PutItem
<1>10. ASSUME NEW w \in Worker, CreateRefreshToken(w) PROVE LoginUse'
  BY <1>10, QuietForLogins DEF CreateRefreshToken, Answer, DeleteItem
<1>11. ASSUME NEW w \in Worker, CallEnds(w) PROVE LoginUse'
  BY <1>11, QuietForLogins DEF CallEnds, Answer, DeleteItem
<1>12. ASSUME NEW l \in Login, SweepState(l) PROVE LoginUse'
  BY <1>12, QuietForLogins DEF SweepState, DeleteItem
<1>13. ASSUME NEW k \in Code, SweepCode(k) PROVE LoginUse'
  BY <1>13, QuietForLogins DEF SweepCode
<1>14. CASE Tick
  BY <1>14, QuietForLogins DEF Tick
<1>15. CASE UNCHANGED vars
  BY <1>15, QuietForLogins DEF vars
<1> QED
  BY <1>1, <1>2, <1>3, <1>4, <1>5, <1>6, <1>7, <1>8, <1>9, <1>10, <1>11, <1>12, <1>13, <1>14, <1>15 DEF Next

(* A login comes back to its client at most once, for any number of         *)
(* callbacks.                                                               *)
THEOREM LoginsSettledOnce == Spec => []LoginOnce
<1>1. Init => TypeOK /\ LoginUse
  BY DEF Init, TypeOK, LoginUse, EmptyTable
<1>2. TypeOK /\ LoginUse /\ [Next]_vars => TypeOK' /\ LoginUse'
  BY TypeStep, LoginStep
<1>3. LoginUse => LoginOnce
  BY DEF LoginUse, LoginOnce
<1> QED
  BY <1>1, <1>2, <1>3, PTL DEF Spec
-----------------------------------------------------------------------------
(* Grants *)

(* a is, field by field, what the login it names asked for. *)
Known(a) == a.login \in DOMAIN request /\ a = request[a.login]

AlwaysRequired(c) == \A policy \in ResolveClient(c) : policy.pkceRequired

(* What each record and each call knows of the login it belongs to. *)
RequestsNamed ==
    \A l \in DOMAIN request :
        /\ request[l].login = l
        /\ request[l].codeChallenge \in {l, None}
        /\ AlwaysRequired(request[l].client) => request[l].codeChallenge = l

RecordsKnown ==
    /\ \A l \in DOMAIN state : Known(state[l].authorization)
    /\ \A k \in DOMAIN code :
          Known(code[k].authorization) /\ UserLoggedIn(code[k].authorization.login, code[k].user)

CallKnown(c) ==
    /\ c.pc \in {"exchange", "createCode"} => Known(c.authorization) /\ c.upstreamCode \in DOMAIN upstream
    /\ c.pc = "createCode" => UserLoggedIn(c.authorization.login, c.user)
    /\ c.pc \in {"consume", "createRefreshToken"} => Asked(c.grant) /\ UserLoggedIn(c.grant.login, c.grant.user)

CallsKnown == \A w \in DOMAIN call : CallKnown(call[w])

Bound == RequestsNamed /\ RecordsKnown /\ CallsKnown /\ GrantIsBound

(* What is known stays known: requests and upstream codes are never changed.*)
Grows ==
    /\ \A l \in DOMAIN request : l \in DOMAIN request' /\ request'[l] = request[l]
    /\ \A uc \in DOMAIN upstream : uc \in DOMAIN upstream' /\ upstream'[uc] = upstream[uc]

LEMMA StaysKnown ==
    ASSUME Grows
    PROVE  /\ \A a : Known(a) => Known(a)'
           /\ \A g : Asked(g) => Asked(g)'
           /\ \A l, u : UserLoggedIn(l, u) => UserLoggedIn(l, u)'
           /\ \A c : CallKnown(c) => CallKnown(c)'
BY DEF Grows, Known, Asked, UserLoggedIn, CallKnown

(* Bound is kept when whatever is new in a step is known. *)
LEMMA KeepsBound ==
    ASSUME Bound, Grows, RequestsNamed',
           \A l \in DOMAIN state' : (l \in DOMAIN state /\ state'[l] = state[l]) \/ Known(state[l].authorization)',
           \A k \in DOMAIN code' :
              \/ /\ k \in DOMAIN code
                 /\ code'[k].authorization = code[k].authorization
                 /\ code'[k].user = code[k].user
              \/ Known(code[k].authorization)' /\ UserLoggedIn(code[k].authorization.login, code[k].user)',
           \A w \in DOMAIN call' : (w \in DOMAIN call /\ call'[w] = call[w]) \/ CallKnown(call[w])',
           \A g \in grants' : g \in grants \/ (Asked(g)' /\ UserLoggedIn(g.login, g.user)')
    PROVE  Bound'
<1>1. RecordsKnown'
  <2>1. \A l \in DOMAIN state' : Known(state[l].authorization)'
    BY StaysKnown DEF Bound, RecordsKnown
  <2>2. \A k \in DOMAIN code' : Known(code[k].authorization)' /\ UserLoggedIn(code[k].authorization.login, code[k].user)'
    BY StaysKnown DEF Bound, RecordsKnown
  <2> QED
    BY <2>1, <2>2 DEF RecordsKnown
<1>2. CallsKnown'
  BY StaysKnown DEF Bound, CallsKnown
<1>3. GrantIsBound'
  BY StaysKnown DEF Bound, GrantIsBound
<1> QED
  BY <1>1, <1>2, <1>3 DEF Bound

(* A step with the same requests and upstream codes, whose new records and  *)
(* calls are known before it, keeps Bound.                                  *)
LEMMA QuietForGrants ==
    ASSUME Bound, UNCHANGED <<request, upstream>>,
           \A l \in DOMAIN state' : l \in DOMAIN state /\ state'[l] = state[l],
           \A k \in DOMAIN code' :
              \/ /\ k \in DOMAIN code
                 /\ code'[k].authorization = code[k].authorization
                 /\ code'[k].user = code[k].user
              \/ Known(code'[k].authorization) /\ UserLoggedIn(code'[k].authorization.login, code'[k].user),
           \A w \in DOMAIN call' : (w \in DOMAIN call /\ call'[w] = call[w]) \/ CallKnown(call'[w]),
           \A g \in grants' : g \in grants \/ (Asked(g) /\ UserLoggedIn(g.login, g.user))
    PROVE  Bound'
<1>1. Grows
  BY DEF Grows
<1>2. RequestsNamed'
  BY DEF Bound, RequestsNamed, AlwaysRequired, ResolveClient
<1>3. \A k \in DOMAIN code' :
              \/ /\ k \in DOMAIN code
                 /\ code'[k].authorization = code[k].authorization
                 /\ code'[k].user = code[k].user
              \/ Known(code[k].authorization)' /\ UserLoggedIn(code[k].authorization.login, code[k].user)'
  BY DEF Known, UserLoggedIn
<1>4. \A w \in DOMAIN call' : (w \in DOMAIN call /\ call'[w] = call[w]) \/ CallKnown(call[w])'
  BY DEF CallKnown, Known, Asked, UserLoggedIn
<1>5. \A g \in grants' : g \in grants \/ (Asked(g)' /\ UserLoggedIn(g.login, g.user)')
  BY DEF Asked, UserLoggedIn
<1> QED
  BY <1>1, <1>2, <1>3, <1>4, <1>5, KeepsBound

(* A request that matches a code asks for what the login asked for. *)
LEMMA MatchIsAsked ==
    ASSUME TypeOK, Bound, NEW k \in DOMAIN code, NEW c, NEW policy, NEW redirectUri, NEW resource, NEW verifier,
           Matches(code[k].authorization, c, policy, redirectUri, resource, verifier)
    PROVE  LET g == Granted(k, c, redirectUri, resource, verifier) IN
           Asked(g) /\ UserLoggedIn(g.login, g.user)
<1> DEFINE a == code[k].authorization
           g == Granted(k, c, redirectUri, resource, verifier)
<1>1. Known(a) /\ UserLoggedIn(a.login, code[k].user)
  BY DEF Bound, RecordsKnown
<1>2. a.login \in DOMAIN request /\ request[a.login] = a /\ a.codeChallenge \in {a.login, None}
  BY <1>1 DEF Known, Bound, RequestsNamed
<1>3. /\ g.login = a.login /\ g.user = code[k].user /\ g.scopes = a.scopes
      /\ g.client = c /\ g.redirectUri = redirectUri /\ g.resource = resource /\ g.verifier = verifier
  BY DEF Granted
<1>4. Asked(g)
  BY <1>2, <1>3 DEF Matches, Asked
<1> QED
  BY <1>1, <1>3, <1>4

LEMMA BoundStep == TypeOK /\ Bound /\ [Next]_vars => Bound'
<1> SUFFICES ASSUME TypeOK, Bound, [Next]_vars PROVE Bound'
  OBVIOUS
<1>1. ASSUME NEW l \in Login, NEW c \in Client, NEW requested \in Resource \cup {None}, Authorize(l, c, requested)
      PROVE  Bound'
  <2>1. PICK policy, with, a :
          /\ policy \in ResolveClient(c) /\ with \in PkceInput(policy)
          /\ a.login = l /\ a.client = c /\ a.codeChallenge = IF with THEN l ELSE None
          /\ request' = PutItem(request, l, a) /\ SaveState(l, a)
    BY <1>1 DEF Authorize
  <2>2. PICK now : state' = PutItem([s \in Pruned(now) |-> state[s]], l,
                                    [authorization |-> a, expiresAt |-> now + CodeTtl])
    BY <2>1 DEF SaveState
  <2>3. l \notin DOMAIN request /\ UNCHANGED <<upstream, code, call, grants>>
    BY <1>1 DEF Authorize
  <2>4. DOMAIN request' = DOMAIN request \cup {l} /\ request'[l] = a
        /\ \A m \in DOMAIN request : request'[m] = request[m]
    BY <2>1, <2>3 DEF PutItem
  <2>5. Grows
    BY <2>3, <2>4 DEF Grows
  <2>6. AlwaysRequired(c) => a.codeChallenge = l
    BY <2>1 DEF AlwaysRequired, PkceInput
  <2>7. RequestsNamed'
    BY <2>1, <2>4, <2>6 DEF Bound, RequestsNamed, AlwaysRequired, ResolveClient
  <2>8. \A s \in DOMAIN state' : (s \in DOMAIN state /\ state'[s] = state[s]) \/ state'[s].authorization = a
    BY <2>2 DEF PutItem, Pruned
  <2>9. Known(a)'
    BY <2>1, <2>4 DEF Known
  <2>10. \A s \in DOMAIN state' : (s \in DOMAIN state /\ state'[s] = state[s]) \/ Known(state[s].authorization)'
    BY <2>8, <2>9 DEF Known
  <2> QED
    BY <2>3, <2>5, <2>7, <2>10, KeepsBound
<1>2. ASSUME NEW l \in Login, NEW u \in User, NEW uc \in UpstreamCode, UpstreamLogin(l, u, uc)
      PROVE  Bound'
  <2>1. UNCHANGED <<state, code, call, request, grants>> /\ Grows
    BY <1>2 DEF UpstreamLogin, Grows, PutItem, HasItem
  <2>2. RequestsNamed'
    BY <2>1 DEF Bound, RequestsNamed, AlwaysRequired, ResolveClient
  <2> QED
    BY <2>1, <2>2, KeepsBound
<1>3. ASSUME NEW l \in Login, CallbackDenied(l) PROVE Bound'
  BY <1>3, QuietForGrants DEF CallbackDenied, StateTaken, Pruned
<1>4. ASSUME NEW w \in Worker, NEW l \in Login, NEW uc \in UpstreamCode, Callback(w, l, uc) PROVE Bound'
  <2>1. l \in DOMAIN state /\ uc \in DOMAIN upstream
    BY <1>4 DEF Callback, StateValid, ExpiresAfter, HasItem
  <2>2. CallKnown([pc |-> "exchange", authorization |-> state[l].authorization, upstreamCode |-> uc,
                   user |-> None, now |-> clock])
    BY <2>1 DEF CallKnown, Bound, RecordsKnown
  <2>3. \A v \in DOMAIN call' : (v \in DOMAIN call /\ call'[v] = call[v]) \/ CallKnown(call'[v])
    BY <1>4, <2>2 DEF Callback, Continue, PutItem
  <2> QED
    BY <1>4, <2>3, QuietForGrants DEF Callback, StateTaken, Pruned
<1>5. ASSUME NEW w \in Worker, Exchange(w) PROVE Bound'
  <2>1. w \in DOMAIN call /\ call[w].pc = "exchange" /\ call[w] \in CallbackCall
    BY <1>5 DEF Exchange, TypeOK, TokenCall
  <2>2. PICK u \in User :
          /\ ExchangeAccepts(call[w].authorization, upstream[call[w].upstreamCode], u)
          /\ Continue(w, [call[w] EXCEPT !.pc = "createCode", !.user = u, !.now = clock])
    BY <1>5 DEF Exchange
  <2> DEFINE c == [call[w] EXCEPT !.pc = "createCode", !.user = u, !.now = clock]
             uc == call[w].upstreamCode
  <2>3. Known(call[w].authorization) /\ uc \in DOMAIN upstream
    BY <2>1 DEF Bound, CallsKnown, CallKnown
  <2>4. upstream[uc] = [nonce |-> call[w].authorization.login, user |-> u]
    BY <2>2, <2>3 DEF ExchangeAccepts, TypeOK
  <2>5. UserLoggedIn(call[w].authorization.login, u)
    BY <2>3, <2>4 DEF UserLoggedIn
  <2>6. c.pc = "createCode" /\ c.authorization = call[w].authorization /\ c.user = u /\ c.upstreamCode = uc
    BY <2>1 DEF CallbackCall
  <2>7. CallKnown(c)
    BY <2>3, <2>5, <2>6 DEF CallKnown
  <2>8. \A v \in DOMAIN call' : (v \in DOMAIN call /\ call'[v] = call[v]) \/ CallKnown(call'[v])
    BY <2>2, <2>7 DEF Continue, PutItem
  <2> QED
    BY <1>5, <2>8, QuietForGrants DEF Exchange
<1>6. ASSUME NEW w \in Worker, NEW k \in Code, CreateAuthorizationCode(w, k) PROVE Bound'
  <2>1. Known(call[w].authorization) /\ UserLoggedIn(call[w].authorization.login, call[w].user)
    BY <1>6 DEF CreateAuthorizationCode, Bound, CallsKnown, CallKnown
  <2>2. \A j \in DOMAIN code' :
          \/ j \in DOMAIN code /\ code'[j] = code[j]
          \/ code'[j].authorization = call[w].authorization /\ code'[j].user = call[w].user
    BY <1>6 DEF CreateAuthorizationCode, PutItem, NewCode
  <2>3. \A j \in DOMAIN code' :
              \/ /\ j \in DOMAIN code
                 /\ code'[j].authorization = code[j].authorization
                 /\ code'[j].user = code[j].user
              \/ Known(code'[j].authorization) /\ UserLoggedIn(code'[j].authorization.login, code'[j].user)
    BY <2>1, <2>2
  <2> QED
    BY <1>6, <2>3, QuietForGrants DEF CreateAuthorizationCode, Answer, DeleteItem
<1>7. ASSUME NEW w \in Worker, NEW k \in Code, NEW c \in Client, NEW redirectUri \in RedirectUri,
             NEW requested \in Resource \cup {None}, NEW verifier \in Login \cup {None},
             ConsumeRead(w, k, c, redirectUri, requested, verifier)
      PROVE  Bound'
  <2>1. k \in DOMAIN code
    BY <1>7 DEF ConsumeRead, ExpiresAfter, HasItem
  <2>2. PICK policy, resource :
          /\ Matches(code[k].authorization, c, policy, redirectUri, resource, verifier)
          /\ Continue(w, [pc |-> "consume", now |-> clock, grant |-> Granted(k, c, redirectUri, resource, verifier)])
    BY <1>7 DEF ConsumeRead
  <2>3. CallKnown([pc |-> "consume", now |-> clock, grant |-> Granted(k, c, redirectUri, resource, verifier)])
    BY <2>1, <2>2, MatchIsAsked DEF CallKnown
  <2>4. \A v \in DOMAIN call' : (v \in DOMAIN call /\ call'[v] = call[v]) \/ CallKnown(call'[v])
    BY <2>2, <2>3 DEF Continue, PutItem
  <2> QED
    BY <1>7, <2>4, QuietForGrants DEF ConsumeRead
<1>8. ASSUME NEW w \in Worker, NEW k \in Code, NEW c \in Client, NEW redirectUri \in RedirectUri,
             NEW requested \in Resource \cup {None}, NEW verifier \in Login \cup {None},
             DiskConsume(w, k, c, redirectUri, requested, verifier)
      PROVE  Bound'
  <2>1. k \in DOMAIN code
    BY <1>8 DEF DiskConsume, ConsumeHolds, ExpiresAfter, HasItem
  <2>2. PICK policy, resource :
          /\ Matches(code[k].authorization, c, policy, redirectUri, resource, verifier)
          /\ Continue(w, [pc |-> "createRefreshToken", now |-> clock, grant |-> Granted(k, c, redirectUri, resource, verifier)])
    BY <1>8 DEF DiskConsume
  <2>3. CallKnown([pc |-> "createRefreshToken", now |-> clock, grant |-> Granted(k, c, redirectUri, resource, verifier)])
    BY <2>1, <2>2, MatchIsAsked DEF CallKnown
  <2>4. \A v \in DOMAIN call' : (v \in DOMAIN call /\ call'[v] = call[v]) \/ CallKnown(call'[v])
    BY <2>2, <2>3 DEF Continue, PutItem
  <2>5. \A j \in DOMAIN code' : /\ j \in DOMAIN code
                               /\ code'[j].authorization = code[j].authorization
                               /\ code'[j].user = code[j].user
    BY <1>8 DEF DiskConsume, TypeOK, CodeRecord
  <2> QED
    BY <1>8, <2>4, <2>5, QuietForGrants DEF DiskConsume
<1>9. ASSUME NEW w \in Worker, ConsumeWrite(w) PROVE Bound'
  <2>1. w \in DOMAIN call /\ call[w].pc = "consume" /\ call[w] \in TokenCall
    BY <1>9 DEF ConsumeWrite, TypeOK, CallbackCall
  <2>2. [call[w] EXCEPT !.pc = "createRefreshToken"].grant = call[w].grant
        /\ [call[w] EXCEPT !.pc = "createRefreshToken"].pc = "createRefreshToken"
    BY <2>1 DEF TokenCall
  <2>3. CallKnown([call[w] EXCEPT !.pc = "createRefreshToken"])
    BY <2>1, <2>2 DEF Bound, CallsKnown, CallKnown
  <2>4. \A v \in DOMAIN call' : (v \in DOMAIN call /\ call'[v] = call[v]) \/ CallKnown(call'[v])
    BY <1>9, <2>3 DEF ConsumeWrite, Continue, PutItem
  <2>5. \A j \in DOMAIN code' : /\ j \in DOMAIN code
                               /\ code'[j].authorization = code[j].authorization
                               /\ code'[j].user = code[j].user
    BY <1>9 DEF ConsumeWrite, TypeOK, CodeRecord
  <2> QED
    BY <1>9, <2>4, <2>5, QuietForGrants DEF ConsumeWrite
<1>10. ASSUME NEW w \in Worker, CreateRefreshToken(w) PROVE Bound'
  <2>1. Asked(call[w].grant) /\ UserLoggedIn(call[w].grant.login, call[w].grant.user)
    BY <1>10 DEF CreateRefreshToken, Bound, CallsKnown, CallKnown
  <2>2. \A g \in grants' : g \in grants \/ (Asked(g) /\ UserLoggedIn(g.login, g.user))
    BY <1>10, <2>1 DEF CreateRefreshToken
  <2> QED
    BY <1>10, <2>2, QuietForGrants DEF CreateRefreshToken, Answer, DeleteItem
<1>11. ASSUME NEW w \in Worker, CallEnds(w) PROVE Bound'
  BY <1>11, QuietForGrants DEF CallEnds, Answer, DeleteItem
<1>12. ASSUME NEW l \in Login, SweepState(l) PROVE Bound'
  BY <1>12, QuietForGrants DEF SweepState, DeleteItem
<1>13. ASSUME NEW k \in Code, SweepCode(k) PROVE Bound'
  BY <1>13, QuietForGrants DEF SweepCode, DeleteItem
<1>14. CASE Tick
  BY <1>14, QuietForGrants DEF Tick
<1>15. CASE UNCHANGED vars
  BY <1>15, QuietForGrants DEF vars
<1> QED
  BY <1>1, <1>2, <1>3, <1>4, <1>5, <1>6, <1>7, <1>8, <1>9, <1>10, <1>11, <1>12, <1>13, <1>14, <1>15 DEF Next

(* A grant belongs to its login in every respect, and the verifier of the   *)
(* login was shown for it wherever PKCE is required, however the values of  *)
(* several logins are mixed.                                                *)
THEOREM GrantsAreBound == Spec => [](GrantIsBound /\ RequiredProof)
<1>1. Init => TypeOK /\ Bound
  BY DEF Init, TypeOK, Bound, RequestsNamed, RecordsKnown, CallsKnown, GrantIsBound, EmptyTable
<1>2. TypeOK /\ Bound /\ [Next]_vars => TypeOK' /\ Bound'
  BY TypeStep, BoundStep
<1>3. TypeOK /\ Bound => GrantIsBound /\ RequiredProof
  <2> SUFFICES ASSUME TypeOK, Bound, NEW g \in grants, AlwaysRequired(g.client)
               PROVE  g.verifier = g.login
    BY DEF Bound, RequiredProof, AlwaysRequired
  <2>1. g.login \in DOMAIN request /\ g.client = request[g.login].client
        /\ (request[g.login].codeChallenge # None => g.verifier = g.login)
    BY DEF Bound, GrantIsBound, Asked
  <2>2. request[g.login].codeChallenge = g.login
    BY <2>1 DEF Bound, RequestsNamed
  <2>3. g.login \in Login
    BY <2>1 DEF TypeOK
  <2> QED
    BY <2>1, <2>2, <2>3, AuthorizationFlowAssumption
<1> QED
  BY <1>1, <1>2, <1>3, PTL DEF Spec

(* Where PKCE is always required, a grant has shown its login's verifier.   *)
THEOREM ProofRequired == Spec => []RequiredProof
<1> QED
  BY GrantsAreBound, PTL

-----------------------------------------------------------------------------
(* Spent codes *)

(* A code that was burnt came to nothing, and is held by nobody; a consumed *)
(* one came to something, is held, or was burnt.                            *)
Accounted ==
    /\ \A k \in burnt : families[k] = 0 /\ Spent(k) /\ \A w \in DOMAIN call : ~Holds(w, k)
    /\ \A k \in DOMAIN code :
          code[k].consumed => families[k] = 1 \/ k \in burnt \/ \E w \in DOMAIN call : Holds(w, k)

(* A step that consumes nothing, and ends no request that holds a code. *)
LEMMA QuietForSpent ==
    ASSUME Accounted, UNCHANGED <<families, burnt>>, issued \subseteq issued',
           \A k \in DOMAIN code' : k \in DOMAIN code /\ code'[k] = code[k],
           \A w \in DOMAIN call' : \/ w \in DOMAIN call /\ call'[w] = call[w]
                                  \/ call'[w].pc # "createRefreshToken",
           \A w \in DOMAIN call : \/ w \in DOMAIN call' /\ call'[w] = call[w]
                                 \/ call[w].pc # "createRefreshToken"
    PROVE  Accounted'
<1>1. \A w, k : Holds(w, k)' <=> Holds(w, k)
  BY DEF Holds
<1>2. \A k \in burnt : Spent(k)'
  BY DEF Accounted, Spent
<1>3. \A k \in burnt : \A w \in DOMAIN call' : ~Holds(w, k)'
  BY <1>1 DEF Accounted, Holds
<1>4. \A k : (\E w \in DOMAIN call : Holds(w, k)) => \E w \in DOMAIN call' : Holds(w, k)'
  BY <1>1 DEF Holds
<1> QED
  BY <1>2, <1>3, <1>4 DEF Accounted

(* A request consumes the code k and holds it. *)
LEMMA ConsumeAccounted ==
    ASSUME Accounted, UNCHANGED <<families, burnt, issued>>,
           NEW w, NEW k \in DOMAIN code, ~code[k].consumed,
           DOMAIN code' = DOMAIN code, code'[k].consumed,
           \A j \in DOMAIN code : j # k => code'[j] = code[j],
           w \in DOMAIN call', call'[w].pc = "createRefreshToken", call'[w].grant.code = k,
           w \in DOMAIN call => call[w].pc # "createRefreshToken",
           \A v \in DOMAIN call' : v # w => v \in DOMAIN call /\ call'[v] = call[v],
           \A v \in DOMAIN call : v # w => v \in DOMAIN call' /\ call'[v] = call[v]
    PROVE  Accounted'
<1>1. Holds(w, k)' /\ k \notin burnt
  BY DEF Holds, Accounted, Spent
<1>2. /\ \A v, j : v # w => (Holds(v, j)' <=> Holds(v, j))
      /\ \A j : ~Holds(w, j) /\ (j # k => ~Holds(w, j)')
  BY DEF Holds
<1>3. \A j \in burnt : Spent(j)' /\ \A v \in DOMAIN call' : ~Holds(v, j)'
  BY <1>1, <1>2 DEF Accounted, Spent, Holds
<1>4. \A j \in DOMAIN code : j # k /\ code[j].consumed =>
        families[j] = 1 \/ j \in burnt \/ \E v \in DOMAIN call' : Holds(v, j)'
  BY <1>2 DEF Accounted, Holds
<1> QED
  BY <1>1, <1>3, <1>4 DEF Accounted

LEMMA SpentStep == TypeOK /\ CodeUse /\ Accounted /\ [Next]_vars => Accounted'
<1> SUFFICES ASSUME TypeOK, CodeUse, Accounted, [Next]_vars PROVE Accounted'
  OBVIOUS
<1>1. ASSUME NEW l \in Login, NEW c \in Client, NEW requested \in Resource \cup {None}, Authorize(l, c, requested)
      PROVE  Accounted'
  BY <1>1, QuietForSpent DEF Authorize
<1>2. ASSUME NEW l \in Login, NEW u \in User, NEW uc \in UpstreamCode, UpstreamLogin(l, u, uc)
      PROVE  Accounted'
  BY <1>2, QuietForSpent DEF UpstreamLogin
<1>3. ASSUME NEW l \in Login, CallbackDenied(l) PROVE Accounted'
  BY <1>3, QuietForSpent DEF CallbackDenied
<1>4. ASSUME NEW w \in Worker, NEW l \in Login, NEW uc \in UpstreamCode, Callback(w, l, uc) PROVE Accounted'
  BY <1>4, QuietForSpent DEF Callback, Continue, PutItem
<1>5. ASSUME NEW w \in Worker, Exchange(w) PROVE Accounted'
  <2>1. call[w] \in CallbackCall
    BY <1>5 DEF Exchange, TypeOK, TokenCall
  <2>2. \A u : [call[w] EXCEPT !.pc = "createCode", !.user = u, !.now = clock].pc = "createCode"
    BY <2>1 DEF CallbackCall
  <2> QED
    BY <1>5, <2>2, QuietForSpent DEF Exchange, Continue, PutItem
<1>6. ASSUME NEW w \in Worker, NEW k \in Code, CreateAuthorizationCode(w, k) PROVE Accounted'
  <2>1. /\ \A j \in DOMAIN code' : j # k => j \in DOMAIN code /\ code'[j] = code[j]
        /\ ~code'[k].consumed
    BY <1>6 DEF CreateAuthorizationCode, PutItem, NewCode
  <2>2. /\ \A v \in DOMAIN call' : v \in DOMAIN call /\ call'[v] = call[v]
        /\ \A v \in DOMAIN call : v # w => v \in DOMAIN call' /\ call'[v] = call[v]
        /\ call[w].pc = "createCode"
    BY <1>6 DEF CreateAuthorizationCode, Answer, DeleteItem
  <2>3. k \notin issued /\ issued' = issued \cup {k} /\ UNCHANGED <<families, burnt>>
    BY <1>6 DEF CreateAuthorizationCode
  <2>4. \A v, j : Holds(v, j)' <=> Holds(v, j)
    BY <2>2 DEF Holds
  <2>5. \A j \in burnt : Spent(j)' /\ \A v \in DOMAIN call' : ~Holds(v, j)'
    BY <2>1, <2>2, <2>3, <2>4 DEF Accounted, Spent
  <2>6. \A j \in DOMAIN code' : code'[j].consumed =>
          families[j] = 1 \/ j \in burnt \/ \E v \in DOMAIN call' : Holds(v, j)'
    BY <2>1, <2>4 DEF Accounted, Holds
  <2> QED
    BY <2>3, <2>5, <2>6 DEF Accounted
<1>7. ASSUME NEW w \in Worker, NEW k \in Code, NEW c \in Client, NEW redirectUri \in RedirectUri,
             NEW requested \in Resource \cup {None}, NEW verifier \in Login \cup {None},
             ConsumeRead(w, k, c, redirectUri, requested, verifier)
      PROVE  Accounted'
  BY <1>7, QuietForSpent DEF ConsumeRead, Continue, PutItem
<1>8. ASSUME NEW w \in Worker, NEW k \in Code, NEW c \in Client, NEW redirectUri \in RedirectUri,
             NEW requested \in Resource \cup {None}, NEW verifier \in Login \cup {None},
             DiskConsume(w, k, c, redirectUri, requested, verifier)
      PROVE  Accounted'
  <2>1. k \in DOMAIN code /\ ~code[k].consumed /\ w \notin DOMAIN call /\ UNCHANGED <<families, burnt, issued>>
    BY <1>8 DEF DiskConsume, ConsumeHolds, ExpiresAfter, HasItem
  <2>2. DOMAIN code' = DOMAIN code /\ code'[k].consumed /\ \A j \in DOMAIN code : j # k => code'[j] = code[j]
    BY <1>8, <2>1 DEF DiskConsume, TypeOK, CodeRecord
  <2>3. /\ DOMAIN call' = DOMAIN call \cup {w}
        /\ \A v \in DOMAIN call : v # w => call'[v] = call[v]
        /\ call'[w].pc = "createRefreshToken" /\ call'[w].grant.code = k
    BY <1>8 DEF DiskConsume, Continue, PutItem, Granted
  <2> QED
    BY <2>1, <2>2, <2>3, ConsumeAccounted
<1>9. ASSUME NEW w \in Worker, ConsumeWrite(w) PROVE Accounted'
  <2>0. PICK k : k = call[w].grant.code
    OBVIOUS
  <2>1. w \in DOMAIN call /\ call[w] \in TokenCall /\ call[w].pc = "consume"
    BY <1>9 DEF ConsumeWrite, TypeOK, CallbackCall
  <2>2. k \in DOMAIN code /\ ~code[k].consumed /\ UNCHANGED <<families, burnt, issued>>
    BY <1>9, <2>0 DEF ConsumeWrite, ConsumeHolds, ExpiresAfter, HasItem
  <2>3. DOMAIN code' = DOMAIN code /\ code'[k].consumed /\ \A j \in DOMAIN code : j # k => code'[j] = code[j]
    BY <1>9, <2>0, <2>2 DEF ConsumeWrite, TypeOK, CodeRecord
  <2>4. /\ DOMAIN call' = DOMAIN call \cup {w}
        /\ \A v \in DOMAIN call : v # w => call'[v] = call[v]
        /\ call'[w].pc = "createRefreshToken" /\ call'[w].grant.code = k
    BY <1>9, <2>0, <2>1 DEF ConsumeWrite, Continue, PutItem, TokenCall
  <2> QED
    BY <2>1, <2>2, <2>3, <2>4, ConsumeAccounted
<1>10. ASSUME NEW w \in Worker, CreateRefreshToken(w) \/ CallEnds(w) PROVE Accounted'
  <2>1. /\ w \in DOMAIN call /\ call[w] \in CallbackCall \cup TokenCall
        /\ DOMAIN call' = DOMAIN call \ {w}
        /\ \A v \in DOMAIN call' : call'[v] = call[v]
        /\ UNCHANGED <<code, issued>>
    BY <1>10 DEF CreateRefreshToken, CallEnds, Answer, DeleteItem, TypeOK
  <2>2. CASE call[w].pc # "createRefreshToken"
    BY <1>10, <2>1, <2>2, QuietForSpent DEF CreateRefreshToken, CallEnds
  <2>3. CASE call[w].pc = "createRefreshToken"
    <3>0. PICK k \in Code : k = call[w].grant.code
      BY <2>1, <2>3 DEF CallbackCall, TokenCall, Grant
    <3>1. Holds(w, k)
      BY <2>1, <2>3, <3>0 DEF Holds
    <3>2. families[k] = 0 /\ Spent(k) /\ \A v \in DOMAIN call : Holds(v, k) => v = w
      BY <2>1, <3>1 DEF CodeUse
    <3>3. k \notin burnt
      BY <2>1, <3>1 DEF Accounted
    <3>4. /\ \A v, j : Holds(v, j)' => Holds(v, j)
          /\ \A v \in DOMAIN call' : ~Holds(v, k)'
          /\ \A v, j : Holds(v, j) /\ j # k => v \in DOMAIN call' /\ Holds(v, j)'
          /\ \A j : Spent(j)' <=> Spent(j)
      BY <2>1, <3>0, <3>2 DEF Holds, Spent
    <3>5. /\ \A j \in Code : j # k => families'[j] = families[j]
          /\ \/ families'[k] = 1 /\ burnt' = burnt
             \/ families'[k] = 0 /\ burnt' = burnt \cup {k}
      BY <1>10, <2>3, <3>0, <3>2 DEF CreateRefreshToken, CallEnds, TypeOK
    <3>6. burnt \subseteq Code /\ DOMAIN code \subseteq Code
      BY DEF TypeOK
    <3>7. \A j \in burnt' : families'[j] = 0 /\ Spent(j)' /\ \A v \in DOMAIN call' : ~Holds(v, j)'
      <4> SUFFICES ASSUME NEW j \in burnt'
                   PROVE  families'[j] = 0 /\ Spent(j)' /\ \A v \in DOMAIN call' : ~Holds(v, j)'
        OBVIOUS
      <4>1. CASE j = k
        BY <3>2, <3>3, <3>4, <3>5, <4>1
      <4>2. CASE j # k
        BY <2>1, <3>4, <3>5, <3>6, <4>2 DEF Accounted
      <4> QED
        BY <4>1, <4>2
    <3>8. \A j \in DOMAIN code : code[j].consumed =>
            families'[j] = 1 \/ j \in burnt' \/ \E v \in DOMAIN call' : Holds(v, j)'
      BY <3>4, <3>5, <3>6 DEF Accounted
    <3> QED
      BY <2>1, <3>7, <3>8 DEF Accounted
  <2> QED
    BY <2>2, <2>3
<1>11. ASSUME NEW l \in Login, SweepState(l) PROVE Accounted'
  BY <1>11, QuietForSpent DEF SweepState
<1>12. ASSUME NEW k \in Code, SweepCode(k) PROVE Accounted'
  BY <1>12, QuietForSpent DEF SweepCode, DeleteItem
<1>13. CASE Tick \/ UNCHANGED vars
  BY <1>13, QuietForSpent DEF Tick, vars
<1> QED
  BY <1>1, <1>2, <1>3, <1>4, <1>5, <1>6, <1>7, <1>8, <1>9, <1>10, <1>11, <1>12, <1>13 DEF Next

(* A consumed code has come to exactly one thing: a family of refresh       *)
(* tokens, a request that is about to create it, or one that failed after   *)
(* it had consumed the code.  A code that was not consumed has come to      *)
(* nothing: requests that are refused leave it as it was.                   *)
THEOREM CodesAccountedFor == Spec => []SpentCodesAccountedFor
<1>1. Init => TypeOK /\ CodeUse /\ Accounted
  BY DEF Init, TypeOK, CodeUse, EmptyTable, Holds, Accounted
<1>2. TypeOK /\ CodeUse /\ Accounted /\ [Next]_vars => TypeOK' /\ CodeUse' /\ Accounted'
  BY TypeStep, CodeStep, SpentStep
<1>3. TypeOK /\ CodeUse /\ Accounted => SpentCodesAccountedFor
  <2> SUFFICES ASSUME TypeOK, CodeUse, Accounted, NEW k \in DOMAIN code
               PROVE  LET holders == {w \in DOMAIN call :
                                        call[w].pc = "createRefreshToken" /\ call[w].grant.code = k} IN
                      IF code[k].consumed
                        THEN families[k] + Cardinality(holders) + Cardinality(burnt \cap {k}) = 1
                        ELSE families[k] = 0 /\ holders = {} /\ k \notin burnt
    BY DEF SpentCodesAccountedFor
  <2> DEFINE holders == {w \in DOMAIN call : call[w].pc = "createRefreshToken" /\ call[w].grant.code = k}
  <2>0. k \in Code
    BY DEF TypeOK
  <2>1. k \in Code /\ (families[k] = 0 \/ (families[k] = 1 /\ Spent(k)))
    BY <2>0 DEF CodeUse
  <2>2. \A w : w \in holders <=> w \in DOMAIN call /\ Holds(w, k)
    BY DEF Holds
  <2>3. CASE ~code[k].consumed
    <3>1. ~Spent(k)
      BY <2>3 DEF Spent
    <3>2. families[k] = 0 /\ k \notin burnt
      BY <2>1, <3>1 DEF Accounted
    <3>3. holders = {}
      BY <2>1, <2>2, <3>1 DEF CodeUse
    <3> QED
      BY <2>3, <3>2, <3>3
  <2>4. CASE code[k].consumed
    <3>1. Cardinality({}) = 0 /\ \A x : Cardinality({x}) = 1
      BY FS_EmptySet, FS_Singleton
    <3>2. CASE families[k] = 1
      <4>1. holders = {} /\ burnt \cap {k} = {}
        BY <2>1, <2>2, <3>2 DEF CodeUse, Accounted
      <4>2. Cardinality(holders) = 0 /\ Cardinality(burnt \cap {k}) = 0
        BY <3>1, <4>1
      <4> HIDE DEF holders
      <4>3. families[k] + Cardinality(holders) + Cardinality(burnt \cap {k}) = 1
        BY <3>2, <4>2
      <4> QED
        BY <2>4, <4>3 DEF holders
    <3>3. CASE families[k] = 0 /\ k \in burnt
      <4>1. holders = {} /\ burnt \cap {k} = {k}
        BY <2>2, <3>3 DEF Accounted
      <4>2. Cardinality(holders) = 0 /\ Cardinality(burnt \cap {k}) = 1
        BY <3>1, <4>1
      <4> HIDE DEF holders
      <4>3. families[k] + Cardinality(holders) + Cardinality(burnt \cap {k}) = 1
        BY <3>3, <4>2
      <4> QED
        BY <2>4, <4>3 DEF holders
    <3>4. CASE families[k] = 0 /\ k \notin burnt
      <4>1. PICK w \in DOMAIN call : Holds(w, k)
        BY <2>4, <3>4 DEF Accounted
      <4>2. holders = {w} /\ burnt \cap {k} = {}
        BY <2>1, <2>2, <3>4, <4>1 DEF CodeUse
      <4>3. Cardinality(holders) = 1 /\ Cardinality(burnt \cap {k}) = 0
        BY <3>1, <4>2
      <4> HIDE DEF holders
      <4>4. families[k] + Cardinality(holders) + Cardinality(burnt \cap {k}) = 1
        BY <3>4, <4>3
      <4> QED
        BY <2>4, <4>4 DEF holders
    <3> QED
      BY <2>1, <3>2, <3>3, <3>4
  <2> QED
    BY <2>3, <2>4
<1> QED
  BY <1>1, <1>2, <1>3, PTL DEF Spec
=============================================================================
