-------------------- MODULE DynamoRefreshTokens_proofs ---------------------
(* Proofs about DynamoRefreshTokens, for every set of tokens, families,     *)
(* clients, resources and workers, and every bound.                         *)
EXTENDS DynamoRefreshTokens, TLAPS

-----------------------------------------------------------------------------
(* Continuing or answering a call keeps the calls well typed. *)
LEMMA ContinueType ==
    ASSUME TypeOK, NEW w \in Worker, NEW next \in Call, Continue(w, next)
    PROVE  /\ DOMAIN call' \subseteq Worker
           /\ \A v \in DOMAIN call' : call'[v] \in Call
           /\ reply' \in Reply
  BY DEF TypeOK, Continue, PutItem, Reply

LEMMA AnswerType ==
    ASSUME TypeOK, NEW w \in Worker, NEW answer \in Reply, Answer(w, answer)
    PROVE  /\ DOMAIN call' \subseteq Worker
           /\ \A v \in DOMAIN call' : call'[v] \in Call
           /\ reply' \in Reply
  BY DEF TypeOK, Answer, DeleteItem

-----------------------------------------------------------------------------
LEMMA TypeStep ==
    ASSUME TypeOK, [Next]_vars
    PROVE  TypeOK'
<1> USE DynamoRefreshAssumption
<1>1. ASSUME NEW t \in Token, NEW f \in Family, NEW c \in Client, NEW r \in Resource,
             NEW createdAt \in 0..MaxClock, NEW ttl \in RefreshTtl,
             CreateRefreshToken(t, f, c, r, createdAt, ttl)
      PROVE TypeOK'
  <2>1. createdAt + ttl \in Nat
    OBVIOUS
  <2> QED
    BY <1>1, <2>1 DEF TypeOK, CreateRefreshToken, PutItem, TokenItem, FamilyItem, Reply, Lineage
<1>2. ASSUME NEW w \in Worker, NEW t \in Token, NEW c \in Client,
             NEW accepted \in SUBSET Resource, RotateReadToken(w, t, c, accepted)
      PROVE TypeOK'
  <2> DEFINE next == [pc |-> "validate", token |-> t, client |-> c, accepted |-> accepted,
                      old |-> tokenItem[t], now |-> clock, startedAt |-> clock]
  <2>1. CASE HasItem(tokenItem, t)
    <3>1. next \in Call
      BY <2>1 DEF Call, Phase, HasItem, TypeOK
    <3>2. Continue(w, next)
      BY <1>2, <2>1 DEF RotateReadToken
    <3> QED
      BY <1>2, <3>1, <3>2, ContinueType DEF RotateReadToken, TypeOK
  <2>2. CASE ~HasItem(tokenItem, t)
    BY <1>2, <2>2 DEF RotateReadToken, TypeOK, Reply
  <2> QED
    BY <2>1, <2>2
<1>3. ASSUME NEW w \in Worker, RotateValidate(w) PROVE TypeOK'
  <2>1. CASE TokenValid(call[w].old, call[w].client, call[w].accepted, clock)
    <3>1. [call[w] EXCEPT !.pc = "family", !.now = clock] \in Call
      BY <1>3 DEF RotateValidate, TypeOK, Call, Phase
    <3> QED
      BY <1>3, <2>1, <3>1, ContinueType DEF RotateValidate, TypeOK
  <2>2. CASE ~TokenValid(call[w].old, call[w].client, call[w].accepted, clock)
    BY <1>3, <2>2, AnswerType DEF RotateValidate, TypeOK, Reply
  <2> QED
    BY <2>1, <2>2
<1>4. ASSUME NEW w \in Worker, RotateReadFamily(w) PROVE TypeOK'
  <2>1. CASE FamilyOpen(call[w].old.family, call[w].now)
    <3>1. [call[w] EXCEPT !.pc = "marker"] \in Call
      BY <1>4 DEF RotateReadFamily, TypeOK, Call, Phase
    <3> QED
      BY <1>4, <2>1, <3>1, ContinueType DEF RotateReadFamily, TypeOK
  <2>2. CASE ~FamilyOpen(call[w].old.family, call[w].now)
    BY <1>4, <2>2, AnswerType DEF RotateReadFamily, TypeOK, Reply
  <2> QED
    BY <2>1, <2>2
<1>5. ASSUME NEW w \in Worker, RotateReadMarker(w) PROVE TypeOK'
  <2>1. [call[w] EXCEPT
           !.pc = IF HasItem(marker, call[w].token) THEN "revoke" ELSE "transact"] \in Call
    BY <1>5 DEF RotateReadMarker, TypeOK, Call, Phase
  <2> QED
    BY <1>5, <2>1, ContinueType DEF RotateReadMarker, TypeOK
<1>6. ASSUME NEW w \in Worker, NEW new \in Token, NEW ttl \in RefreshTtl,
             RotateCommit(w, new, ttl)
      PROVE TypeOK'
  <2>1. call[w] \in Call /\ w \in DOMAIN call
    BY <1>6 DEF RotateCommit, TypeOK
  <2>2. call[w].now + ttl \in Nat
    <3>1. ttl \in Nat /\ call[w].now \in Nat
      BY <2>1 DEF Call
    <3> QED
      BY <3>1
  <2>3. TransactionWrites(call[w].token, new, call[w].old, call[w].now, ttl)
    BY <1>6 DEF RotateCommit
  <2>4. call[w].old.family \in Family /\ call[w].token \in Token /\ call[w].old \in TokenItem
    BY <2>1 DEF Call, TokenItem
  <2>5. DOMAIN tokenItem' \subseteq Token /\ \A t \in DOMAIN tokenItem' : tokenItem'[t] \in TokenItem
    BY <2>2, <2>3, <2>4 DEF TransactionWrites, TypeOK, TokenItem, PutItem
  <2>6. DOMAIN familyItem' \subseteq Family /\ \A f \in DOMAIN familyItem' : familyItem'[f] \in FamilyItem
    BY <2>2, <2>3, <2>4 DEF TransactionWrites, TypeOK, FamilyItem
  <2>7. DOMAIN marker' \subseteq Token /\ \A t \in DOMAIN marker' : marker'[t] \in MarkerItem
    BY <2>2, <2>3, <2>4 DEF TransactionWrites, TypeOK, MarkerItem, PutItem
  <2>8. DOMAIN lineage' \subseteq Token /\ \A t \in DOMAIN lineage' : lineage'[t] \in Lineage
    BY <2>3, <2>4 DEF TransactionWrites, TypeOK, Lineage, PutItem
  <2>9. clock' \in Nat /\ DOMAIN call' \subseteq Worker /\ reply' \in Reply
          /\ \A v \in DOMAIN call' : call'[v] \in Call
    BY <1>6 DEF RotateCommit, TypeOK, Answer, DeleteItem, Reply
  <2> QED
    BY <2>5, <2>6, <2>7, <2>8, <2>9 DEF TypeOK
<1>7. ASSUME NEW w \in Worker, NEW new \in Token, RotateCancelled(w, new) PROVE TypeOK'
  <2>1. [call[w] EXCEPT !.pc = "revoke"] \in Call
    BY <1>7 DEF RotateCancelled, TypeOK, Call, Phase
  <2> QED
    BY <1>7, <2>1, ContinueType DEF RotateCancelled, TypeOK
<1>8. ASSUME NEW w \in Worker, RevokeRefreshFamily(w) PROVE TypeOK'
  <2>1. DOMAIN familyItem' \subseteq Family /\ \A f \in DOMAIN familyItem' : familyItem'[f] \in FamilyItem
    BY <1>8 DEF RevokeRefreshFamily, TypeOK, FamilyItem, HasItem
  <2> QED
    BY <1>8, <2>1 DEF TypeOK, RevokeRefreshFamily, Answer, DeleteItem, Reply
<1>9. ASSUME NEW w \in Worker, CallFails(w) PROVE TypeOK'
  BY <1>9 DEF TypeOK, CallFails, Answer, DeleteItem, Reply
<1>10. ASSUME NEW t \in Token, SweepToken(t) \/ SweepMarker(t) PROVE TypeOK'
  BY <1>10 DEF TypeOK, SweepToken, SweepMarker, DeleteItem, Reply
<1>11. ASSUME NEW f \in Family, SweepFamily(f) PROVE TypeOK'
  BY <1>11 DEF TypeOK, SweepFamily, DeleteItem, Reply
<1>12. CASE Tick
  BY <1>12 DEF TypeOK, Tick, Reply
<1>13. CASE UNCHANGED vars
  BY <1>13 DEF TypeOK, vars
<1> QED
  BY <1>1, <1>2, <1>3, <1>4, <1>5, <1>6, <1>7, <1>8, <1>9, <1>10, <1>11, <1>12, <1>13
     DEF Next, RotateStep

(* The state is well typed in every reachable state of the rotation         *)
(* protocol, whatever RefreshTtl, SweepLag and MaxRequestAge are.           *)
THEOREM TypeCorrect == Spec => []TypeOK
<1>1. Init => TypeOK
  BY DEF Init, TypeOK, EmptyTable, Reply
<1>2. TypeOK /\ [Next]_vars => TypeOK'
  BY TypeStep
<1> QED
  BY <1>1, <1>2, PTL DEF Spec

-----------------------------------------------------------------------------
(* What the safety proofs assume of the constants: the operator does not    *)
(* change REFRESH_TOKEN_TTL_SECONDS, and the TTL process lets an expired    *)
(* item be for at least as long as a call may take.                         *)
StableTtl == \A a, b \in RefreshTtl : a = b

LateSweep == MaxRequestAge <= SweepLag

Inductive ==
    /\ TypeOK
    /\ ItemsMatchLineage
    /\ CallsMatchItems
    /\ MarkerOutlivesToken
    /\ SingleSuccessor

(* The parts of the invariant that speak of the table alone survive a step  *)
(* that leaves the table alone.                                             *)
LEMMA TableUnchanged ==
    ASSUME Inductive, UNCHANGED <<clock, tokenItem, familyItem, marker, lineage>>
    PROVE  ItemsMatchLineage' /\ MarkerOutlivesToken' /\ SingleSuccessor'
  BY DEF Inductive, ItemsMatchLineage, MarkerOutlivesToken, SingleSuccessor, Used

LEMMA ContinueMatches ==
    ASSUME Inductive, UNCHANGED <<clock, tokenItem, familyItem, marker, lineage>>,
           NEW w \in Worker, NEW next \in Call, CallMatchesItems(next), Continue(w, next)
    PROVE  CallsMatchItems'
<1> SUFFICES ASSUME NEW v \in DOMAIN call' PROVE CallMatchesItems(call[v])'
  BY DEF CallsMatchItems
<1>1. call'[v] = next \/ (v \in DOMAIN call /\ call'[v] = call[v])
  BY DEF Continue, PutItem
<1>2. CallMatchesItems(call'[v])
  BY <1>1 DEF Inductive, CallsMatchItems
<1> QED
  BY <1>2 DEF CallMatchesItems

LEMMA AnswerMatches ==
    ASSUME Inductive, UNCHANGED <<clock, tokenItem, marker, lineage>>,
           NEW w \in Worker, NEW answer, Answer(w, answer)
    PROVE  CallsMatchItems'
<1> SUFFICES ASSUME NEW v \in DOMAIN call' PROVE CallMatchesItems(call[v])'
  BY DEF CallsMatchItems
<1>1. v \in DOMAIN call /\ call'[v] = call[v]
  BY DEF Answer, DeleteItem
<1>2. CallMatchesItems(call'[v])
  BY <1>1 DEF Inductive, CallsMatchItems
<1> QED
  BY <1>2 DEF CallMatchesItems

(* A token about to be exchanged has not been exchanged before: this is     *)
(* where the marker's lifetime, the bound on a call's age and the TTL       *)
(* process's lag meet.                                                      *)
LEMMA CommitIsFirst ==
    ASSUME Inductive, LateSweep,
           NEW w \in Worker, NEW new \in Token, NEW ttl \in RefreshTtl,
           RotateCommit(w, new, ttl)
    PROVE  Successors(call[w].token) = {}
<1> DEFINE t == call[w].token
<1> USE DynamoRefreshAssumption
<1>1. w \in DOMAIN call /\ call[w] \in Call /\ call[w].pc = "transact" /\ CallMatchesItems(call[w])
  BY DEF RotateCommit, Inductive, TypeOK, CallsMatchItems
<1>2. t \in DOMAIN tokenItem /\ t \notin DOMAIN marker
  BY DEF RotateCommit, TransactionHolds, HasItem, ExpiresAfter
<1>3. /\ tokenItem[t].expiresAt > call[w].now
      /\ clock <= call[w].now + MaxRequestAge
  <2>1. /\ tokenItem[t] = call[w].old
        /\ call[w].old.expiresAt > call[w].now
        /\ call[w].startedAt <= call[w].now
        /\ clock <= call[w].startedAt + MaxRequestAge
    BY <1>1, <1>2 DEF CallMatchesItems
  <2>2. call[w].startedAt \in Nat /\ call[w].now \in Nat /\ clock \in Nat
    BY <1>1 DEF Call, Inductive, TypeOK
  <2> QED
    BY <2>1, <2>2
<1>4. tokenItem[t].expiresAt + SweepLag > clock
  <2>1. /\ tokenItem[t].expiresAt \in Nat /\ clock \in Nat /\ call[w].now \in Nat
    BY <1>1, <1>2 DEF Inductive, TypeOK, TokenItem, Call
  <2> QED
    BY <1>3, <2>1 DEF LateSweep
<1>5. \A u \in DOMAIN lineage : lineage[u].parent # t
  <2> SUFFICES ASSUME NEW u \in DOMAIN lineage, lineage[u].parent = t PROVE FALSE
    OBVIOUS
  <2>1. t # Root
    BY <1>1 DEF Call
  <2>2. t \in DOMAIN marker \/ tokenItem[t].expiresAt + SweepLag <= clock
    BY <1>2, <2>1 DEF Inductive, MarkerOutlivesToken
  <2>3. tokenItem[t].expiresAt \in Nat /\ clock \in Nat
    BY <1>2 DEF Inductive, TypeOK, TokenItem
  <2> QED
    BY <1>2, <1>4, <2>2, <2>3
<1> QED
  BY <1>5 DEF Successors

(* One lemma per action that writes the table. *)

LEMMA CreateKeeps ==
    ASSUME Inductive, StableTtl, TypeOK',
           NEW t \in Token, NEW f \in Family, NEW c \in Client, NEW r \in Resource,
           NEW createdAt \in 0..MaxClock, NEW ttl \in RefreshTtl,
           CreateRefreshToken(t, f, c, r, createdAt, ttl)
    PROVE  Inductive'
<1> USE DynamoRefreshAssumption
<1>1. /\ t \notin DOMAIN lineage
      /\ DOMAIN lineage' = DOMAIN lineage \cup {t}
      /\ lineage'[t] = [parent |-> Root, family |-> f]
      /\ \A u \in DOMAIN lineage : lineage'[u] = lineage[u]
  BY DEF CreateRefreshToken, PutItem
<1>2. /\ DOMAIN tokenItem' = DOMAIN tokenItem \cup {t}
      /\ tokenItem'[t] = [family |-> f, client |-> c, resource |-> r, expiresAt |-> createdAt + ttl]
      /\ \A u \in DOMAIN tokenItem : tokenItem'[u] = tokenItem[u]
  BY <1>1 DEF CreateRefreshToken, HasItem, PutItem
<1>3. /\ DOMAIN familyItem' = DOMAIN familyItem \cup {f}
      /\ UNCHANGED <<clock, marker, call>>
      /\ createdAt <= clock
  BY DEF CreateRefreshToken, PutItem
<1>4. ItemsMatchLineage'
  <2>1. \A k \in RefreshTtl : createdAt + ttl <= clock' + k
    BY <1>3 DEF StableTtl, Inductive, TypeOK
  <2>2. \A x \in DOMAIN tokenItem' :
          /\ x \in DOMAIN lineage'
          /\ tokenItem'[x].family = lineage'[x].family
          /\ \A k \in RefreshTtl : tokenItem'[x].expiresAt <= clock' + k
    BY <1>1, <1>2, <1>3, <2>1 DEF Inductive, ItemsMatchLineage
  <2>3. \A g \in DOMAIN familyItem' : Used(g)'
    BY <1>1, <1>3 DEF Inductive, ItemsMatchLineage, Used
  <2> QED
    BY <2>2, <2>3 DEF ItemsMatchLineage
<1>5. CallsMatchItems'
  <2> SUFFICES ASSUME NEW v \in DOMAIN call' PROVE CallMatchesItems(call[v])'
    BY DEF CallsMatchItems
  <2>1. CallMatchesItems(call[v]) /\ call[v].token # t /\ call'[v] = call[v]
    BY <1>1, <1>3 DEF Inductive, CallsMatchItems, CallMatchesItems
  <2> QED
    BY <1>1, <1>2, <1>3, <2>1 DEF CallMatchesItems
<1>6. MarkerOutlivesToken'
  <2> SUFFICES ASSUME NEW u \in DOMAIN lineage', lineage'[u].parent # Root
               PROVE  LET p == lineage'[u].parent IN
                      /\ p \in DOMAIN lineage'
                      /\ p \in DOMAIN tokenItem' =>
                           \/ p \in DOMAIN marker' /\ marker'[p].expiresAt >= tokenItem'[p].expiresAt
                           \/ tokenItem'[p].expiresAt + SweepLag <= clock'
    BY DEF MarkerOutlivesToken
  <2>1. u \in DOMAIN lineage /\ lineage'[u] = lineage[u]
    BY <1>1
  <2>2. lineage[u].parent # Root /\ lineage[u].parent \in DOMAIN lineage
    BY <2>1 DEF Inductive, MarkerOutlivesToken
  <2>3. lineage[u].parent # t
    BY <1>1, <2>2
  <2> QED
    BY <1>1, <1>2, <1>3, <2>1, <2>2, <2>3 DEF Inductive, MarkerOutlivesToken
<1>7. SingleSuccessor'
  BY <1>1 DEF Inductive, SingleSuccessor, MarkerOutlivesToken
<1> QED
  BY <1>4, <1>5, <1>6, <1>7 DEF Inductive

LEMMA CommitKeeps ==
    ASSUME Inductive, StableTtl, LateSweep, TypeOK',
           NEW w \in Worker, NEW new \in Token, NEW ttl \in RefreshTtl,
           RotateCommit(w, new, ttl)
    PROVE  Inductive'
<1> DEFINE t == call[w].token
           old == call[w].old
           end == call[w].now + ttl
<1> USE DynamoRefreshAssumption
<1>1. w \in DOMAIN call /\ call[w] \in Call /\ CallMatchesItems(call[w])
  BY DEF RotateCommit, Inductive, TypeOK, CallsMatchItems
<1>2. /\ new \notin DOMAIN lineage
      /\ DOMAIN lineage' = DOMAIN lineage \cup {new}
      /\ lineage'[new] = [parent |-> t, family |-> old.family]
      /\ \A u \in DOMAIN lineage : lineage'[u] = lineage[u]
  BY DEF RotateCommit, PutItem, TransactionWrites
<1>3. /\ DOMAIN tokenItem' = DOMAIN tokenItem \cup {new}
      /\ tokenItem'[new] = [old EXCEPT !.expiresAt = end]
      /\ \A u \in DOMAIN tokenItem : tokenItem'[u] = tokenItem[u]
      /\ new \notin DOMAIN tokenItem
  BY DEF RotateCommit, PutItem, TransactionWrites, TransactionHolds, HasItem
<1>4. /\ DOMAIN marker' = DOMAIN marker \cup {t}
      /\ marker'[t] = [expiresAt |-> end]
      /\ \A u \in DOMAIN marker : u # t => marker'[u] = marker[u]
      /\ t \notin DOMAIN marker
      /\ t \in DOMAIN tokenItem
  BY DEF RotateCommit, PutItem, TransactionWrites, TransactionHolds, HasItem, ExpiresAfter
<1>5. DOMAIN familyItem' = DOMAIN familyItem /\ clock' = clock
  BY DEF RotateCommit, TransactionWrites
<1>6. /\ DOMAIN call' = DOMAIN call \ {w}
      /\ \A v \in DOMAIN call : v # w => call'[v] = call[v]
  BY DEF RotateCommit, Answer, DeleteItem
<1>7. /\ old.expiresAt <= end
      /\ \A k \in RefreshTtl : end <= clock + k
      /\ old.family = lineage[t].family
      /\ t \in DOMAIN lineage
      /\ tokenItem[t] = old
  <2>1. /\ call[w].startedAt \in Nat /\ call[w].now \in Nat /\ clock \in Nat /\ old.expiresAt \in Nat
    BY <1>1 DEF Call, TokenItem, Inductive, TypeOK
  <2>2. /\ old.expiresAt <= call[w].startedAt + ttl
        /\ call[w].startedAt <= call[w].now
        /\ call[w].now <= clock
        /\ old.family = lineage[t].family
        /\ t \in DOMAIN lineage
        /\ tokenItem[t] = old
    BY <1>1, <1>4 DEF CallMatchesItems
  <2> QED
    BY <2>1, <2>2 DEF StableTtl
<1>8. ItemsMatchLineage'
  <2>1. old \in TokenItem
    BY <1>1 DEF Call
  <2>2. tokenItem'[new].family = old.family /\ tokenItem'[new].expiresAt = end
    BY <1>3, <2>1 DEF TokenItem
  <2>3. \A x \in DOMAIN tokenItem' :
          /\ x \in DOMAIN lineage'
          /\ tokenItem'[x].family = lineage'[x].family
          /\ \A k \in RefreshTtl : tokenItem'[x].expiresAt <= clock' + k
    <3> SUFFICES ASSUME NEW x \in DOMAIN tokenItem'
                 PROVE  /\ x \in DOMAIN lineage'
                        /\ tokenItem'[x].family = lineage'[x].family
                        /\ \A k \in RefreshTtl : tokenItem'[x].expiresAt <= clock' + k
      OBVIOUS
    <3>1. CASE x = new
      <4>1. lineage'[new].family = old.family
        BY <1>2
      <4>2. \A k \in RefreshTtl : tokenItem'[new].expiresAt <= clock' + k
        BY <1>5, <1>7, <2>2
      <4> QED
        BY <1>2, <2>2, <3>1, <4>1, <4>2
    <3>2. CASE x # new
      BY <1>2, <1>3, <1>5, <3>2 DEF Inductive, ItemsMatchLineage
    <3> QED
      BY <3>1, <3>2
  <2>4. \A g \in DOMAIN familyItem' : Used(g)'
    BY <1>2, <1>5 DEF Inductive, ItemsMatchLineage, Used
  <2> QED
    BY <2>3, <2>4 DEF ItemsMatchLineage
<1>9. CallsMatchItems'
  <2> SUFFICES ASSUME NEW v \in DOMAIN call' PROVE CallMatchesItems(call[v])'
    BY DEF CallsMatchItems
  <2>1. CallMatchesItems(call[v]) /\ call'[v] = call[v] /\ call[v].token # new
    BY <1>2, <1>6 DEF Inductive, CallsMatchItems, CallMatchesItems
  <2> QED
    BY <1>2, <1>3, <1>5, <2>1 DEF CallMatchesItems
<1>10. MarkerOutlivesToken'
  <2> SUFFICES ASSUME NEW u \in DOMAIN lineage', lineage'[u].parent # Root
               PROVE  LET p == lineage'[u].parent IN
                      /\ p \in DOMAIN lineage'
                      /\ p \in DOMAIN tokenItem' =>
                           \/ p \in DOMAIN marker' /\ marker'[p].expiresAt >= tokenItem'[p].expiresAt
                           \/ tokenItem'[p].expiresAt + SweepLag <= clock'
    BY DEF MarkerOutlivesToken
  <2>1. CASE u = new
    BY <1>2, <1>3, <1>4, <1>7, <2>1 DEF Inductive, TypeOK
  <2>2. CASE u # new
    <3>1. u \in DOMAIN lineage /\ lineage'[u] = lineage[u] /\ lineage[u].parent # Root
      BY <1>2, <2>2
    <3>2. lineage[u].parent \in DOMAIN lineage /\ lineage[u].parent # new
      BY <1>2, <3>1 DEF Inductive, MarkerOutlivesToken
    <3>3. lineage[u].parent # t
      BY <3>1, CommitIsFirst DEF Successors
    <3> QED
      BY <1>2, <1>3, <1>4, <1>5, <3>1, <3>2, <3>3 DEF Inductive, MarkerOutlivesToken
  <2> QED
    BY <2>1, <2>2
<1>11. SingleSuccessor'
  <2>1. \A u \in DOMAIN lineage : lineage[u].parent # t
    BY CommitIsFirst DEF Successors
  <2> QED
    BY <1>2, <2>1 DEF Inductive, SingleSuccessor
<1> QED
  BY <1>8, <1>9, <1>10, <1>11 DEF Inductive

LEMMA RevokeKeeps ==
    ASSUME Inductive, TypeOK', NEW w \in Worker, RevokeRefreshFamily(w)
    PROVE  Inductive'
<1>1. DOMAIN familyItem' = DOMAIN familyItem /\ UNCHANGED <<clock, tokenItem, marker, lineage>>
  BY DEF RevokeRefreshFamily
<1>2. ItemsMatchLineage' /\ MarkerOutlivesToken' /\ SingleSuccessor'
  BY <1>1 DEF Inductive, ItemsMatchLineage, MarkerOutlivesToken, SingleSuccessor, Used
<1>3. CallsMatchItems'
  BY <1>1, AnswerMatches DEF RevokeRefreshFamily
<1> QED
  BY <1>2, <1>3 DEF Inductive

LEMMA SweepKeeps ==
    ASSUME Inductive, TypeOK',
           NEW k, SweepToken(k) \/ SweepMarker(k) \/ SweepFamily(k)
    PROVE  Inductive'
<1> USE DynamoRefreshAssumption
<1>1. /\ DOMAIN tokenItem' \subseteq DOMAIN tokenItem
      /\ \A x \in DOMAIN tokenItem' : tokenItem'[x] = tokenItem[x]
      /\ DOMAIN familyItem' \subseteq DOMAIN familyItem
      /\ UNCHANGED <<clock, call, lineage>>
  BY DEF SweepToken, SweepMarker, SweepFamily, DeleteItem
<1>2. \A x \in DOMAIN marker :
        \/ x \in DOMAIN marker' /\ marker'[x] = marker[x]
        \/ marker[x].expiresAt + SweepLag <= clock
  BY DEF SweepToken, SweepMarker, SweepFamily, DeleteItem, Sweepable
<1>3. ItemsMatchLineage'
  BY <1>1 DEF Inductive, ItemsMatchLineage, Used
<1>4. CallsMatchItems'
  <2> SUFFICES ASSUME NEW v \in DOMAIN call' PROVE CallMatchesItems(call[v])'
    BY DEF CallsMatchItems
  <2>1. CallMatchesItems(call[v]) /\ call'[v] = call[v]
    BY <1>1 DEF Inductive, CallsMatchItems
  <2> QED
    BY <1>1, <2>1 DEF CallMatchesItems
<1>5. MarkerOutlivesToken'
  <2> SUFFICES ASSUME NEW u \in DOMAIN lineage', lineage'[u].parent # Root
               PROVE  LET p == lineage'[u].parent IN
                      /\ p \in DOMAIN lineage'
                      /\ p \in DOMAIN tokenItem' =>
                           \/ p \in DOMAIN marker' /\ marker'[p].expiresAt >= tokenItem'[p].expiresAt
                           \/ tokenItem'[p].expiresAt + SweepLag <= clock'
    BY DEF MarkerOutlivesToken
  <2> DEFINE p == lineage[u].parent
  <2>1. u \in DOMAIN lineage /\ p # Root /\ p \in DOMAIN lineage /\ lineage' = lineage
    BY <1>1 DEF Inductive, MarkerOutlivesToken
  <2>2. CASE p \in DOMAIN tokenItem'
    <3>1. /\ p \in DOMAIN tokenItem /\ tokenItem'[p] = tokenItem[p]
          /\ tokenItem[p].expiresAt \in Nat /\ clock \in Nat /\ clock' = clock
      BY <1>1, <2>2 DEF Inductive, TypeOK, TokenItem
    <3>2. \/ p \in DOMAIN marker /\ marker[p].expiresAt >= tokenItem[p].expiresAt
          \/ tokenItem[p].expiresAt + SweepLag <= clock
      BY <2>1, <3>1 DEF Inductive, MarkerOutlivesToken
    <3>3. CASE p \in DOMAIN marker /\ marker[p].expiresAt >= tokenItem[p].expiresAt
      <4>1. marker[p].expiresAt \in Nat
        BY <3>3 DEF Inductive, TypeOK, MarkerItem
      <4> QED
        BY <1>2, <2>1, <3>1, <3>3, <4>1
    <3> QED
      BY <2>1, <3>1, <3>2, <3>3
  <2> QED
    BY <2>1, <2>2
<1>6. SingleSuccessor'
  BY <1>1 DEF Inductive, SingleSuccessor
<1> QED
  BY <1>3, <1>4, <1>5, <1>6 DEF Inductive

LEMMA TickKeeps ==
    ASSUME Inductive, TypeOK', Tick
    PROVE  Inductive'
<1> USE DynamoRefreshAssumption
<1>1. /\ clock' = clock + 1 /\ clock \in Nat
      /\ UNCHANGED <<tokenItem, familyItem, marker, call, lineage>>
      /\ \A v \in DOMAIN call : clock < call[v].startedAt + MaxRequestAge
  BY DEF Tick, Inductive, TypeOK
<1>2. ItemsMatchLineage'
  BY <1>1 DEF Inductive, ItemsMatchLineage, Used, TypeOK, TokenItem
<1>3. CallsMatchItems'
  <2> SUFFICES ASSUME NEW v \in DOMAIN call' PROVE CallMatchesItems(call[v])'
    BY DEF CallsMatchItems
  <2>1. CallMatchesItems(call[v]) /\ call' = call /\ call[v] \in Call
    BY <1>1 DEF Inductive, CallsMatchItems, TypeOK
  <2>2. call[v].now <= clock' /\ clock' <= call[v].startedAt + MaxRequestAge
    BY <1>1, <2>1 DEF CallMatchesItems, Call
  <2> QED
    BY <1>1, <2>1, <2>2 DEF CallMatchesItems
<1>4. MarkerOutlivesToken'
  BY <1>1 DEF Inductive, MarkerOutlivesToken, TypeOK, TokenItem
<1>5. SingleSuccessor'
  BY <1>1 DEF Inductive, SingleSuccessor
<1> QED
  BY <1>2, <1>3, <1>4, <1>5 DEF Inductive

(* The steps that only read, or give up. *)
LEMMA ReadKeeps ==
    ASSUME Inductive, TypeOK', NEW w \in Worker,
           \/ \E t \in Token, c \in Client, accepted \in SUBSET Resource :
                RotateReadToken(w, t, c, accepted)
           \/ RotateValidate(w)
           \/ RotateReadFamily(w)
           \/ RotateReadMarker(w)
           \/ \E new \in Token : RotateCancelled(w, new)
           \/ CallFails(w)
    PROVE  Inductive'
<1> USE DynamoRefreshAssumption
<1>1. UNCHANGED <<clock, tokenItem, familyItem, marker, lineage>>
  BY DEF RotateReadToken, RotateValidate, RotateReadFamily, RotateReadMarker, RotateCancelled, CallFails
<1>2. ItemsMatchLineage' /\ MarkerOutlivesToken' /\ SingleSuccessor'
  BY <1>1, TableUnchanged
<1>3. ASSUME w \in DOMAIN call PROVE call[w] \in Call /\ CallMatchesItems(call[w])
  BY <1>3 DEF Inductive, TypeOK, CallsMatchItems
<1>4. CallsMatchItems'
  <2>1. ASSUME NEW t \in Token, NEW c \in Client, NEW accepted \in SUBSET Resource,
               RotateReadToken(w, t, c, accepted)
        PROVE CallsMatchItems'
    <3> DEFINE next == [pc |-> "validate", token |-> t, client |-> c, accepted |-> accepted,
                        old |-> tokenItem[t], now |-> clock, startedAt |-> clock]
    <3>1. CASE HasItem(tokenItem, t)
      <4>1. next \in Call
        BY <3>1 DEF Call, Phase, HasItem, Inductive, TypeOK
      <4>2. CallMatchesItems(next)
        BY <3>1 DEF CallMatchesItems, HasItem, Inductive, ItemsMatchLineage, TypeOK
      <4>3. Continue(w, next)
        BY <2>1, <3>1 DEF RotateReadToken
      <4> QED
        BY <1>1, <4>1, <4>2, <4>3, ContinueMatches
    <3>2. CASE ~HasItem(tokenItem, t)
      <4>1. call' = call
        BY <2>1, <3>2 DEF RotateReadToken
      <4> QED
        BY <1>1, <4>1 DEF Inductive, CallsMatchItems, CallMatchesItems
    <3> QED
      BY <3>1, <3>2
  <2>2. CASE RotateValidate(w)
    <3> DEFINE next == [call[w] EXCEPT !.pc = "family", !.now = clock]
    <3>1. w \in DOMAIN call
      BY <2>2 DEF RotateValidate
    <3>2. CASE TokenValid(call[w].old, call[w].client, call[w].accepted, clock)
      <4>1. next \in Call
        BY <1>3, <3>1 DEF Call, Phase, Inductive, TypeOK
      <4>2. /\ next.token = call[w].token /\ next.old = call[w].old /\ next.now = clock
            /\ next.startedAt = call[w].startedAt /\ next.client = call[w].client
        BY <1>3, <3>1 DEF Call
      <4>3. call[w].startedAt <= clock /\ clock <= clock
        BY <1>3, <3>1 DEF Call, CallMatchesItems, Inductive, TypeOK
      <4>4. CallMatchesItems(next)
        BY <1>3, <3>1, <3>2, <4>2, <4>3 DEF CallMatchesItems, TokenValid
      <4> QED
        BY <1>1, <2>2, <3>2, <4>1, <4>4, ContinueMatches DEF RotateValidate
    <3>3. CASE ~TokenValid(call[w].old, call[w].client, call[w].accepted, clock)
      BY <1>1, <2>2, <3>3, AnswerMatches DEF RotateValidate
    <3> QED
      BY <3>2, <3>3
  <2>3. ASSUME w \in DOMAIN call, call[w].pc # "validate", NEW pc \in Phase,
               Continue(w, [call[w] EXCEPT !.pc = pc])
        PROVE CallsMatchItems'
    <3> DEFINE next == [call[w] EXCEPT !.pc = pc]
    <3>1. next \in Call
      BY <1>3, <2>3 DEF Call
    <3>2. /\ next.token = call[w].token /\ next.old = call[w].old /\ next.now = call[w].now
          /\ next.startedAt = call[w].startedAt /\ next.client = call[w].client
      BY <1>3, <2>3 DEF Call
    <3>3. CallMatchesItems(next)
      BY <1>3, <2>3, <3>2 DEF CallMatchesItems
    <3> QED
      BY <1>1, <2>3, <3>1, <3>3, ContinueMatches
  <2>4. CASE RotateReadFamily(w)
    BY <1>1, <2>3, <2>4, AnswerMatches DEF RotateReadFamily, Phase
  <2>5. CASE RotateReadMarker(w)
    BY <2>3, <2>5 DEF RotateReadMarker, Phase
  <2>6. ASSUME NEW new \in Token, RotateCancelled(w, new) PROVE CallsMatchItems'
    BY <2>3, <2>6 DEF RotateCancelled, Phase
  <2>7. CASE CallFails(w)
    BY <1>1, <2>7, AnswerMatches DEF CallFails
  <2> QED
    BY <2>1, <2>2, <2>4, <2>5, <2>6, <2>7
<1> QED
  BY <1>2, <1>4 DEF Inductive

(* Every step of the protocol keeps the invariant. *)
LEMMA InductiveStep ==
    ASSUME Inductive, StableTtl, LateSweep, [Next]_vars
    PROVE  Inductive'
<1>1. TypeOK'
  BY TypeStep DEF Inductive
<1>2. ASSUME NEW w \in Worker, RotateStep(w) PROVE Inductive'
  <2>1. ASSUME NEW new \in Token, NEW ttl \in RefreshTtl, RotateCommit(w, new, ttl)
        PROVE Inductive'
    BY <1>1, <2>1, CommitKeeps
  <2>2. CASE RevokeRefreshFamily(w)
    BY <1>1, <2>2, RevokeKeeps
  <2> QED
    BY <1>1, <1>2, <2>1, <2>2, ReadKeeps DEF RotateStep
<1>3. ASSUME NEW t \in Token, NEW f \in Family, NEW c \in Client, NEW r \in Resource,
             NEW createdAt \in 0..MaxClock, NEW ttl \in RefreshTtl,
             CreateRefreshToken(t, f, c, r, createdAt, ttl)
      PROVE Inductive'
  BY <1>1, <1>3, CreateKeeps
<1>4. ASSUME NEW t \in Token, SweepToken(t) \/ SweepMarker(t) PROVE Inductive'
  BY <1>1, <1>4, SweepKeeps
<1>5. ASSUME NEW f \in Family, SweepFamily(f) PROVE Inductive'
  BY <1>1, <1>5, SweepKeeps
<1>6. CASE Tick
  BY <1>1, <1>6, TickKeeps
<1>7. CASE UNCHANGED vars
  <2>1. CallsMatchItems'
    BY <1>7 DEF vars, Inductive, CallsMatchItems, CallMatchesItems
  <2> QED
    BY <1>1, <1>7, <2>1, TableUnchanged DEF vars, Inductive
<1> QED
  BY <1>2, <1>3, <1>4, <1>5, <1>6, <1>7 DEF Next

(* The invariant holds in every reachable state. *)
THEOREM InductiveInvariant ==
    ASSUME StableTtl, LateSweep
    PROVE  Spec => []Inductive
<1>1. Init => Inductive
  BY DEF Init, Inductive, TypeOK, EmptyTable, Reply, ItemsMatchLineage, CallsMatchItems,
         MarkerOutlivesToken, SingleSuccessor
<1>2. Inductive /\ [Next]_vars => Inductive'
  BY InductiveStep
<1> QED
  BY <1>1, <1>2, PTL DEF Spec

(* A refresh token is exchanged for at most one successor: rotateRefreshToken *)
(* never forks a family, for any number of concurrent calls, lost answers,    *)
(* failed requests and sweeps, as long as REFRESH_TOKEN_TTL_SECONDS stays.    *)
THEOREM NoFork ==
    ASSUME StableTtl, LateSweep
    PROVE  Spec => []SingleSuccessor
<1>1. Inductive => SingleSuccessor
  BY DEF Inductive
<1> QED
  BY <1>1, InductiveInvariant, PTL

-----------------------------------------------------------------------------
(* The store implements RefreshFamily. *)

(* A step that mints nothing and changes no family item closes nothing. *)
LEMMA QuietStep ==
    ASSUME UNCHANGED <<lineage, familyItem>>
    PROVE  UNCHANGED Abstract!familyVars
  BY DEF Abstract!familyVars, closedFamilies, Used

LEMMA GrantRefines ==
    ASSUME NEW t \in Token, NEW f \in Family, NEW c \in Client, NEW r \in Resource,
           NEW createdAt \in 0..MaxClock, NEW ttl \in RefreshTtl,
           CreateRefreshToken(t, f, c, r, createdAt, ttl)
    PROVE  Abstract!Grant(t, f)
<1>1. t \notin DOMAIN lineage /\ ~Abstract!Used(f)
      /\ lineage' = PutItem(lineage, t, [parent |-> Root, family |-> f])
  BY DEF CreateRefreshToken, Used, Abstract!Used
<1>2. \A g \in Family : Used(g)' <=> (Used(g) \/ g = f)
  BY <1>1 DEF Used, PutItem
<1>3. /\ DOMAIN familyItem' = DOMAIN familyItem \cup {f}
      /\ familyItem'[f].revoked = FALSE
      /\ \A g \in DOMAIN familyItem : g # f => familyItem'[g] = familyItem[g]
  BY DEF CreateRefreshToken, PutItem
<1>4. ~Used(f)
  BY DEF CreateRefreshToken
<1>5. closedFamilies' = closedFamilies
  <2>1. \A g \in Family :
          (Used(g)' /\ (g \notin DOMAIN familyItem' \/ familyItem'[g].revoked))
            <=> (Used(g) /\ (g \notin DOMAIN familyItem \/ familyItem[g].revoked))
    BY <1>2, <1>3, <1>4
  <2> QED
    BY <2>1 DEF closedFamilies
<1> QED
  BY <1>1, <1>5 DEF Abstract!Grant, Abstract!PutItem, PutItem

LEMMA CommitRefines ==
    ASSUME Inductive, LateSweep,
           NEW w \in Worker, NEW new \in Token, NEW ttl \in RefreshTtl,
           RotateCommit(w, new, ttl)
    PROVE  call[w].token \in Token /\ Abstract!Rotate(call[w].token, new)
<1> DEFINE t == call[w].token
           f == call[w].old.family
<1>1. w \in DOMAIN call /\ call[w] \in Call /\ CallMatchesItems(call[w])
  BY DEF RotateCommit, Inductive, TypeOK, CallsMatchItems
<1>2. t \in Token /\ t \in DOMAIN lineage /\ f = lineage[t].family /\ f \in Family
  BY <1>1 DEF Call, TokenItem, CallMatchesItems
<1>3. Abstract!Successors(t) = {}
  BY CommitIsFirst DEF Successors, Abstract!Successors
<1>4. /\ f \in DOMAIN familyItem /\ ~familyItem[f].revoked
      /\ familyItem' = [familyItem EXCEPT ![f].expiresAt = call[w].now + ttl]
      /\ new \notin DOMAIN lineage
      /\ lineage' = PutItem(lineage, new, [parent |-> t, family |-> f])
  BY DEF RotateCommit, TransactionHolds, TransactionWrites, FamilyOpen, ExpiresAfter, HasItem
<1>5. f \notin closedFamilies
  BY <1>4 DEF closedFamilies
<1>6. /\ DOMAIN familyItem' = DOMAIN familyItem
      /\ \A g \in DOMAIN familyItem : familyItem'[g].revoked = familyItem[g].revoked
  <2>1. \A g \in DOMAIN familyItem : familyItem[g] \in FamilyItem
    BY DEF Inductive, TypeOK
  <2> QED
    BY <1>4, <2>1 DEF FamilyItem
<1>7. \A g \in Family : Used(g)' <=> Used(g)
  BY <1>2, <1>4 DEF Used, PutItem
<1>8. closedFamilies' = closedFamilies
  BY <1>6, <1>7 DEF closedFamilies
<1> QED
  BY <1>2, <1>3, <1>4, <1>5, <1>8 DEF Abstract!Rotate, Abstract!PutItem, PutItem

(* Closing, the only other thing that may happen to a family. *)
LEMMA CloseRefines ==
    ASSUME Inductive, NEW f \in Family, UNCHANGED lineage,
           Used(f),
           \/ familyItem' = [familyItem EXCEPT ![f].revoked = TRUE] /\ f \in DOMAIN familyItem
           \/ familyItem' = DeleteItem(familyItem, f)
    PROVE  Abstract!Close(f)
<1>1. \A g \in Family : Used(g)' <=> Used(g)
  BY DEF Used
<1>2. \A g \in Family : g # f =>
        ((g \in DOMAIN familyItem' <=> g \in DOMAIN familyItem)
          /\ (g \in DOMAIN familyItem => familyItem'[g] = familyItem[g]))
  BY DEF DeleteItem
<1>3. f \notin DOMAIN familyItem' \/ familyItem'[f].revoked
  <2>1. f \in DOMAIN familyItem => familyItem[f] \in FamilyItem
    BY DEF Inductive, TypeOK
  <2> QED
    BY <2>1 DEF DeleteItem, FamilyItem
<1>4. closedFamilies' = closedFamilies \cup {f}
  BY <1>1, <1>2, <1>3 DEF closedFamilies
<1> QED
  BY <1>4 DEF Abstract!Close, Abstract!Used, Used

(* Every behaviour of the DynamoDB rotation protocol is a behaviour of the  *)
(* abstract family: grant, rotate at the tip, close, and nothing else.      *)
THEOREM ImplementsRefreshFamily ==
    ASSUME StableTtl, LateSweep
    PROVE  Spec => ImplementsFamily
<1>1. Init => Abstract!FamilyInit
  BY DEF Init, Abstract!FamilyInit, EmptyTable, Abstract!EmptyTable, closedFamilies, Used
<1>2. Inductive /\ [Next]_vars => [Abstract!FamilyNext]_(Abstract!familyVars)
  <2> SUFFICES ASSUME Inductive, [Next]_vars
               PROVE  [Abstract!FamilyNext]_(Abstract!familyVars)
    OBVIOUS
  <2>1. ASSUME NEW t \in Token, NEW f \in Family, NEW c \in Client, NEW r \in Resource,
               NEW createdAt \in 0..MaxClock, NEW ttl \in RefreshTtl,
               CreateRefreshToken(t, f, c, r, createdAt, ttl)
        PROVE Abstract!FamilyNext
    BY <2>1, GrantRefines DEF Abstract!FamilyNext
  <2>2. ASSUME NEW w \in Worker, NEW new \in Token, NEW ttl \in RefreshTtl,
               RotateCommit(w, new, ttl)
        PROVE Abstract!FamilyNext
    BY <2>2, CommitRefines DEF Abstract!FamilyNext
  <2>3. ASSUME NEW w \in Worker, RevokeRefreshFamily(w)
        PROVE Abstract!FamilyNext \/ UNCHANGED Abstract!familyVars
    <3> DEFINE f == call[w].old.family
    <3>1. f \in Family /\ UNCHANGED lineage
      BY <2>3 DEF RevokeRefreshFamily, Inductive, TypeOK, Call, TokenItem
    <3>2. CASE f \in DOMAIN familyItem /\ ~familyItem[f].revoked
      <4>1. Used(f)
        BY <3>2 DEF Inductive, ItemsMatchLineage
      <4>2. familyItem' = [familyItem EXCEPT ![f].revoked = TRUE]
        BY <2>3, <3>2 DEF RevokeRefreshFamily, HasItem
      <4> QED
        BY <3>1, <3>2, <4>1, <4>2, CloseRefines DEF Abstract!FamilyNext
    <3>3. CASE ~(f \in DOMAIN familyItem /\ ~familyItem[f].revoked)
      <4>1. UNCHANGED familyItem
        BY <2>3, <3>3 DEF RevokeRefreshFamily, HasItem
      <4> QED
        BY <3>1, <4>1, QuietStep
    <3> QED
      BY <3>2, <3>3
  <2>4. ASSUME NEW w \in Worker, RotateStep(w)
        PROVE Abstract!FamilyNext \/ UNCHANGED Abstract!familyVars
    <3>1. \/ UNCHANGED <<lineage, familyItem>>
          \/ \E new \in Token, ttl \in RefreshTtl : RotateCommit(w, new, ttl)
          \/ RevokeRefreshFamily(w)
      BY <2>4 DEF RotateStep, RotateReadToken, RotateValidate, RotateReadFamily,
                  RotateReadMarker, RotateCancelled, CallFails
    <3> QED
      BY <2>2, <2>3, <3>1, QuietStep
  <2>5. ASSUME NEW f \in Family, SweepFamily(f) PROVE Abstract!FamilyNext
    <3>1. Used(f) /\ familyItem' = DeleteItem(familyItem, f) /\ UNCHANGED lineage
      BY <2>5 DEF SweepFamily, Sweepable, HasItem, Inductive, ItemsMatchLineage
    <3> QED
      BY <3>1, CloseRefines DEF Abstract!FamilyNext
  <2>6. ASSUME \/ \E t \in Token : SweepToken(t) \/ SweepMarker(t)
               \/ Tick
               \/ UNCHANGED vars
        PROVE UNCHANGED Abstract!familyVars
    <3>1. UNCHANGED <<lineage, familyItem>>
      BY <2>6 DEF SweepToken, SweepMarker, Tick, vars
    <3> QED
      BY <3>1, QuietStep
  <2> QED
    BY <2>1, <2>4, <2>5, <2>6 DEF Next
<1> QED
  BY <1>1, <1>2, InductiveInvariant, PTL DEF Spec, ImplementsFamily, Abstract!FamilySpec

-----------------------------------------------------------------------------
(* Refusals. *)

(* A call that presented a valid token and is told invalid_grant leaves the *)
(* family unusable, whatever RefreshTtl, SweepLag and MaxRequestAge are:    *)
(* either the family was found closed or the call has just closed it.       *)
THEOREM RefusalsCloseFamilies == Spec => RefusalClosesFamily
<1> DEFINE Closes(w) ==
             LET f == call[w].old.family IN
             \/ f \notin DOMAIN familyItem'
             \/ familyItem'[f].revoked
             \/ familyItem'[f].expiresAt <= call[w].now
<1>1. ASSUME TypeOK, [Next]_vars, NEW w \in DOMAIN call,
             call[w].pc # "validate", w \notin DOMAIN call', reply' = "invalid_grant"
      PROVE  Closes(w)
  <2>1. w \in Worker /\ call[w] \in Call
    BY <1>1 DEF TypeOK
  <2>2. \/ RotateReadFamily(w) /\ ~FamilyOpen(call[w].old.family, call[w].now)
        \/ RevokeRefreshFamily(w)
    <3>1. ASSUME NEW v \in Worker, RotateStep(v) PROVE v = w
      BY <1>1, <3>1 DEF RotateStep, RotateReadToken, RotateValidate, RotateReadFamily, RotateReadMarker,
                        RotateCommit, RotateCancelled, RevokeRefreshFamily, CallFails,
                        Continue, Answer, PutItem, DeleteItem
    <3>2. \E v \in Worker : RotateStep(v)
      BY <1>1 DEF Next, CreateRefreshToken, SweepToken, SweepMarker, SweepFamily, Tick, vars
    <3>3. RotateStep(w)
      BY <3>1, <3>2
    <3> QED
      BY <1>1, <3>3 DEF RotateStep, RotateReadToken, RotateValidate, RotateReadFamily, RotateReadMarker,
                        RotateCommit, RotateCancelled, CallFails, Continue, Answer, PutItem
  <2>3. CASE RotateReadFamily(w) /\ ~FamilyOpen(call[w].old.family, call[w].now)
    <3>1. familyItem' = familyItem
      BY <2>3 DEF RotateReadFamily
    <3>2. \A g \in DOMAIN familyItem : familyItem[g].expiresAt \in Nat
      BY <1>1 DEF TypeOK, FamilyItem
    <3> QED
      BY <2>1, <2>3, <3>1, <3>2 DEF FamilyOpen, ExpiresAfter, HasItem, Call
  <2>4. CASE RevokeRefreshFamily(w)
    <3>1. \A g \in DOMAIN familyItem : familyItem[g] \in FamilyItem
      BY <1>1 DEF TypeOK
    <3> QED
      BY <2>4, <3>1 DEF RevokeRefreshFamily, HasItem, FamilyItem
  <2> QED
    BY <2>2, <2>3, <2>4
<1>2. TypeOK /\ [Next]_vars => [\A w \in DOMAIN call :
          (call[w].pc # "validate" /\ w \notin DOMAIN call' /\ reply' = "invalid_grant") => Closes(w)]_vars
  BY <1>1
<1> QED
  BY <1>2, TypeCorrect, PTL DEF Spec, RefusalClosesFamily

-----------------------------------------------------------------------------
(* Revocations. *)

(* A rotation marker stands for an exchange that happened. *)
MarkersMeanRotation == \A t \in DOMAIN marker : Successors(t) # {}

(* A family has one token that was not exchanged yet. *)
OneTip ==
    \A x, y \in DOMAIN lineage :
        lineage[x].family = lineage[y].family /\ Successors(x) = {} /\ Successors(y) = {} => x = y

(* A family's item lives at least as long as the items of its tokens. *)
FamilyOutlivesTokens ==
    /\ \A t \in DOMAIN tokenItem :
          tokenItem[t].family \in DOMAIN familyItem =>
            tokenItem[t].expiresAt <= familyItem[tokenItem[t].family].expiresAt
    /\ \A f \in DOMAIN familyItem : \A ttl \in RefreshTtl : familyItem[f].expiresAt <= clock + ttl

(* Calls: the token a call works on is not swept while the call finds it    *)
(* valid; a call at the tip started after the family was last extended; and *)
(* a call that is going to revoke has seen a replay, or comes too late.     *)
CallJustified(c) ==
    /\ c.token \in DOMAIN tokenItem \/ c.old.expiresAt + SweepLag <= clock
    /\ Successors(c.token) = {} /\ c.old.family \in DOMAIN familyItem =>
          \A ttl \in RefreshTtl : familyItem[c.old.family].expiresAt <= c.startedAt + ttl
    /\ c.pc = "revoke" =>
          \/ Successors(c.token) # {}
          \/ c.old.family \notin DOMAIN familyItem
          \/ familyItem[c.old.family].revoked

CallsJustified == \A w \in DOMAIN call : CallJustified(call[w])

Justified == MarkersMeanRotation /\ OneTip /\ FamilyOutlivesTokens /\ CallsJustified

(* What holds of a call survives a step that leaves the call, the history   *)
(* and the item of its token alone, and the item of its family but for a    *)
(* removal or a revocation.                                                 *)
LEMMA StaysJustified ==
    ASSUME NEW c \in Call, CallJustified(c), TypeOK, TypeOK', UNCHANGED lineage, clock <= clock',
           DOMAIN familyItem' \subseteq DOMAIN familyItem,
           \A f \in DOMAIN familyItem' :
              /\ familyItem'[f].expiresAt = familyItem[f].expiresAt
              /\ familyItem[f].revoked => familyItem'[f].revoked,
           \A t \in DOMAIN tokenItem :
              t \in DOMAIN tokenItem' \/ tokenItem[t].expiresAt + SweepLag <= clock,
           c.token \in DOMAIN tokenItem => tokenItem[c.token] = c.old
    PROVE  /\ c.token \in DOMAIN tokenItem' \/ c.old.expiresAt + SweepLag <= clock'
           /\ Successors(c.token) = {} /\ c.old.family \in DOMAIN familyItem' =>
                 \A ttl \in RefreshTtl : familyItem'[c.old.family].expiresAt <= c.startedAt + ttl
           /\ c.pc = "revoke" =>
                 \/ Successors(c.token) # {}
                 \/ c.old.family \notin DOMAIN familyItem'
                 \/ familyItem'[c.old.family].revoked
<1> USE DynamoRefreshAssumption
<1>1. c.old.expiresAt \in Nat /\ clock \in Nat /\ clock' \in Nat
  BY DEF Call, TokenItem, TypeOK
<1>2. c.token \in DOMAIN tokenItem' \/ c.old.expiresAt + SweepLag <= clock'
  BY <1>1 DEF CallJustified
<1> QED
  BY <1>2 DEF CallJustified

(* The steps that read, answer, revoke, sweep or let time pass. *)
LEMMA QuietJustified ==
    ASSUME Inductive, Inductive', Justified, UNCHANGED lineage, clock <= clock',
           DOMAIN marker' \subseteq DOMAIN marker,
           DOMAIN familyItem' \subseteq DOMAIN familyItem,
           \A f \in DOMAIN familyItem' :
              /\ familyItem'[f].expiresAt = familyItem[f].expiresAt
              /\ familyItem[f].revoked => familyItem'[f].revoked,
           DOMAIN tokenItem' \subseteq DOMAIN tokenItem,
           \A t \in DOMAIN tokenItem' : tokenItem'[t] = tokenItem[t],
           \A t \in DOMAIN tokenItem :
              t \in DOMAIN tokenItem' \/ tokenItem[t].expiresAt + SweepLag <= clock,
           \A v \in DOMAIN call' :
              \/ v \in DOMAIN call /\ call'[v] = call[v]
              \/ CallJustified(call[v])'
    PROVE  Justified'
<1> USE DynamoRefreshAssumption
<1>1. MarkersMeanRotation' /\ OneTip'
  BY DEF Justified, MarkersMeanRotation, OneTip, Successors
<1>2. FamilyOutlivesTokens'
  <2>1. /\ clock \in Nat /\ clock' \in Nat
        /\ \A f \in DOMAIN familyItem : familyItem[f].expiresAt \in Nat
    BY DEF Inductive, TypeOK, FamilyItem
  <2>2. \A f \in DOMAIN familyItem' : \A ttl \in RefreshTtl : familyItem'[f].expiresAt <= clock' + ttl
    BY <2>1 DEF Justified, FamilyOutlivesTokens
  <2> QED
    BY <2>2 DEF Justified, FamilyOutlivesTokens
<1>3. CallsJustified'
  <2> SUFFICES ASSUME NEW v \in DOMAIN call', v \in DOMAIN call, call'[v] = call[v]
               PROVE  CallJustified(call[v])'
    BY DEF CallsJustified
  <2>1. /\ call[v] \in Call /\ CallJustified(call[v])
        /\ call[v].token \in DOMAIN tokenItem => tokenItem[call[v].token] = call[v].old
    BY DEF Inductive, TypeOK, CallsMatchItems, CallMatchesItems, Justified, CallsJustified
  <2>2. TypeOK /\ TypeOK' /\ \A t : Successors(t)' = Successors(t)
    BY DEF Inductive, Successors
  <2>3. /\ call[v].token \in DOMAIN tokenItem' \/ call[v].old.expiresAt + SweepLag <= clock'
        /\ Successors(call[v].token) = {} /\ call[v].old.family \in DOMAIN familyItem' =>
              \A ttl \in RefreshTtl : familyItem'[call[v].old.family].expiresAt <= call[v].startedAt + ttl
        /\ call[v].pc = "revoke" =>
              \/ Successors(call[v].token) # {}
              \/ call[v].old.family \notin DOMAIN familyItem'
              \/ familyItem'[call[v].old.family].revoked
    BY <2>1, <2>2, StaysJustified
  <2> QED
    BY <2>3 DEF CallJustified, Successors
<1> QED
  BY <1>1, <1>2, <1>3 DEF Justified

LEMMA CreateJustified ==
    ASSUME Inductive, Justified, StableTtl,
           NEW t \in Token, NEW f \in Family, NEW c \in Client, NEW r \in Resource,
           NEW createdAt \in 0..MaxClock, NEW ttl \in RefreshTtl,
           CreateRefreshToken(t, f, c, r, createdAt, ttl)
    PROVE  Justified'
<1> USE DynamoRefreshAssumption
<1>1. /\ t \notin DOMAIN lineage
      /\ DOMAIN lineage' = DOMAIN lineage \cup {t}
      /\ lineage'[t] = [parent |-> Root, family |-> f]
      /\ \A u \in DOMAIN lineage : lineage'[u] = lineage[u] /\ lineage[u].family # f
  BY DEF CreateRefreshToken, PutItem, Used
<1>2. /\ DOMAIN tokenItem' = DOMAIN tokenItem \cup {t}
      /\ tokenItem'[t].family = f /\ tokenItem'[t].expiresAt = createdAt + ttl
      /\ \A u \in DOMAIN tokenItem : tokenItem'[u] = tokenItem[u]
  BY <1>1 DEF CreateRefreshToken, HasItem, PutItem
<1>3. /\ DOMAIN familyItem' = DOMAIN familyItem \cup {f} /\ f \notin DOMAIN familyItem
      /\ familyItem'[f].expiresAt = createdAt + ttl
      /\ \A g \in DOMAIN familyItem : familyItem'[g] = familyItem[g]
      /\ UNCHANGED <<clock, marker, call>>
      /\ createdAt <= clock
  BY DEF CreateRefreshToken, HasItem, PutItem
<1>4. \A x \in Token : Successors(x)' = Successors(x)
  BY <1>1 DEF Successors
<1>5. DOMAIN marker \subseteq Token /\ DOMAIN lineage \subseteq Token
  BY DEF Inductive, TypeOK
<1>6. MarkersMeanRotation'
  BY <1>3, <1>4, <1>5 DEF Justified, MarkersMeanRotation
<1>7. OneTip'
  <2> SUFFICES ASSUME NEW x \in DOMAIN lineage', NEW y \in DOMAIN lineage',
                      lineage'[x].family = lineage'[y].family, Successors(x)' = {}, Successors(y)' = {}
               PROVE  x = y
    BY DEF OneTip
  <2>1. CASE x = t \/ y = t
    BY <1>1, <2>1
  <2>2. CASE x # t /\ y # t
    BY <1>1, <1>4, <1>5, <2>2 DEF Justified, OneTip
  <2> QED
    BY <2>1, <2>2
<1>8. FamilyOutlivesTokens'
  <2>1. \A k \in RefreshTtl : createdAt + ttl <= clock + k
    BY <1>3 DEF StableTtl, Inductive, TypeOK
  <2>2. \A u \in DOMAIN tokenItem : tokenItem[u].family # f
    BY <1>1 DEF Inductive, ItemsMatchLineage
  <2> QED
    BY <1>2, <1>3, <2>1, <2>2 DEF Justified, FamilyOutlivesTokens
<1>9. CallsJustified'
  <2> SUFFICES ASSUME NEW v \in DOMAIN call PROVE CallJustified(call[v])'
    BY <1>3 DEF CallsJustified
  <2>1. CallJustified(call[v]) /\ call'[v] = call[v] /\ call[v].token \in DOMAIN lineage
        /\ call[v].old.family # f
    BY <1>1, <1>3 DEF Inductive, CallsMatchItems, CallMatchesItems, Justified, CallsJustified
  <2>2. Successors(call[v].token)' = Successors(call[v].token)
    BY <1>1, <1>5, <2>1 DEF Successors
  <2> QED
    BY <1>2, <1>3, <2>1, <2>2 DEF CallJustified
<1> QED
  BY <1>6, <1>7, <1>8, <1>9 DEF Justified

LEMMA CommitJustified ==
    ASSUME Inductive, Justified, StableTtl, LateSweep,
           NEW w \in Worker, NEW new \in Token, NEW ttl \in RefreshTtl,
           RotateCommit(w, new, ttl)
    PROVE  Justified'
<1> DEFINE f == call[w].old.family
           end == call[w].now + ttl
<1> USE DynamoRefreshAssumption
<1>0. PICK t : t = call[w].token
  OBVIOUS
<1>1. /\ w \in DOMAIN call /\ call[w] \in Call /\ CallMatchesItems(call[w]) /\ CallJustified(call[w])
      /\ t \in Token /\ call[w].old \in TokenItem
  BY <1>0 DEF RotateCommit, Inductive, TypeOK, CallsMatchItems, Justified, CallsJustified, Call
<1>2. /\ new \notin DOMAIN lineage
      /\ DOMAIN lineage' = DOMAIN lineage \cup {new}
      /\ lineage'[new] = [parent |-> t, family |-> f]
      /\ \A u \in DOMAIN lineage : lineage'[u] = lineage[u]
  BY <1>0 DEF RotateCommit, PutItem, TransactionWrites
<1>3. /\ DOMAIN tokenItem' = DOMAIN tokenItem \cup {new}
      /\ tokenItem'[new] = [call[w].old EXCEPT !.expiresAt = end]
      /\ \A u \in DOMAIN tokenItem : tokenItem'[u] = tokenItem[u]
      /\ new \notin DOMAIN tokenItem
      /\ DOMAIN marker' = DOMAIN marker \cup {t}
      /\ f \in DOMAIN familyItem /\ familyItem' = [familyItem EXCEPT ![f].expiresAt = end]
      /\ clock' = clock
  BY <1>0 DEF RotateCommit, PutItem, TransactionWrites, TransactionHolds, HasItem, FamilyOpen, ExpiresAfter
<1>4. /\ tokenItem'[new].family = f /\ tokenItem'[new].expiresAt = end
      /\ familyItem'[f].expiresAt = end
      /\ DOMAIN familyItem' = DOMAIN familyItem
      /\ \A g \in DOMAIN familyItem : familyItem'[g].revoked = familyItem[g].revoked
      /\ \A g \in DOMAIN familyItem : g # f => familyItem'[g] = familyItem[g]
  <2>1. \A g \in DOMAIN familyItem : familyItem[g] \in FamilyItem
    BY DEF Inductive, TypeOK
  <2> QED
    BY <1>1, <1>3, <2>1 DEF TokenItem, FamilyItem
<1>5. Successors(t) = {} /\ f = lineage[t].family /\ t \in DOMAIN lineage
  BY <1>0, <1>1, CommitIsFirst DEF CallMatchesItems
<1>6. /\ Successors(t)' = {new} /\ Successors(new)' = {}
      /\ \A x : x # t => Successors(x)' = Successors(x)
  <2>1. \A x : x # t => Successors(x)' = Successors(x)
    BY <1>2 DEF Successors
  <2>2. Successors(t)' = {new}
    BY <1>2, <1>5 DEF Successors
  <2>3. \A u \in DOMAIN lineage : lineage[u].parent # new
    BY <1>2, DynamoRefreshAssumption DEF Inductive, MarkerOutlivesToken
  <2>4. Successors(new)' = {}
    BY <1>2, <1>5, <2>3 DEF Successors
  <2> QED
    BY <2>1, <2>2, <2>4
<1>7. MarkersMeanRotation'
  BY <1>3, <1>6 DEF Justified, MarkersMeanRotation
<1>8. OneTip'
  <2> SUFFICES ASSUME NEW x \in DOMAIN lineage', NEW y \in DOMAIN lineage',
                      lineage'[x].family = lineage'[y].family, Successors(x)' = {}, Successors(y)' = {}
               PROVE  x = y
    BY DEF OneTip
  <2>1. x # t /\ y # t
    BY <1>6
  <2>2. \A z \in DOMAIN lineage : Successors(z)' = {} /\ z # t => lineage[z].family # f
    BY <1>5, <1>6 DEF Justified, OneTip
  <2>3. CASE x = new \/ y = new
    BY <1>2, <2>1, <2>2, <2>3
  <2>4. CASE x # new /\ y # new
    BY <1>2, <1>6, <2>1, <2>4 DEF Justified, OneTip
  <2> QED
    BY <2>3, <2>4
<1>9. /\ \A k \in RefreshTtl : end <= clock + k
      /\ familyItem[f].expiresAt <= end
  <2>1. /\ call[w].startedAt \in Nat /\ call[w].now \in Nat /\ clock \in Nat /\ familyItem[f].expiresAt \in Nat
    BY <1>1, <1>3 DEF Call, FamilyItem, Inductive, TypeOK
  <2>2. /\ familyItem[f].expiresAt <= call[w].startedAt + ttl
        /\ call[w].startedAt <= call[w].now
        /\ call[w].now <= clock
    BY <1>0, <1>1, <1>3, <1>5 DEF CallMatchesItems, CallJustified
  <2> QED
    BY <2>1, <2>2 DEF StableTtl
<1>10. FamilyOutlivesTokens'
  <2>1. \A g \in DOMAIN familyItem' : \A k \in RefreshTtl : familyItem'[g].expiresAt <= clock' + k
    BY <1>3, <1>4, <1>9 DEF Justified, FamilyOutlivesTokens
  <2>2. \A u \in DOMAIN tokenItem' :
          tokenItem'[u].family \in DOMAIN familyItem' =>
            tokenItem'[u].expiresAt <= familyItem'[tokenItem'[u].family].expiresAt
    <3> SUFFICES ASSUME NEW u \in DOMAIN tokenItem', tokenItem'[u].family \in DOMAIN familyItem'
                 PROVE  tokenItem'[u].expiresAt <= familyItem'[tokenItem'[u].family].expiresAt
      OBVIOUS
    <3>1. CASE u = new
      <4>1. end \in Nat
        BY <1>1 DEF Call
      <4> QED
        BY <1>4, <3>1, <4>1
    <3>2. CASE u # new
      <4>1. /\ u \in DOMAIN tokenItem /\ tokenItem'[u] = tokenItem[u]
            /\ tokenItem[u].expiresAt \in Nat /\ familyItem[f].expiresAt \in Nat /\ end \in Nat
        BY <1>1, <1>3, <3>2 DEF Inductive, TypeOK, TokenItem, FamilyItem, Call
      <4>2. tokenItem[u].expiresAt <= familyItem[tokenItem[u].family].expiresAt
        BY <1>4, <4>1 DEF Justified, FamilyOutlivesTokens
      <4>3. CASE tokenItem[u].family = f
        BY <1>4, <1>9, <4>1, <4>2, <4>3
      <4>4. CASE tokenItem[u].family # f
        BY <1>4, <4>1, <4>2, <4>4
      <4> QED
        BY <4>3, <4>4
    <3> QED
      BY <3>1, <3>2
  <2> QED
    BY <2>1, <2>2 DEF FamilyOutlivesTokens
<1>11. CallsJustified'
  <2> SUFFICES ASSUME NEW v \in DOMAIN call' PROVE CallJustified(call[v])'
    BY DEF CallsJustified
  <2>1. v \in DOMAIN call /\ call'[v] = call[v]
    BY DEF RotateCommit, Answer, DeleteItem
  <2>0. PICK s : s = call[v].token
    OBVIOUS
  <2> DEFINE g == call[v].old.family
  <2>2. CallJustified(call[v]) /\ g = lineage[s].family /\ s \in DOMAIN lineage
    BY <2>0, <2>1 DEF Inductive, CallsMatchItems, CallMatchesItems, Justified, CallsJustified
  <2>3. s = t \/ Successors(s)' = Successors(s)
    BY <1>6
  <2>4. Successors(s)' = {} => g # f
    BY <1>5, <1>6, <2>2 DEF Justified, OneTip
  <2>5. s \in DOMAIN tokenItem' \/ call[v].old.expiresAt + SweepLag <= clock'
    BY <1>3, <2>0, <2>2 DEF CallJustified
  <2>6. Successors(s)' = {} /\ g \in DOMAIN familyItem' =>
          \A k \in RefreshTtl : familyItem'[g].expiresAt <= call[v].startedAt + k
    <3> SUFFICES ASSUME Successors(s)' = {}, g \in DOMAIN familyItem'
                 PROVE  \A k \in RefreshTtl : familyItem'[g].expiresAt <= call[v].startedAt + k
      OBVIOUS
    <3>1. s # t /\ Successors(s) = {} /\ g \in DOMAIN familyItem /\ familyItem'[g] = familyItem[g]
      BY <1>4, <1>6, <2>3, <2>4
    <3> QED
      BY <2>0, <2>2, <3>1 DEF CallJustified
  <2>7. call[v].pc = "revoke" =>
          Successors(s)' # {} \/ g \notin DOMAIN familyItem' \/ familyItem'[g].revoked
    BY <1>4, <1>6, <2>0, <2>2, <2>3 DEF CallJustified
  <2>8. (Successors(call[v].token))' = Successors(s)'
    BY <2>0, <2>1 DEF Successors
  <2> QED
    BY <2>0, <2>1, <2>5, <2>6, <2>7, <2>8 DEF CallJustified
<1> QED
  BY <1>7, <1>8, <1>10, <1>11 DEF Justified

(* A transaction is cancelled because the token was exchanged, or because   *)
(* its family is closed for good: never because an item has expired or was  *)
(* swept while the call was under way.                                      *)
LEMMA CancelledForReason ==
    ASSUME Inductive, Justified, LateSweep, NEW w \in Worker, NEW new \in Token, RotateCancelled(w, new)
    PROVE  \/ Successors(call[w].token) # {}
           \/ call[w].old.family \notin DOMAIN familyItem
           \/ familyItem[call[w].old.family].revoked
<1> DEFINE t == call[w].token
           f == call[w].old.family
<1> USE DynamoRefreshAssumption
<1>1. /\ w \in DOMAIN call /\ call[w] \in Call /\ call[w].pc = "transact"
      /\ CallMatchesItems(call[w]) /\ CallJustified(call[w])
      /\ new \notin DOMAIN lineage
      /\ ~TransactionHolds(t, new, f, call[w].now)
  BY DEF RotateCancelled, Inductive, TypeOK, CallsMatchItems, Justified, CallsJustified
<1>2. /\ call[w].now \in Nat /\ call[w].startedAt \in Nat /\ clock \in Nat
      /\ call[w].old.expiresAt \in Nat
  BY <1>1 DEF Call, TokenItem, Inductive, TypeOK
<1>3. /\ call[w].old.expiresAt > call[w].now
      /\ call[w].startedAt <= call[w].now /\ clock <= call[w].startedAt + MaxRequestAge
  BY <1>1 DEF CallMatchesItems
<1>4. t \in DOMAIN tokenItem /\ tokenItem[t] = call[w].old /\ f = tokenItem[t].family
  <2>1. ~(call[w].old.expiresAt + SweepLag <= clock)
    BY <1>2, <1>3 DEF LateSweep
  <2> QED
    BY <1>1, <2>1 DEF CallMatchesItems, CallJustified
<1>5. ~HasItem(tokenItem, new) /\ ExpiresAfter(tokenItem, t, call[w].now)
  BY <1>1, <1>3, <1>4 DEF HasItem, ExpiresAfter, Inductive, ItemsMatchLineage
<1>6. CASE HasItem(marker, t)
  BY <1>6 DEF HasItem, Justified, MarkersMeanRotation
<1>7. CASE ~FamilyOpen(f, call[w].now) /\ f \in DOMAIN familyItem
  <2>1. familyItem[f].expiresAt \in Nat /\ call[w].old.expiresAt <= familyItem[f].expiresAt
    BY <1>4, <1>7 DEF Inductive, TypeOK, FamilyItem, Justified, FamilyOutlivesTokens
  <2>2. ExpiresAfter(familyItem, f, call[w].now)
    BY <1>2, <1>3, <1>7, <2>1 DEF ExpiresAfter, HasItem
  <2> QED
    BY <1>7, <2>2 DEF FamilyOpen
<1> QED
  BY <1>1, <1>5, <1>6, <1>7 DEF TransactionHolds

(* A call goes on. *)
LEMMA ContinueJustified ==
    ASSUME Inductive, Inductive', Justified, UNCHANGED <<clock, tokenItem, familyItem, marker, lineage>>,
           NEW w \in Worker, NEW next \in Call, CallJustified(next), Continue(w, next)
    PROVE  Justified'
<1>1. ASSUME NEW v \in DOMAIN call'
      PROVE  (v \in DOMAIN call /\ call'[v] = call[v]) \/ CallJustified(call[v])'
  <2>1. call'[v] = next \/ (v \in DOMAIN call /\ call'[v] = call[v])
    BY DEF Continue, PutItem
  <2>2. CASE call'[v] = next
    BY <2>2 DEF CallJustified, Successors
  <2> QED
    BY <2>1, <2>2
<1>2. clock <= clock'
  BY DEF Inductive, TypeOK
<1> QED
  BY <1>1, <1>2, QuietJustified

LEMMA AnswerJustified ==
    ASSUME Inductive, Inductive', Justified, UNCHANGED <<clock, tokenItem, familyItem, marker, lineage>>,
           \A v \in DOMAIN call' : v \in DOMAIN call /\ call'[v] = call[v]
    PROVE  Justified'
<1>1. clock <= clock'
  BY DEF Inductive, TypeOK
<1> QED
  BY <1>1, QuietJustified

LEMMA JustifiedStep ==
    ASSUME Inductive, Justified, StableTtl, LateSweep, [Next]_vars
    PROVE  Justified'
<1> USE DynamoRefreshAssumption
<1>0. Inductive' /\ clock \in Nat
  BY InductiveStep DEF Inductive, TypeOK
<1>1. ASSUME NEW w \in Worker, w \in DOMAIN call
      PROVE  call[w] \in Call /\ CallJustified(call[w])
  BY <1>1 DEF Inductive, TypeOK, Justified, CallsJustified
<1>2. ASSUME NEW w \in Worker, NEW t \in Token, NEW c \in Client,
             NEW accepted \in SUBSET Resource, RotateReadToken(w, t, c, accepted)
      PROVE  Justified'
  <2>1. CASE HasItem(tokenItem, t)
    <3> DEFINE next == [pc |-> "validate", token |-> t, client |-> c, accepted |-> accepted,
                        old |-> tokenItem[t], now |-> clock, startedAt |-> clock]
    <3>1. next \in Call /\ CallJustified(next)
      BY <2>1 DEF Call, Phase, HasItem, Inductive, TypeOK, CallJustified, Justified, FamilyOutlivesTokens
    <3> QED
      BY <1>0, <1>2, <2>1, <3>1, ContinueJustified DEF RotateReadToken
  <2>2. CASE ~HasItem(tokenItem, t)
    BY <1>0, <1>2, <2>2, AnswerJustified DEF RotateReadToken
  <2> QED
    BY <2>1, <2>2
<1>3. ASSUME NEW w \in Worker, RotateValidate(w) PROVE Justified'
  <2>1. CASE TokenValid(call[w].old, call[w].client, call[w].accepted, clock)
    <3> DEFINE next == [call[w] EXCEPT !.pc = "family", !.now = clock]
    <3>0. call[w] \in Call /\ CallJustified(call[w])
      BY <1>1, <1>3 DEF RotateValidate
    <3>1. /\ next \in Call /\ next.pc = "family" /\ next.token = call[w].token /\ next.old = call[w].old
          /\ next.startedAt = call[w].startedAt
      BY <1>0, <3>0 DEF Call, Phase
    <3>2. CallJustified(next)
      BY <3>0, <3>1 DEF CallJustified
    <3> QED
      BY <1>0, <1>3, <2>1, <3>1, <3>2, ContinueJustified DEF RotateValidate
  <2>2. CASE ~TokenValid(call[w].old, call[w].client, call[w].accepted, clock)
    BY <1>0, <1>3, <2>2, AnswerJustified DEF RotateValidate, Answer, DeleteItem
  <2> QED
    BY <2>1, <2>2
<1>4. ASSUME NEW w \in Worker, w \in DOMAIN call, NEW pc \in Phase,
             Continue(w, [call[w] EXCEPT !.pc = pc]),
             UNCHANGED <<clock, tokenItem, familyItem, marker, lineage>>,
             pc = "revoke" => \/ Successors(call[w].token) # {}
                              \/ call[w].old.family \notin DOMAIN familyItem
                              \/ familyItem[call[w].old.family].revoked
      PROVE  Justified'
  <2> DEFINE next == [call[w] EXCEPT !.pc = pc]
  <2>0. call[w] \in Call /\ CallJustified(call[w])
    BY <1>1, <1>4
  <2>1. /\ next \in Call /\ next.pc = pc /\ next.token = call[w].token /\ next.old = call[w].old
        /\ next.startedAt = call[w].startedAt
    BY <2>0 DEF Call
  <2>2. CallJustified(next)
    BY <1>4, <2>0, <2>1 DEF CallJustified
  <2> QED
    BY <1>0, <1>4, <2>1, <2>2, ContinueJustified
<1>5. ASSUME NEW w \in Worker, RotateReadFamily(w) PROVE Justified'
  <2>1. CASE FamilyOpen(call[w].old.family, call[w].now)
    BY <1>4, <1>5, <2>1 DEF RotateReadFamily, Phase
  <2>2. CASE ~FamilyOpen(call[w].old.family, call[w].now)
    BY <1>0, <1>5, <2>2, AnswerJustified DEF RotateReadFamily, Answer, DeleteItem
  <2> QED
    BY <2>1, <2>2
<1>6. ASSUME NEW w \in Worker, RotateReadMarker(w) PROVE Justified'
  <2>1. HasItem(marker, call[w].token) => Successors(call[w].token) # {}
    BY DEF HasItem, Justified, MarkersMeanRotation
  <2>2. CASE HasItem(marker, call[w].token)
    BY <1>4, <1>6, <2>1, <2>2 DEF RotateReadMarker, Phase
  <2>3. CASE ~HasItem(marker, call[w].token)
    BY <1>4, <1>6, <2>3 DEF RotateReadMarker, Phase
  <2> QED
    BY <2>2, <2>3
<1>7. ASSUME NEW w \in Worker, NEW new \in Token, RotateCancelled(w, new) PROVE Justified'
  <2>1. \/ Successors(call[w].token) # {}
        \/ call[w].old.family \notin DOMAIN familyItem
        \/ familyItem[call[w].old.family].revoked
    BY <1>7, CancelledForReason
  <2>2. /\ w \in DOMAIN call
        /\ Continue(w, [call[w] EXCEPT !.pc = "revoke"])
        /\ UNCHANGED <<clock, tokenItem, familyItem, marker, lineage>>
    BY <1>7 DEF RotateCancelled
  <2> QED
    BY <1>4, <2>1, <2>2 DEF Phase
<1>8. ASSUME NEW w \in Worker, RevokeRefreshFamily(w) PROVE Justified'
  <2>1. \A g \in DOMAIN familyItem : familyItem[g] \in FamilyItem
    BY DEF Inductive, TypeOK
  <2>2. /\ DOMAIN familyItem' = DOMAIN familyItem
        /\ \A g \in DOMAIN familyItem :
              /\ familyItem'[g].expiresAt = familyItem[g].expiresAt
              /\ familyItem[g].revoked => familyItem'[g].revoked
    BY <1>8, <2>1 DEF RevokeRefreshFamily, FamilyItem, HasItem
  <2>3. /\ UNCHANGED <<clock, tokenItem, marker, lineage>>
        /\ \A v \in DOMAIN call' : v \in DOMAIN call /\ call'[v] = call[v]
    BY <1>8 DEF RevokeRefreshFamily, Answer, DeleteItem
  <2> QED
    BY <1>0, <2>2, <2>3, QuietJustified
<1>9. ASSUME NEW w \in Worker, CallFails(w) PROVE Justified'
  BY <1>0, <1>9, AnswerJustified DEF CallFails, Answer, DeleteItem
<1>10. ASSUME NEW k, SweepToken(k) \/ SweepMarker(k) \/ SweepFamily(k) PROVE Justified'
  <2>1. /\ DOMAIN tokenItem' \subseteq DOMAIN tokenItem
        /\ \A x \in DOMAIN tokenItem' : tokenItem'[x] = tokenItem[x]
        /\ \A x \in DOMAIN tokenItem : x \in DOMAIN tokenItem' \/ tokenItem[x].expiresAt + SweepLag <= clock
        /\ DOMAIN familyItem' \subseteq DOMAIN familyItem
        /\ \A x \in DOMAIN familyItem' : familyItem'[x] = familyItem[x]
        /\ DOMAIN marker' \subseteq DOMAIN marker
        /\ UNCHANGED <<clock, call, lineage>>
    BY <1>10 DEF SweepToken, SweepMarker, SweepFamily, DeleteItem, Sweepable
  <2> QED
    BY <1>0, <2>1, QuietJustified
<1>11. CASE Tick \/ UNCHANGED vars
  <2>1. clock <= clock' /\ UNCHANGED <<tokenItem, familyItem, marker, call, lineage>>
    BY <1>0, <1>11 DEF Tick, vars
  <2> QED
    BY <1>0, <2>1, QuietJustified
<1>12. ASSUME NEW w \in Worker, RotateStep(w) PROVE Justified'
  BY <1>2, <1>3, <1>5, <1>6, <1>7, <1>8, <1>9, <1>12, CommitJustified DEF RotateStep
<1> QED
  BY <1>10, <1>11, <1>12, CreateJustified DEF Next

(* A family is revoked only by a call that holds a valid token which was    *)
(* exchanged before: no failed request, expiry, sweep or attempt by another *)
(* client costs an honest client its grant, under the same conditions under *)
(* which families do not fork.                                              *)
THEOREM OnlyReplaysRevoke ==
    ASSUME StableTtl, LateSweep
    PROVE  Spec => OnlyReplayRevokes
<1>1. Init => Justified
  BY DEF Init, Justified, EmptyTable, MarkersMeanRotation, OneTip, FamilyOutlivesTokens, CallsJustified
<1>2. Inductive /\ Justified /\ [Next]_vars => Justified'
  BY JustifiedStep
<1>3. Spec => [](Inductive /\ Justified)
  BY <1>1, <1>2, InductiveInvariant, PTL DEF Spec
<1> DEFINE Replayed(f) == \E w \in DOMAIN call :
                            /\ w \notin DOMAIN call'
                            /\ lineage[call[w].token].family = f
                            /\ call[w].client = call[w].old.client
                            /\ Successors(call[w].token) # {}
<1>4. ASSUME Inductive, Justified, [Next]_vars, NEW f \in DOMAIN familyItem,
             f \in DOMAIN familyItem', ~familyItem[f].revoked, familyItem'[f].revoked
      PROVE  Replayed(f)
  <2>1. \A g \in DOMAIN familyItem : familyItem[g] \in FamilyItem
    BY <1>4 DEF Inductive, TypeOK
  <2>2. PICK w \in Worker : RevokeRefreshFamily(w)
    <3>1. ~\E t \in Token, g \in Family, c \in Client, r \in Resource,
              createdAt \in 0..MaxClock, ttl \in RefreshTtl :
              CreateRefreshToken(t, g, c, r, createdAt, ttl)
      BY <1>4 DEF CreateRefreshToken, HasItem, PutItem
    <3>2. ASSUME NEW w \in Worker, NEW new \in Token, NEW ttl \in RefreshTtl, RotateCommit(w, new, ttl)
          PROVE FALSE
      BY <1>4, <2>1, <3>2 DEF RotateCommit, TransactionWrites, FamilyItem
    <3>3. ~(familyItem' = familyItem)
      BY <1>4
    <3>4. ~\E g \in Family : SweepFamily(g)
      BY <1>4 DEF SweepFamily, DeleteItem
    <3>5. PICK w \in Worker : RotateStep(w)
      BY <1>4, <3>1, <3>3, <3>4 DEF Next, SweepToken, SweepMarker, Tick, vars
    <3> QED
      BY <3>2, <3>3, <3>5 DEF RotateStep, RotateReadToken, RotateValidate, RotateReadFamily,
                              RotateReadMarker, RotateCancelled, CallFails
  <2>3. w \in DOMAIN call /\ w \notin DOMAIN call' /\ call[w].pc = "revoke"
    BY <2>2 DEF RevokeRefreshFamily, Answer, DeleteItem
  <2>4. f = call[w].old.family
    BY <1>4, <2>2 DEF RevokeRefreshFamily
  <2>5. CallMatchesItems(call[w]) /\ CallJustified(call[w])
    BY <1>4, <2>3 DEF Inductive, CallsMatchItems, Justified, CallsJustified
  <2>6. lineage[call[w].token].family = f /\ call[w].client = call[w].old.client
    BY <2>3, <2>4, <2>5 DEF CallMatchesItems
  <2>7. Successors(call[w].token) # {}
    BY <1>4, <2>3, <2>4, <2>5 DEF CallJustified
  <2> QED
    BY <2>3, <2>6, <2>7
<1>5. Inductive /\ Justified /\ [Next]_vars =>
        [\A f \in DOMAIN familyItem :
            (f \in DOMAIN familyItem' /\ ~familyItem[f].revoked /\ familyItem'[f].revoked) => Replayed(f)]_vars
  BY <1>4
<1> QED
  BY <1>3, <1>5, PTL DEF Spec, OnlyReplayRevokes
=============================================================================
