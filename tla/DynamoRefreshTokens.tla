------------------------ MODULE DynamoRefreshTokens ------------------------
(***************************************************************************)
(* Refresh tokens in the DynamoDB store                                    *)
(* (auth/storage/dynamodb/refresh-tokens.ts).                              *)
(*                                                                         *)
(* Each rotation is a sequence of awaited requests: three consistent reads *)
(* (token, family, rotation marker), one transaction, and a revocation of  *)
(* the family when a replay shows up.  Any number of instances of the      *)
(* service run such sequences against one table, any request may fail or   *)
(* lose its answer, the process may die between two requests, and the      *)
(* table's TTL process removes items once they have expired.  A token and  *)
(* its SHA-256 hash are identified; scopes, user and authTime are carried  *)
(* along by the code unread and are left out.                              *)
(***************************************************************************)
EXTENDS DynamoTable

CONSTANTS
    Token,          \* refresh tokens; randomToken(32) never repeats one
    Family,         \* family identifiers
    Client, Resource,
    Worker,         \* concurrent rotateRefreshToken calls, on any instance
    Root,           \* parent of a token that was not obtained by rotation
    RefreshTtl,     \* values REFRESH_TOKEN_TTL_SECONDS has had over time
    SweepLag,       \* the TTL process leaves an item alone for this long
    MaxRequestAge,  \* a call is answered, or its process dies, within this
    MaxClock

ASSUME DynamoRefreshAssumption ==
    /\ Root \notin Token
    /\ RefreshTtl \subseteq Nat \ {0}
    /\ SweepLag \in Nat
    /\ MaxRequestAge \in Nat
    /\ MaxClock \in Nat

VARIABLES
    clock,          \* nowSeconds(), the same on every instance
    tokenItem,      \* REFRESH_TOKEN#<hash> items
    familyItem,     \* REFRESH_FAMILY#<familyId> items
    marker,         \* REFRESH_ROTATED#<hash> items
    call,           \* the rotations in progress, by worker
    reply,          \* what the last step answered to its caller
    lineage         \* history: every token ever written, parent and family

vars == <<clock, tokenItem, familyItem, marker, call, reply, lineage>>

TokenItem == [family : Family, client : Client, resource : Resource, expiresAt : Nat]

FamilyItem == [expiresAt : Nat, revoked : BOOLEAN]

MarkerItem == [expiresAt : Nat]

Phase == {"validate", "family", "marker", "transact", "revoke"}

Call == [pc : Phase, token : Token, client : Client, accepted : SUBSET Resource,
         old : TokenItem, now : Nat, startedAt : Nat]

Reply == {"none", "granted", "invalid_grant", "server_error"}

Lineage == [parent : Token \cup {Root}, family : Family]

(* The tokens that were minted in exchange for t. *)
Successors(t) == {u \in DOMAIN lineage : lineage[u].parent = t}

Used(f) == \E t \in DOMAIN lineage : lineage[t].family = f

Init ==
    /\ clock = 1
    /\ tokenItem = EmptyTable
    /\ familyItem = EmptyTable
    /\ marker = EmptyTable
    /\ call = EmptyTable
    /\ reply = "none"
    /\ lineage = EmptyTable

-----------------------------------------------------------------------------
(* createRefreshToken.  createdAt is read before the transaction is sent.   *)
(* An answer lost after the commit leaves a token nobody holds.             *)
CreateRefreshToken(t, f, c, r, createdAt, ttl) ==
    /\ t \notin DOMAIN lineage
    /\ ~Used(f)
    /\ createdAt <= clock
    /\ clock <= createdAt + MaxRequestAge
    /\ ~HasItem(tokenItem, t)
    /\ ~HasItem(familyItem, f)
    /\ tokenItem' = PutItem(tokenItem, t,
          [family |-> f, client |-> c, resource |-> r, expiresAt |-> createdAt + ttl])
    /\ familyItem' = PutItem(familyItem, f,
          [expiresAt |-> createdAt + ttl, revoked |-> FALSE])
    /\ lineage' = PutItem(lineage, t, [parent |-> Root, family |-> f])
    /\ reply' \in {"granted", "server_error"}
    /\ UNCHANGED <<clock, marker, call>>

-----------------------------------------------------------------------------
(* rotateRefreshToken *)

Answer(w, answer) ==
    /\ reply' = answer
    /\ call' = DeleteItem(call, w)

Continue(w, next) ==
    /\ reply' = "none"
    /\ call' = PutItem(call, w, next)

(* The first read.  A token that was never issued, or whose item is gone,   *)
(* is refused at once.  "accepted" stands for expectedResource and          *)
(* allowedResources together.                                               *)
RotateReadToken(w, t, c, accepted) ==
    /\ w \notin DOMAIN call
    /\ IF HasItem(tokenItem, t)
         THEN Continue(w, [pc |-> "validate", token |-> t, client |-> c,
                           accepted |-> accepted, old |-> tokenItem[t],
                           now |-> clock, startedAt |-> clock])
         ELSE reply' = "invalid_grant" /\ UNCHANGED call
    /\ UNCHANGED <<clock, tokenItem, familyItem, marker, lineage>>

(* Mutant: the token is not tied to the client it was issued to. *)
MutTokenValid(old, client, accepted, now) ==
    /\ old.expiresAt > now
    /\ old.resource \in accepted

(* validateRefreshToken passes.  The item's own revokedAt is never set. *)
TokenValid(old, client, accepted, now) ==
    /\ old.expiresAt > now
    /\ old.client = client
    /\ old.resource \in accepted

(* "now" is read once, after the first answer, and used for the rest. *)
RotateValidate(w) ==
    /\ w \in DOMAIN call
    /\ call[w].pc = "validate"
    /\ IF TokenValid(call[w].old, call[w].client, call[w].accepted, clock)
         THEN Continue(w, [call[w] EXCEPT !.pc = "family", !.now = clock])
         ELSE Answer(w, "invalid_grant")
    /\ UNCHANGED <<clock, tokenItem, familyItem, marker, lineage>>

(* Mutant: revokedAt of the family is not looked at. *)
MutFamilyOpen(f, now) == ExpiresAfter(familyItem, f, now)

(* The family item is there, not revoked and not expired. *)
FamilyOpen(f, now) ==
    /\ ExpiresAfter(familyItem, f, now)
    /\ ~familyItem[f].revoked

RotateReadFamily(w) ==
    /\ w \in DOMAIN call
    /\ call[w].pc = "family"
    /\ IF FamilyOpen(call[w].old.family, call[w].now)
         THEN Continue(w, [call[w] EXCEPT !.pc = "marker"])
         ELSE Answer(w, "invalid_grant")
    /\ UNCHANGED <<clock, tokenItem, familyItem, marker, lineage>>

RotateReadMarker(w) ==
    /\ w \in DOMAIN call
    /\ call[w].pc = "marker"
    /\ Continue(w, [call[w] EXCEPT
          !.pc = IF HasItem(marker, call[w].token) THEN "revoke" ELSE "transact"])
    /\ UNCHANGED <<clock, tokenItem, familyItem, marker, lineage>>

(* Mutant: the marker is written without attribute_not_exists, the earlier  *)
(* read being trusted.                                                      *)
MutTransactionHolds(t, new, f, now) ==
    /\ ~HasItem(tokenItem, new)
    /\ ExpiresAfter(tokenItem, t, now)
    /\ FamilyOpen(f, now)

(* The conditions of the four writes of the rotation transaction. *)
TransactionHolds(t, new, f, now) ==
    /\ ~HasItem(tokenItem, new)
    /\ ~HasItem(marker, t)
    /\ ExpiresAfter(tokenItem, t, now)
    /\ FamilyOpen(f, now)

(* Their effect.  The old token's item only gets a last-used time. *)
TransactionWrites(t, new, old, now, ttl) ==
    /\ tokenItem' = PutItem(tokenItem, new, [old EXCEPT !.expiresAt = now + ttl])
    /\ marker' = PutItem(marker, t, [expiresAt |-> now + ttl])
    /\ familyItem' = [familyItem EXCEPT ![old.family].expiresAt = now + ttl]
    /\ lineage' = PutItem(lineage, new, [parent |-> t, family |-> old.family])

(* rotateValidRefreshToken, committed.  When the answer is lost on its way  *)
(* back the caller sees a server error although the rotation happened.      *)
RotateCommit(w, new, ttl) ==
    /\ w \in DOMAIN call
    /\ call[w].pc = "transact"
    /\ new \notin DOMAIN lineage
    /\ TransactionHolds(call[w].token, new, call[w].old.family, call[w].now)
    /\ TransactionWrites(call[w].token, new, call[w].old, call[w].now, ttl)
    /\ \E answer \in {"granted", "server_error"} : Answer(w, answer)
    /\ UNCHANGED clock

(* Mutant: a cancelled transaction is refused without revoking the family. *)
MutRotateCancelled(w, new) ==
    /\ w \in DOMAIN call
    /\ call[w].pc = "transact"
    /\ new \notin DOMAIN lineage
    /\ ~TransactionHolds(call[w].token, new, call[w].old.family, call[w].now)
    /\ Answer(w, "invalid_grant")
    /\ UNCHANGED <<clock, tokenItem, familyItem, marker, lineage>>

(* rotateValidRefreshToken, cancelled because a condition failed. *)
RotateCancelled(w, new) ==
    /\ w \in DOMAIN call
    /\ call[w].pc = "transact"
    /\ new \notin DOMAIN lineage
    /\ ~TransactionHolds(call[w].token, new, call[w].old.family, call[w].now)
    /\ Continue(w, [call[w] EXCEPT !.pc = "revoke"])
    /\ UNCHANGED <<clock, tokenItem, familyItem, marker, lineage>>

(* revokeRefreshFamily: a failed condition is swallowed. *)
RevokeRefreshFamily(w) ==
    /\ w \in DOMAIN call
    /\ call[w].pc = "revoke"
    /\ LET f == call[w].old.family IN
         familyItem' = IF HasItem(familyItem, f) /\ ~familyItem[f].revoked
                         THEN [familyItem EXCEPT ![f].revoked = TRUE]
                         ELSE familyItem
    /\ \E answer \in {"invalid_grant", "server_error"} : Answer(w, answer)
    /\ UNCHANGED <<clock, tokenItem, marker, lineage>>

(* A request fails with nothing applied (network, throttling, a transaction *)
(* conflict), or the process dies: the call ends where it is.               *)
CallFails(w) ==
    /\ w \in DOMAIN call
    /\ Answer(w, "server_error")
    /\ UNCHANGED <<clock, tokenItem, familyItem, marker, lineage>>

-----------------------------------------------------------------------------
(* The environment: the table's TTL process and the clock.                  *)

Sweepable(table, k) == HasItem(table, k) /\ table[k].expiresAt + SweepLag <= clock

SweepToken(t) ==
    /\ Sweepable(tokenItem, t)
    /\ tokenItem' = DeleteItem(tokenItem, t)
    /\ reply' = "none"
    /\ UNCHANGED <<clock, familyItem, marker, call, lineage>>

SweepFamily(f) ==
    /\ Sweepable(familyItem, f)
    /\ familyItem' = DeleteItem(familyItem, f)
    /\ reply' = "none"
    /\ UNCHANGED <<clock, tokenItem, marker, call, lineage>>

SweepMarker(t) ==
    /\ Sweepable(marker, t)
    /\ marker' = DeleteItem(marker, t)
    /\ reply' = "none"
    /\ UNCHANGED <<clock, tokenItem, familyItem, call, lineage>>

Tick ==
    /\ clock < MaxClock
    /\ \A w \in DOMAIN call : clock < call[w].startedAt + MaxRequestAge
    /\ clock' = clock + 1
    /\ reply' = "none"
    /\ UNCHANGED <<tokenItem, familyItem, marker, call, lineage>>

RotateStep(w) ==
    \/ \E t \in Token, c \in Client, accepted \in SUBSET Resource :
          RotateReadToken(w, t, c, accepted)
    \/ RotateValidate(w)
    \/ RotateReadFamily(w)
    \/ RotateReadMarker(w)
    \/ \E new \in Token, ttl \in RefreshTtl : RotateCommit(w, new, ttl)
    \/ \E new \in Token : RotateCancelled(w, new)
    \/ RevokeRefreshFamily(w)
    \/ CallFails(w)

Next ==
    \/ \E t \in Token, f \in Family, c \in Client, r \in Resource,
          createdAt \in 0..MaxClock, ttl \in RefreshTtl :
          CreateRefreshToken(t, f, c, r, createdAt, ttl)
    \/ \E w \in Worker : RotateStep(w)
    \/ \E t \in Token : SweepToken(t) \/ SweepMarker(t)
    \/ \E f \in Family : SweepFamily(f)
    \/ Tick

Spec == Init /\ [][Next]_vars

-----------------------------------------------------------------------------
(* Properties *)

TypeOK ==
    /\ clock \in Nat
    /\ DOMAIN tokenItem \subseteq Token
    /\ \A t \in DOMAIN tokenItem : tokenItem[t] \in TokenItem
    /\ DOMAIN familyItem \subseteq Family
    /\ \A f \in DOMAIN familyItem : familyItem[f] \in FamilyItem
    /\ DOMAIN marker \subseteq Token
    /\ \A t \in DOMAIN marker : marker[t] \in MarkerItem
    /\ DOMAIN call \subseteq Worker
    /\ \A w \in DOMAIN call : call[w] \in Call
    /\ reply \in Reply
    /\ DOMAIN lineage \subseteq Token
    /\ \A t \in DOMAIN lineage : lineage[t] \in Lineage

(* A refresh token is exchanged for at most one successor, however many     *)
(* copies of it are presented at once, however late, and whichever answers  *)
(* were lost: rotateRefreshToken never forks a family.                      *)
SingleSuccessor ==
    \A u, v \in DOMAIN lineage :
        lineage[u].parent = lineage[v].parent /\ u # v => lineage[u].parent = Root

(* A call that presented a valid token and is told invalid_grant leaves the *)
(* family unusable: revoked, removed, or lapsed at the time the call used.  *)
RefusalClosesFamily ==
    [][\A w \in DOMAIN call :
          (call[w].pc # "validate" /\ w \notin DOMAIN call' /\ reply' = "invalid_grant")
            => LET f == call[w].old.family IN
               \/ f \notin DOMAIN familyItem'
               \/ familyItem'[f].revoked
               \/ familyItem'[f].expiresAt <= call[w].now]_vars

(* A family is revoked only by a call that holds a valid, already exchanged *)
(* token: no failure, expiry, sweep or foreign client's attempt costs an    *)
(* honest client its grant.                                                 *)
OnlyReplayRevokes ==
    [][\A f \in DOMAIN familyItem :
          (f \in DOMAIN familyItem' /\ ~familyItem[f].revoked /\ familyItem'[f].revoked)
            => \E w \in DOMAIN call :
                 /\ w \notin DOMAIN call'
                 /\ lineage[call[w].token].family = f
                 /\ call[w].client = call[w].old.client
                 /\ Successors(call[w].token) # {}]_vars

(* The facts the proofs rest on, for an unchanging RefreshTtl.              *)
(* Items: what is stored agrees with the history of tokens.                 *)
ItemsMatchLineage ==
    /\ \A t \in DOMAIN tokenItem :
          /\ t \in DOMAIN lineage
          /\ tokenItem[t].family = lineage[t].family
          /\ \A ttl \in RefreshTtl : tokenItem[t].expiresAt <= clock + ttl
    /\ \A f \in DOMAIN familyItem : Used(f)

(* Calls: the record a call read is still the stored one unless it was      *)
(* swept, and the time the call uses is at most MaxRequestAge old.          *)
CallMatchesItems(c) ==
    /\ c.token \in DOMAIN lineage
    /\ c.old.family = lineage[c.token].family
    /\ c.token \in DOMAIN tokenItem => tokenItem[c.token] = c.old
    /\ \A ttl \in RefreshTtl : c.old.expiresAt <= c.startedAt + ttl
    /\ c.startedAt <= c.now
    /\ c.now <= clock
    /\ clock <= c.startedAt + MaxRequestAge
    /\ c.pc # "validate" => c.old.expiresAt > c.now /\ c.client = c.old.client

CallsMatchItems == \A w \in DOMAIN call : CallMatchesItems(call[w])

(* Markers: a token that was exchanged keeps its rotation marker for as     *)
(* long as a call could still find the token valid.                         *)
MarkerOutlivesToken ==
    \A u \in DOMAIN lineage : LET t == lineage[u].parent IN
        t # Root =>
          /\ t \in DOMAIN lineage
          /\ t \in DOMAIN tokenItem =>
                \/ t \in DOMAIN marker /\ marker[t].expiresAt >= tokenItem[t].expiresAt
                \/ tokenItem[t].expiresAt + SweepLag <= clock

(* The store implements the abstract refresh family.  A family is closed    *)
(* when it has been used and its item is revoked or gone.                   *)
closedFamilies ==
    {f \in Family : Used(f) /\ (f \notin DOMAIN familyItem \/ familyItem[f].revoked)}

Abstract == INSTANCE RefreshFamily WITH closed <- closedFamilies

ImplementsFamily == Abstract!FamilySpec
=============================================================================
