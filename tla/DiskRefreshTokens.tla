------------------------- MODULE DiskRefreshTokens -------------------------
(***************************************************************************)
(* Refresh tokens in the disk store (auth/storage/disk-store.ts).          *)
(*                                                                         *)
(* Every operation is one StoreFile.update, so one step.  Its write may    *)
(* fail before the rename (nothing happened) or after it (all of it did,   *)
(* but the caller is told otherwise).  Records are never removed: the      *)
(* record of a token names the token it was rotated from, and that is how  *)
(* a replay is recognised.                                                 *)
(***************************************************************************)
EXTENDS DynamoTable

CONSTANTS
    Token, Family, Client, Resource,
    Root,           \* rotatedFromHash of a token that was not obtained by rotation
    RefreshTtl,     \* values REFRESH_TOKEN_TTL_SECONDS has had over time
    MaxClock

ASSUME DiskRefreshAssumption ==
    /\ Root \notin Token
    /\ RefreshTtl \subseteq Nat \ {0}
    /\ MaxClock \in Nat

VARIABLES
    clock,
    record,         \* state.refreshTokens
    reply           \* what the last step answered to its caller

vars == <<clock, record, reply>>

Record == [family : Family, client : Client, resource : Resource, expiresAt : Nat,
           rotatedFrom : Token \cup {Root}, revoked : BOOLEAN]

Init ==
    /\ clock = 1
    /\ record = EmptyTable
    /\ reply = "none"

(* The update is written, and its caller learns of it or not. *)
Written(new) ==
    /\ record' = new
    /\ reply' \in {"granted", "server_error"}

(* createRefreshToken: createdAt is taken before the update is queued. *)
CreateRefreshToken(t, f, c, r, createdAt, ttl) ==
    /\ t \notin DOMAIN record
    /\ \A u \in DOMAIN record : record[u].family # f
    /\ createdAt <= clock
    /\ Written(PutItem(record, t,
          [family |-> f, client |-> c, resource |-> r, expiresAt |-> createdAt + ttl,
           rotatedFrom |-> Root, revoked |-> FALSE]))
    /\ UNCHANGED clock

(* The checks of rotateRefreshToken that throw inside the update. *)
TokenValid(t, c, accepted) ==
    /\ t \in DOMAIN record
    /\ ~record[t].revoked
    /\ record[t].expiresAt > clock
    /\ record[t].client = c
    /\ record[t].resource \in accepted

RotateRefused(t, c, accepted) ==
    /\ ~TokenValid(t, c, accepted)
    /\ reply' = "invalid_grant"
    /\ UNCHANGED <<clock, record>>

(* Mutant: only the token itself is looked at, and it says nothing. *)
MutReused(t) == FALSE

(* Some record was rotated from this token. *)
Reused(t) == \E u \in DOMAIN record : record[u].rotatedFrom = t

(* Mutant: only the replayed token is revoked. *)
MutRevokeFamily(f, t) == [record EXCEPT ![t].revoked = TRUE]

(* revokedAt is set on every record of the family. *)
RevokeFamily(f, t) ==
    [u \in DOMAIN record |->
        IF record[u].family = f THEN [record[u] EXCEPT !.revoked = TRUE] ELSE record[u]]

(* The update returns instead of throwing, so the revocation is written;    *)
(* the refusal is thrown afterwards.                                        *)
RotateReused(t, c, accepted) ==
    /\ TokenValid(t, c, accepted)
    /\ Reused(t)
    /\ record' = RevokeFamily(record[t].family, t)
    /\ reply' \in {"invalid_grant", "server_error"}
    /\ UNCHANGED clock

RotateGranted(t, c, accepted, new, ttl) ==
    /\ TokenValid(t, c, accepted)
    /\ ~Reused(t)
    /\ new \notin DOMAIN record
    /\ Written(PutItem(record, new,
          [record[t] EXCEPT !.expiresAt = clock + ttl, !.rotatedFrom = t, !.revoked = FALSE]))
    /\ UNCHANGED clock

(* The lock cannot be taken, or the write fails before the rename. *)
UpdateFails ==
    /\ reply' = "server_error"
    /\ UNCHANGED <<clock, record>>

Tick ==
    /\ clock < MaxClock
    /\ clock' = clock + 1
    /\ reply' = "none"
    /\ UNCHANGED record

Next ==
    \/ \E t \in Token, f \in Family, c \in Client, r \in Resource,
          createdAt \in 0..MaxClock, ttl \in RefreshTtl :
          CreateRefreshToken(t, f, c, r, createdAt, ttl)
    \/ \E t \in Token, c \in Client, accepted \in SUBSET Resource :
          \/ RotateRefused(t, c, accepted)
          \/ RotateReused(t, c, accepted)
          \/ \E new \in Token, ttl \in RefreshTtl : RotateGranted(t, c, accepted, new, ttl)
    \/ UpdateFails
    \/ Tick

Spec == Init /\ [][Next]_vars

-----------------------------------------------------------------------------
(* Properties *)

TypeOK ==
    /\ clock \in Nat
    /\ DOMAIN record \subseteq Token
    /\ \A t \in DOMAIN record : record[t] \in Record
    /\ reply \in {"none", "granted", "invalid_grant", "server_error"}

(* "Reuse of an older token revokes every token with the same family ID":   *)
(* a family is revoked as a whole, the tokens minted after the replayed one *)
(* included, and no token joins it afterwards.                              *)
FamilyRevokedTogether ==
    \A t, u \in DOMAIN record :
        record[t].family = record[u].family => record[t].revoked = record[u].revoked

(* The disk store implements the abstract refresh family, whatever          *)
(* REFRESH_TOKEN_TTL_SECONDS has been: records outlive the tokens.          *)
lineageOfRecords ==
    [t \in DOMAIN record |-> [parent |-> record[t].rotatedFrom, family |-> record[t].family]]

closedFamilies ==
    {f \in Family : \E t \in DOMAIN record : record[t].family = f /\ record[t].revoked}

Abstract == INSTANCE RefreshFamily WITH lineage <- lineageOfRecords, closed <- closedFamilies

ImplementsFamily == Abstract!FamilySpec
=============================================================================
