----------------------------- MODULE DiskStore -----------------------------
(***************************************************************************)
(* The whole store file (auth/storage/disk-store.ts): next to the refresh  *)
(* tokens of DiskRefreshTokens the authorization codes, the upstream login *)
(* states and the MCP sessions, each row with the times the file holds.    *)
(*                                                                         *)
(* A row is checked when the file is read (store-codec.ts) and hardly when *)
(* it is written, and one malformed row makes the file unreadable: every   *)
(* later request of every client fails.  Some texts pass the checks of the *)
(* request that brings them and not the check of the row: a state or an    *)
(* MCP client name of blanks, and a code challenge that is not as long as  *)
(* a hash.  An update is one step; its times are taken inside it, except   *)
(* createdAt, which is taken when the call is made, before the update      *)
(* waits for the lock.  The clock never steps back.                        *)
(***************************************************************************)
EXTENDS DiskRefreshTokens

CONSTANTS
    Code, State, Session, RequestId,
    CodeTtl,            \* lifetime of a code and of a login state
    SessionTtl,
    maxMcpRequestIds,
    MaxClaim,           \* length limit of a profile claim: 256 in the code
    MaxRows             \* bound: rows in the file

ASSUME DiskStoreAssumption ==
    /\ {CodeTtl, SessionTtl, maxMcpRequestIds, MaxRows} \subseteq Nat \ {0}
    /\ MaxClaim \in Nat /\ MaxClaim > 2

VARIABLES
    times,              \* the times and the user of each refresh token
    authorizationCodes,
    upstreamAuthorizationStates,
    mcpSessions,
    logins,             \* consumed login states whose callback has yet to create its code
    consumed            \* codes whose grant has yet to create its refresh token

underWay == <<logins, consumed>>

storeVars == <<vars, times, authorizationCodes, upstreamAuthorizationStates, mcpSessions, underWay>>

Unset == 0              \* an optional time that the row does not have

-----------------------------------------------------------------------------
(* User profiles: a claim is its length, and 0 when it is missing. *)

Default(claim, length) == IF claim = 0 THEN length ELSE claim

(* userProfileFromUpstream: long claims are refused, missing ones get a     *)
(* default, and the default of the name is put together from the others.    *)
UserProfile(claims) ==
    LET given == Default(claims.given, 1)
        family == Default(claims.family, 1)
    IN  [given |-> given, family |-> family, name |-> Default(claims.name, given + 1 + family)]

(* validateUserProfile, also applied to every profile written or read. *)
ProfileValid(profile) == \A claim \in DOMAIN profile : profile[claim] <= MaxClaim

(* No optional claim; long names and a name; a long name and no name. *)
Claims ==
    {[given |-> 0, family |-> 0, name |-> 0], [given |-> MaxClaim, family |-> MaxClaim, name |-> 1],
     [given |-> MaxClaim, family |-> 0, name |-> 0]}

-----------------------------------------------------------------------------
(* Texts of a request, by what the checks tell apart *)

(* oauthState and implementationName refuse an empty text, a long one and   *)
(* control characters; a text of blanks passes.                             *)
Texts == {"text", "blank"}

(* pkceInput takes 43 to 128 unreserved characters, among them those of an  *)
(* S256 challenge, or no challenge when the client's policy allows it: both *)
(* of these are "hash" here.                                                *)
Challenges == {"hash", "unreserved"}

-----------------------------------------------------------------------------
(* Reading the file: normalizeStore throws on the first malformed row. *)

Text(value) == value # "blank"

(* nothing, or 43 characters of the base64url alphabet *)
OptionalHash(value) == value = "hash"

OrderedSeconds(time, minimum) == time >= minimum

OptionalOrderedSeconds(time, minimum) == time = Unset \/ time >= minimum

AuthTime(time, createdAt) == time <= createdAt

AuthorizationCodeFromDisk(row) ==
    /\ OptionalHash(row.codeChallenge)
    /\ ProfileValid(row.user)
    /\ OrderedSeconds(row.expiresAt, row.createdAt)
    /\ OptionalOrderedSeconds(row.consumedAt, row.createdAt)
    /\ AuthTime(row.authTime, row.createdAt)

RefreshTokenFromDisk(row, expiresAt) ==
    /\ ProfileValid(row.user)
    /\ OrderedSeconds(expiresAt, row.createdAt)
    /\ OptionalOrderedSeconds(row.revokedAt, row.createdAt)
    /\ OptionalOrderedSeconds(row.lastUsedAt, row.createdAt)
    /\ AuthTime(row.authTime, row.createdAt)

UpstreamAuthorizationStateFromDisk(row) ==
    /\ Text(row.clientState)
    /\ OptionalHash(row.codeChallenge)
    /\ OrderedSeconds(row.expiresAt, row.createdAt)

McpSessionFromDisk(row) ==
    /\ Text(row.clientId)
    /\ OrderedSeconds(row.lastSeenAt, row.createdAt)
    /\ OrderedSeconds(row.expiresAt, row.createdAt)
    /\ OptionalOrderedSeconds(row.initializedAt, row.createdAt)
    /\ OptionalOrderedSeconds(row.terminatedAt, row.createdAt)

NormalizeStore ==
    /\ \A k \in DOMAIN authorizationCodes : AuthorizationCodeFromDisk(authorizationCodes[k])
    /\ \A t \in DOMAIN times : RefreshTokenFromDisk(times[t], record[t].expiresAt)
    /\ \A s \in DOMAIN upstreamAuthorizationStates :
          UpstreamAuthorizationStateFromDisk(upstreamAuthorizationStates[s])
    /\ \A m \in DOMAIN mcpSessions : McpSessionFromDisk(mcpSessions[m])

-----------------------------------------------------------------------------

StoreInit ==
    /\ Init
    /\ times = EmptyTable
    /\ authorizationCodes = EmptyTable
    /\ upstreamAuthorizationStates = EmptyTable
    /\ mcpSessions = EmptyTable
    /\ logins = {}
    /\ consumed = {}

Room ==
    Cardinality(DOMAIN record) + Cardinality(DOMAIN authorizationCodes)
        + Cardinality(DOMAIN upstreamAuthorizationStates) + Cardinality(DOMAIN mcpSessions) < MaxRows

(* An update of another part of the file than the refresh tokens. *)
Answered(answers) ==
    /\ NormalizeStore
    /\ reply' \in answers \cup {"server_error"}
    /\ UNCHANGED <<clock, record, times>>

(* A call that throws inside its update leaves the file as it was: the row  *)
(* is missing, used, expired, ended, full, or bound to another client,      *)
(* resource, verifier or protocol version.  Such a call can always be made. *)
Refuse ==
    /\ NormalizeStore
    /\ reply' = "invalid_grant"
    /\ UNCHANGED <<clock, record, times, authorizationCodes, upstreamAuthorizationStates,
                   mcpSessions, underWay>>

(* Mutant: the time of the login is taken when the update runs. *)
MutCodeRow(user, codeChallenge, createdAt) ==
    [createdAt |-> createdAt, authTime |-> clock, expiresAt |-> createdAt + CodeTtl,
     consumedAt |-> Unset, codeChallenge |-> codeChallenge, user |-> user]

(* The record of createAuthorizationCode. *)
CodeRow(user, codeChallenge, createdAt) ==
    [createdAt |-> createdAt, authTime |-> createdAt, expiresAt |-> createdAt + CodeTtl,
     consumedAt |-> Unset, codeChallenge |-> codeChallenge, user |-> user]

(* The callback goes on with the login state it was given.  The update      *)
(* fails when the profile cannot be written: a name put together from two   *)
(* long claims passed the first validation and fails the second.            *)
CreateAuthorizationCode(k, login, claims, createdAt) ==
    /\ Room
    /\ login \in logins
    /\ k \notin DOMAIN authorizationCodes
    /\ createdAt <= clock
    /\ ProfileValid(UserProfile(claims))
    /\ authorizationCodes' =
          PutItem(authorizationCodes, k, CodeRow(UserProfile(claims), login.codeChallenge, createdAt))
    /\ Answered({"granted"})
    /\ logins' = logins \ {login}
    /\ UNCHANGED <<upstreamAuthorizationStates, mcpSessions, consumed>>

CodeValid(k) ==
    /\ k \in DOMAIN authorizationCodes
    /\ authorizationCodes[k].consumedAt = Unset
    /\ authorizationCodes[k].expiresAt > clock

(* The caller holds the record only when it learns of the write. *)
ConsumeAuthorizationCode(k) ==
    /\ CodeValid(k)
    /\ authorizationCodes' = [authorizationCodes EXCEPT ![k].consumedAt = clock]
    /\ Answered({"granted"})
    /\ consumed' = IF reply' = "granted" THEN consumed \cup {k} ELSE consumed
    /\ UNCHANGED <<upstreamAuthorizationStates, mcpSessions, logins>>

(* authorizationCodeGrant goes on with the record it was given. *)
GrantRefreshToken(k, t, f, c, r, createdAt, ttl) ==
    /\ NormalizeStore /\ Room
    /\ k \in consumed
    /\ createdAt >= authorizationCodes[k].consumedAt
    /\ CreateRefreshToken(t, f, c, r, createdAt, ttl)
    /\ times' = PutItem(times, t,
          [createdAt |-> createdAt, authTime |-> authorizationCodes[k].authTime,
           revokedAt |-> Unset, lastUsedAt |-> Unset, user |-> authorizationCodes[k].user])
    /\ consumed' = consumed \ {k}
    /\ UNCHANGED <<authorizationCodes, upstreamAuthorizationStates, mcpSessions, logins>>

(* rotateRefreshToken: the times it sets, on what RotateRefused,            *)
(* RotateReused and RotateGranted do to the tokens themselves.              *)
Rotate(t, c, accepted) ==
    /\ NormalizeStore
    /\ \/ RotateRefused(t, c, accepted) /\ UNCHANGED times
       \/ /\ RotateReused(t, c, accepted)
          /\ times' = [u \in DOMAIN times |->
                         IF record[u].family = record[t].family
                         THEN [times[u] EXCEPT !.revokedAt = clock] ELSE times[u]]
       \/ \E new \in Token, ttl \in RefreshTtl :
             /\ Room
             /\ RotateGranted(t, c, accepted, new, ttl)
             /\ times' = PutItem([times EXCEPT ![t].lastUsedAt = clock], new,
                   [times[t] EXCEPT !.createdAt = clock, !.lastUsedAt = Unset])
    /\ UNCHANGED <<authorizationCodes, upstreamAuthorizationStates, mcpSessions, underWay>>

PruneExpiredUpstreamStates(now) ==
    [s \in {x \in DOMAIN upstreamAuthorizationStates : upstreamAuthorizationStates[x].expiresAt > now}
        |-> upstreamAuthorizationStates[s]]

CreateUpstreamAuthorizationState(s, clientState, codeChallenge, createdAt) ==
    /\ Room
    /\ s \notin DOMAIN upstreamAuthorizationStates
    /\ \A login \in logins : login.state # s
    /\ createdAt <= clock
    /\ upstreamAuthorizationStates' =
          PutItem(PruneExpiredUpstreamStates(createdAt), s,
                  [createdAt |-> createdAt, expiresAt |-> createdAt + CodeTtl,
                   clientState |-> clientState, codeChallenge |-> codeChallenge])
    /\ Answered({"granted"})
    /\ UNCHANGED <<authorizationCodes, mcpSessions, underWay>>

(* The callback holds the record only when it learns of the write. *)
ConsumeUpstreamAuthorizationState(s) ==
    /\ s \in DOMAIN PruneExpiredUpstreamStates(clock)
    /\ upstreamAuthorizationStates' = DeleteItem(PruneExpiredUpstreamStates(clock), s)
    /\ Answered({"granted"})
    /\ logins' = IF reply' = "granted"
                 THEN logins \cup {[state |-> s, codeChallenge |-> upstreamAuthorizationStates[s].codeChallenge]}
                 ELSE logins
    /\ UNCHANGED <<authorizationCodes, mcpSessions, consumed>>

(* createMcpSession; the client ID is the name of the client's initialize. *)
SessionRow(clientId, createdAt) ==
    [createdAt |-> createdAt, lastSeenAt |-> createdAt, expiresAt |-> createdAt + SessionTtl,
     clientId |-> clientId, requestIdHashes |-> {}, initializedAt |-> Unset, terminatedAt |-> Unset]

SaveMcpSession(m, clientId, createdAt) ==
    /\ Room
    /\ m \notin DOMAIN mcpSessions
    /\ createdAt <= clock
    /\ mcpSessions' = PutItem(mcpSessions, m, SessionRow(clientId, createdAt))
    /\ Answered({"granted"})
    /\ UNCHANGED <<authorizationCodes, upstreamAuthorizationStates, underWay>>

SessionLive(m) ==
    /\ m \in DOMAIN mcpSessions
    /\ mcpSessions[m].terminatedAt = Unset
    /\ mcpSessions[m].expiresAt > clock

WriteSession(m, row) ==
    /\ SessionLive(m)
    /\ mcpSessions' = [mcpSessions EXCEPT ![m] = [row EXCEPT !.lastSeenAt = clock]]
    /\ Answered({"granted"})
    /\ UNCHANGED <<authorizationCodes, upstreamAuthorizationStates, underWay>>

TouchMcpSession(m, markInitialized) ==
    WriteSession(m, IF markInitialized /\ mcpSessions[m].initializedAt = Unset
                    THEN [mcpSessions[m] EXCEPT !.initializedAt = clock] ELSE mcpSessions[m])

TooManyRequestIds(m, id) ==
    /\ id \notin mcpSessions[m].requestIdHashes
    /\ Cardinality(mcpSessions[m].requestIdHashes) >= maxMcpRequestIds

(* A duplicate is answered with false and still marks the session as seen. *)
ReserveMcpRequestId(m, id) ==
    /\ SessionLive(m) /\ ~TooManyRequestIds(m, id)
    /\ WriteSession(m, [mcpSessions[m] EXCEPT !.requestIdHashes = @ \cup {id}])

TerminateMcpSession(m) ==
    SessionLive(m) /\ WriteSession(m, [mcpSessions[m] EXCEPT !.terminatedAt = clock])

(* The file cannot be read, or an update fails before its rename. *)
StoreFails ==
    /\ UpdateFails
    /\ UNCHANGED <<times, authorizationCodes, upstreamAuthorizationStates, mcpSessions, underWay>>

StoreTick ==
    /\ Tick
    /\ UNCHANGED <<times, authorizationCodes, upstreamAuthorizationStates, mcpSessions, underWay>>

StoreNext ==
    \/ \E k \in Code :
          \/ \E login \in logins, claims \in Claims, createdAt \in 1..clock :
                CreateAuthorizationCode(k, login, claims, createdAt)
          \/ ConsumeAuthorizationCode(k)
          \/ \E t \in Token, f \in Family, c \in Client, r \in Resource, createdAt \in 1..clock, ttl \in RefreshTtl :
                GrantRefreshToken(k, t, f, c, r, createdAt, ttl)
    \/ \E t \in Token, c \in Client, accepted \in SUBSET Resource : Rotate(t, c, accepted)
    \/ \E s \in State :
          \/ \E clientState \in Texts, codeChallenge \in Challenges, createdAt \in 1..clock :
                CreateUpstreamAuthorizationState(s, clientState, codeChallenge, createdAt)
          \/ ConsumeUpstreamAuthorizationState(s)
    \/ \E m \in Session :
          \/ \E clientId \in Texts, createdAt \in 1..clock : SaveMcpSession(m, clientId, createdAt)
          \/ \E mark \in BOOLEAN : SessionLive(m) /\ TouchMcpSession(m, mark)
          \/ \E id \in RequestId : ReserveMcpRequestId(m, id)
          \/ TerminateMcpSession(m)
    \/ Refuse
    \/ StoreFails
    \/ StoreTick

StoreSpec == StoreInit /\ [][StoreNext]_storeVars

-----------------------------------------------------------------------------
(* Properties *)

(* The rows that the check on load refuses, login states and sessions apart *)
RefusedStates ==
    {s \in DOMAIN upstreamAuthorizationStates :
        ~UpstreamAuthorizationStateFromDisk(upstreamAuthorizationStates[s])}

RefusedSessions == {m \in DOMAIN mcpSessions : ~McpSessionFromDisk(mcpSessions[m])}

(* Whatever calls the store serves, in whatever order and however long      *)
(* their updates waited for the lock, the file they leave can be read       *)
(* again, with one exception: a text that a request may have and a row may  *)
(* not.  No code and no token is ever refused by normalizeStore, nor any    *)
(* row for its times; what blocks the file is a single login state or       *)
(* session, by its text.                                                    *)
RefusedForItsText ==
    /\ \A k \in DOMAIN authorizationCodes : AuthorizationCodeFromDisk(authorizationCodes[k])
    /\ \A t \in DOMAIN times : RefreshTokenFromDisk(times[t], record[t].expiresAt)
    /\ \A s \in RefusedStates :
          LET row == upstreamAuthorizationStates[s]
          IN  /\ row.clientState = "blank" \/ row.codeChallenge = "unreserved"
              /\ RefusedStates = {s} /\ RefusedSessions = {}
    /\ \A m \in RefusedSessions :
          /\ McpSessionFromDisk([mcpSessions[m] EXCEPT !.clientId = "text"])
          /\ RefusedSessions = {m} /\ RefusedStates = {}
=============================================================================
