-------------------------- MODULE DiskStore_proofs -------------------------
(* Proofs about DiskRefreshTokens and about the whole file of DiskStore,    *)
(* for any tokens, families, clients and lifetimes and any number of rows.  *)
EXTENDS DiskStore, TLAPS

-----------------------------------------------------------------------------
(* The refresh tokens alone *)

(* FamilyRevokedTogether is inductive over well-typed states. *)
Inductive == TypeOK /\ FamilyRevokedTogether

(* The record an exchange adds: the one of the old token, with another      *)
(* lifetime and parent.                                                     *)
LEMMA SuccessorRecord ==
    ASSUME TypeOK, NEW t \in DOMAIN record, ~record[t].revoked, NEW ttl \in RefreshTtl
    PROVE  LET r == [record[t] EXCEPT !.expiresAt = clock + ttl, !.rotatedFrom = t, !.revoked = FALSE]
           IN  /\ r \in Record
               /\ r.family = record[t].family
               /\ r.rotatedFrom = t
               /\ ~r.revoked
<1>1. record[t] \in Record /\ t \in Token /\ clock + ttl \in Nat
  BY DiskRefreshAssumption DEF TypeOK
<1> QED
  BY <1>1 DEF Record

(* What every step does to the table, in terms of the fields the properties *)
(* are about.                                                               *)
LEMMA Granted ==
    ASSUME TypeOK, NEW new \in Token, new \notin DOMAIN record, NEW r \in Record, ~r.revoked,
           Written(PutItem(record, new, r)), UNCHANGED clock,
           FamilyRevokedTogether,
           \A u \in DOMAIN record : record[u].family = r.family => ~record[u].revoked
    PROVE  /\ Inductive'
           /\ closedFamilies' = closedFamilies
           /\ lineageOfRecords' = PutItem(lineageOfRecords, new,
                                    [parent |-> r.rotatedFrom, family |-> r.family])
<1>1. /\ DOMAIN record' = DOMAIN record \cup {new}
      /\ record'[new] = r
      /\ \A u \in DOMAIN record : record'[u] = record[u]
  BY DEF Written, PutItem
<1>2. TypeOK'
  BY <1>1 DEF TypeOK, Written
<1>3. FamilyRevokedTogether'
  <2>1. \A u \in DOMAIN record' : record'[u].revoked \in BOOLEAN
    BY <1>2 DEF TypeOK, Record
  <2>2. \A u \in DOMAIN record : record[u].family = r.family => record'[u].revoked = record'[new].revoked
    BY <1>1, <2>1
  <2> QED
    BY <1>1, <2>2 DEF FamilyRevokedTogether
<1>4. closedFamilies' = closedFamilies
  BY <1>1 DEF closedFamilies
<1>5. lineageOfRecords' = PutItem(lineageOfRecords, new,
                                  [parent |-> r.rotatedFrom, family |-> r.family])
  <2> DEFINE put == PutItem(lineageOfRecords, new, [parent |-> r.rotatedFrom, family |-> r.family])
  <2>1. /\ lineageOfRecords' = [u \in DOMAIN record \cup {new} |->
                                  [parent |-> record'[u].rotatedFrom, family |-> record'[u].family]]
        /\ DOMAIN lineageOfRecords = DOMAIN record
    BY <1>1 DEF lineageOfRecords
  <2>2. put = [u \in DOMAIN record \cup {new} |->
                 IF u = new THEN [parent |-> r.rotatedFrom, family |-> r.family]
                            ELSE lineageOfRecords[u]]
    BY <2>1 DEF PutItem
  <2>3. ASSUME NEW u \in DOMAIN record \cup {new}
        PROVE  lineageOfRecords'[u] = put[u]
    BY <1>1, <2>1, <2>2, <2>3 DEF lineageOfRecords
  <2> HIDE DEF put
  <2>4. lineageOfRecords' = put
    BY <2>1, <2>2, <2>3
  <2> QED
    BY <2>4 DEF put
<1> QED
  BY <1>2, <1>3, <1>4, <1>5 DEF Inductive

(* A step that leaves the records alone. *)
LEMMA QuietStep ==
    ASSUME Inductive, UNCHANGED record, clock' \in Nat,
           reply' \in {"none", "granted", "invalid_grant", "server_error"}
    PROVE  Inductive' /\ UNCHANGED <<lineageOfRecords, closedFamilies>>
  BY DEF Inductive, TypeOK, FamilyRevokedTogether, lineageOfRecords, closedFamilies

LEMMA CreateRefines ==
    ASSUME Inductive, NEW t \in Token, NEW f \in Family, NEW c \in Client, NEW r \in Resource,
           NEW createdAt \in Nat, NEW ttl \in RefreshTtl,
           CreateRefreshToken(t, f, c, r, createdAt, ttl)
    PROVE  Inductive' /\ Abstract!FamilyNext
<1> DEFINE rec == [family |-> f, client |-> c, resource |-> r, expiresAt |-> createdAt + ttl,
                   rotatedFrom |-> Root, revoked |-> FALSE]
<1>1. rec \in Record /\ ~rec.revoked /\ rec.rotatedFrom = Root /\ rec.family = f
  BY DiskRefreshAssumption DEF Record
<1>2. /\ t \notin DOMAIN record
      /\ \A u \in DOMAIN record : record[u].family # f
      /\ Written(PutItem(record, t, rec))
      /\ UNCHANGED clock
  BY DEF CreateRefreshToken
<1> HIDE DEF rec
<1>3. /\ Inductive'
      /\ closedFamilies' = closedFamilies
      /\ lineageOfRecords' = PutItem(lineageOfRecords, t, [parent |-> Root, family |-> f])
  BY <1>1, <1>2, Granted DEF Inductive
<1>4. Abstract!Grant(t, f)
  BY <1>2, <1>3 DEF Abstract!Grant, Abstract!Used, Abstract!PutItem, PutItem, lineageOfRecords
<1> QED
  BY <1>3, <1>4 DEF Abstract!FamilyNext

(* A rotation, whatever it comes to, keeps the invariant and is a step of   *)
(* the abstract family.                                                     *)
LEMMA RotateRefines ==
    ASSUME Inductive, NEW t \in Token, NEW c \in Client, NEW accepted \in SUBSET Resource,
           \/ RotateRefused(t, c, accepted)
           \/ RotateReused(t, c, accepted)
           \/ \E new \in Token, ttl \in RefreshTtl : RotateGranted(t, c, accepted, new, ttl)
    PROVE  Inductive' /\ [Abstract!FamilyNext]_(Abstract!familyVars)
<1> USE DEF Abstract!familyVars
<1>2. ASSUME RotateReused(t, c, accepted) PROVE Inductive' /\ Abstract!FamilyNext
  <2> DEFINE f == record[t].family
  <2>1. /\ t \in DOMAIN record
        /\ DOMAIN record' = DOMAIN record
        /\ \A u \in DOMAIN record :
              record'[u] = IF record[u].family = f THEN [record[u] EXCEPT !.revoked = TRUE]
                                                   ELSE record[u]
    BY <1>2 DEF RotateReused, TokenValid, RevokeFamily
  <2>2. f \in Family
    BY <2>1 DEF Inductive, TypeOK, Record
  <2>3. \A u \in DOMAIN record :
           /\ record'[u] \in Record
           /\ record'[u].family = record[u].family
           /\ record'[u].rotatedFrom = record[u].rotatedFrom
           /\ record'[u].revoked = (record[u].family = f \/ record[u].revoked)
    <3> SUFFICES ASSUME NEW u \in DOMAIN record
                 PROVE  /\ record'[u] \in Record
                        /\ record'[u].family = record[u].family
                        /\ record'[u].rotatedFrom = record[u].rotatedFrom
                        /\ record'[u].revoked = (record[u].family = f \/ record[u].revoked)
      OBVIOUS
    <3>1. record[u] \in Record
      BY DEF Inductive, TypeOK
    <3> QED
      BY <2>1, <3>1 DEF Record
  <2> HIDE DEF f
  <2>4. TypeOK'
    BY <1>2, <2>1, <2>3 DEF Inductive, TypeOK, RotateReused
  <2>5. FamilyRevokedTogether'
    BY <2>1, <2>3 DEF Inductive, FamilyRevokedTogether
  <2>6. closedFamilies' = closedFamilies \cup {f}
    <3>1. \E u \in DOMAIN record : record[u].family = f
      BY <2>1 DEF f
    <3>2. ASSUME NEW g \in Family
          PROVE  g \in closedFamilies' <=> g \in closedFamilies \cup {f}
      <4>1. g \in closedFamilies' <=>
              \E u \in DOMAIN record : record[u].family = g /\ (record[u].family = f \/ record[u].revoked)
        BY <2>1, <2>3 DEF closedFamilies
      <4>2. g \in closedFamilies <=> \E u \in DOMAIN record : record[u].family = g /\ record[u].revoked
        BY DEF closedFamilies
      <4> QED
        BY <3>1, <4>1, <4>2
    <3>3. closedFamilies \subseteq Family /\ closedFamilies' \subseteq Family
      BY DEF closedFamilies
    <3> QED
      BY <2>2, <3>2, <3>3
  <2>7. lineageOfRecords' = lineageOfRecords
    BY <2>1, <2>3 DEF lineageOfRecords
  <2>8. Abstract!Used(f)
    BY <2>1 DEF Abstract!Used, lineageOfRecords, f
  <2>9. Abstract!Close(f)
    BY <2>6, <2>7, <2>8 DEF Abstract!Close
  <2> QED
    BY <2>2, <2>4, <2>5, <2>9 DEF Inductive, Abstract!FamilyNext
<1>3. ASSUME NEW new \in Token, NEW ttl \in RefreshTtl, RotateGranted(t, c, accepted, new, ttl)
      PROVE  Inductive' /\ Abstract!FamilyNext
  <2> DEFINE rec == [record[t] EXCEPT !.expiresAt = clock + ttl, !.rotatedFrom = t, !.revoked = FALSE]
  <2>1. /\ t \in DOMAIN record
        /\ ~record[t].revoked
        /\ ~Reused(t)
        /\ new \notin DOMAIN record
        /\ Written(PutItem(record, new, rec))
        /\ UNCHANGED clock
    BY <1>3 DEF RotateGranted, TokenValid
  <2>2. rec \in Record /\ rec.family = record[t].family /\ rec.rotatedFrom = t /\ ~rec.revoked
    BY <2>1, SuccessorRecord DEF Inductive
  <2> HIDE DEF rec
  <2>3. \A u \in DOMAIN record : record[u].family = record[t].family => ~record[u].revoked
    BY <2>1 DEF Inductive, FamilyRevokedTogether
  <2>4. /\ Inductive'
        /\ closedFamilies' = closedFamilies
        /\ lineageOfRecords' =
              PutItem(lineageOfRecords, new, [parent |-> t, family |-> record[t].family])
    BY <2>1, <2>2, <2>3, Granted DEF Inductive
  <2>5. /\ DOMAIN lineageOfRecords = DOMAIN record
        /\ \A u \in DOMAIN record : /\ lineageOfRecords[u].family = record[u].family
                                    /\ lineageOfRecords[u].parent = record[u].rotatedFrom
    BY DEF lineageOfRecords
  <2>6. record[t].family \notin closedFamilies
    BY <2>3 DEF closedFamilies
  <2>7. Abstract!Successors(t) = {}
    BY <2>1, <2>5 DEF Abstract!Successors, Reused
  <2>8. Abstract!Rotate(t, new)
    BY <2>1, <2>4, <2>5, <2>6, <2>7 DEF Abstract!Rotate, Abstract!PutItem, PutItem
  <2> QED
    BY <2>4, <2>8 DEF Abstract!FamilyNext
<1>4. ASSUME RotateRefused(t, c, accepted)
      PROVE  Inductive' /\ UNCHANGED <<lineageOfRecords, closedFamilies>>
  BY <1>4, QuietStep DEF RotateRefused, Inductive, TypeOK
<1> QED
  BY <1>2, <1>3, <1>4

(* Every step keeps the invariant and is a step of the abstract family. *)
LEMMA RefinedStep ==
    ASSUME Inductive, [Next]_vars
    PROVE  Inductive' /\ [Abstract!FamilyNext]_(Abstract!familyVars)
<1>1. ASSUME NEW t \in Token, NEW f \in Family, NEW c \in Client, NEW r \in Resource,
             NEW createdAt \in 0..MaxClock, NEW ttl \in RefreshTtl,
             CreateRefreshToken(t, f, c, r, createdAt, ttl)
      PROVE  Inductive' /\ Abstract!FamilyNext
  BY <1>1, CreateRefines
<1>2. ASSUME UpdateFails \/ Tick \/ UNCHANGED vars
      PROVE  Inductive' /\ UNCHANGED <<lineageOfRecords, closedFamilies>>
  <2>1. /\ UNCHANGED record /\ clock' \in Nat
        /\ reply' \in {"none", "granted", "invalid_grant", "server_error"}
    BY <1>2 DEF UpdateFails, Tick, vars, Inductive, TypeOK
  <2> QED
    BY <2>1, QuietStep
<1> QED
  BY <1>1, <1>2, RotateRefines DEF Next, Abstract!familyVars

(* A family is revoked as a whole and stays closed: the disk store's replay *)
(* handling never leaves one of its tokens usable.                          *)
THEOREM RevokedTogether == Spec => [](TypeOK /\ FamilyRevokedTogether)
<1>1. Init => Inductive
  BY DEF Init, Inductive, TypeOK, FamilyRevokedTogether, EmptyTable
<1>2. Inductive /\ [Next]_vars => Inductive'
  BY RefinedStep
<1>3. Inductive => TypeOK /\ FamilyRevokedTogether
  BY DEF Inductive
<1> QED
  BY <1>1, <1>2, <1>3, PTL DEF Spec

(* The disk store implements the abstract refresh family, with no condition *)
(* on the lifetimes it was configured with.                                 *)
THEOREM ImplementsRefreshFamily == Spec => ImplementsFamily
<1>1. Init => Inductive /\ Abstract!FamilyInit
  BY DEF Init, Inductive, TypeOK, FamilyRevokedTogether, EmptyTable,
         Abstract!FamilyInit, Abstract!EmptyTable, lineageOfRecords, closedFamilies
<1>2. Inductive /\ [Next]_vars => Inductive' /\ [Abstract!FamilyNext]_(Abstract!familyVars)
  BY RefinedStep
<1> QED
  BY <1>1, <1>2, PTL DEF Spec, ImplementsFamily, Abstract!FamilySpec
-----------------------------------------------------------------------------
(* The whole file *)

(* Rows as they are written.  An optional time is a number, Unset without   *)
(* one.                                                                     *)
Profile == [given : Nat, family : Nat, name : Nat]
TimesRow == [createdAt : Nat, authTime : Nat, revokedAt : Nat, lastUsedAt : Nat, user : Profile]
CodeRows == [createdAt : Nat, authTime : Nat, expiresAt : Nat, consumedAt : Nat,
             codeChallenge : Challenges, user : Profile]
StateRows == [createdAt : Nat, expiresAt : Nat, clientState : Texts, codeChallenge : Challenges]
SessionRows == [createdAt : Nat, lastSeenAt : Nat, expiresAt : Nat, clientId : Texts,
                requestIdHashes : SUBSET RequestId, initializedAt : Nat, terminatedAt : Nat]

(* A row was created in the past, so a time taken by a later update is no   *)
(* earlier than it.  A token that is not revoked has no time of revocation  *)
(* for its successor to copy, and what a token inherits from a code is      *)
(* older than the token, which is created after the code was consumed.  The *)
(* texts of a login state and of a session are whatever the request had.    *)
TokenRowOK(t) ==
    /\ times[t] \in TimesRow
    /\ times[t].createdAt \in 1..clock
    /\ RefreshTokenFromDisk(times[t], record[t].expiresAt)
    /\ ~record[t].revoked => times[t].revokedAt = Unset

CodeRowOK(k) ==
    /\ authorizationCodes[k] \in CodeRows
    /\ authorizationCodes[k].createdAt \in 1..clock
    /\ AuthorizationCodeFromDisk(authorizationCodes[k])

StateRowOK(s) ==
    /\ upstreamAuthorizationStates[s] \in StateRows
    /\ OrderedSeconds(upstreamAuthorizationStates[s].expiresAt, upstreamAuthorizationStates[s].createdAt)

SessionRowOK(m) ==
    /\ mcpSessions[m] \in SessionRows
    /\ mcpSessions[m].createdAt \in 1..clock
    /\ McpSessionFromDisk([mcpSessions[m] EXCEPT !.clientId = "text"])

TokensOK == DOMAIN times = DOMAIN record /\ \A t \in DOMAIN record : TokenRowOK(t)
CodesOK ==
    /\ \A k \in DOMAIN authorizationCodes : CodeRowOK(k)
    /\ \A k \in consumed : /\ k \in DOMAIN authorizationCodes
                           /\ authorizationCodes[k].consumedAt # Unset
StatesOK == \A s \in DOMAIN upstreamAuthorizationStates : StateRowOK(s)
SessionsOK == \A m \in DOMAIN mcpSessions : SessionRowOK(m)

(* No operation writes to a file that it could not read, so the first row   *)
(* that is refused is the last one written.  Nor does a callback go on with *)
(* a login state of such a file: its challenge is one that a code may have. *)
OneRefused ==
    /\ \A s \in RefusedStates : RefusedStates = {s} /\ RefusedSessions = {}
    /\ \A m \in RefusedSessions : RefusedSessions = {m} /\ RefusedStates = {}

LoginsOK == \A login \in logins : OptionalHash(login.codeChallenge)

FileOK == TokensOK /\ CodesOK /\ StatesOK /\ SessionsOK /\ OneRefused /\ LoginsOK

StoreInductive == Inductive /\ clock >= 1 /\ FileOK

(* A file that was read has no refused row, and after an update that adds   *)
(* or changes one row at most one.                                          *)
LEMMA NoneRefused == NormalizeStore => RefusedStates = {} /\ RefusedSessions = {}
  BY DEF NormalizeStore, RefusedStates, RefusedSessions

LEMMA StateRefused ==
    ASSUME NormalizeStore, UNCHANGED mcpSessions, NEW s, RefusedStates' \subseteq {s}
    PROVE  OneRefused'
<1>1. RefusedSessions' = {}
  BY NoneRefused DEF RefusedSessions, McpSessionFromDisk
<1> QED
  BY <1>1 DEF OneRefused

LEMMA SessionRefused ==
    ASSUME NormalizeStore, UNCHANGED upstreamAuthorizationStates, NEW m, RefusedSessions' \subseteq {m}
    PROVE  OneRefused'
<1>1. RefusedStates' = {}
  BY NoneRefused DEF RefusedStates, UpstreamAuthorizationStateFromDisk
<1> QED
  BY <1>1 DEF OneRefused

LEMMA RefusedKept ==
    ASSUME OneRefused, LoginsOK, UNCHANGED <<upstreamAuthorizationStates, mcpSessions>>,
           logins' \subseteq logins
    PROVE  OneRefused' /\ LoginsOK'
<1>1. RefusedStates' = RefusedStates /\ RefusedSessions' = RefusedSessions
  BY DEF RefusedStates, RefusedSessions, UpstreamAuthorizationStateFromDisk, McpSessionFromDisk
<1> QED
  BY <1>1 DEF OneRefused, LoginsOK

(* The checks compare times of one row: those left alone stay readable as   *)
(* the clock goes on.                                                       *)
LEMMA TokensKept ==
    ASSUME TokensOK, clock \in Nat, clock' \in Nat, clock' >= clock, UNCHANGED <<record, times>>
    PROVE  TokensOK'
  BY DEF TokensOK, TokenRowOK, RefreshTokenFromDisk

LEMMA CodesKept ==
    ASSUME CodesOK, clock \in Nat, clock' \in Nat, clock' >= clock,
           UNCHANGED authorizationCodes, consumed' \subseteq consumed
    PROVE  CodesOK'
  BY DEF CodesOK, CodeRowOK, AuthorizationCodeFromDisk

LEMMA StatesKept ==
    ASSUME StatesOK, UNCHANGED upstreamAuthorizationStates
    PROVE  StatesOK'
  BY DEF StatesOK, StateRowOK

LEMMA SessionsKept ==
    ASSUME SessionsOK, clock \in Nat, clock' \in Nat, clock' >= clock, UNCHANGED mcpSessions
    PROVE  SessionsOK'
  BY DEF SessionsOK, SessionRowOK, McpSessionFromDisk

LEMMA UserProfiles == \A claims \in Claims : UserProfile(claims) \in Profile
<1>1. \A claims \in Claims : claims \in Profile
  BY DiskStoreAssumption DEF Claims, Profile
<1> QED
  BY <1>1 DEF UserProfile, Default, Profile

-----------------------------------------------------------------------------
(* Codes *)

LEMMA CreateCodeOK ==
    ASSUME CodesOK, LoginsOK, clock \in Nat, NEW k \in Code, NEW login \in logins, NEW claims \in Claims,
           NEW createdAt \in 1..clock, CreateAuthorizationCode(k, login, claims, createdAt)
    PROVE  CodesOK'
<1> DEFINE row == CodeRow(UserProfile(claims), login.codeChallenge, createdAt)
<1>1. /\ k \notin DOMAIN authorizationCodes /\ UNCHANGED <<clock, consumed>>
      /\ authorizationCodes' = PutItem(authorizationCodes, k, row)
      /\ ProfileValid(UserProfile(claims)) /\ login.codeChallenge = "hash"
  BY DEF CreateAuthorizationCode, Answered, LoginsOK, OptionalHash
<1>2. PICK user \in Profile : user = UserProfile(claims)
  BY UserProfiles
<1>3. /\ row \in CodeRows /\ row.createdAt \in 1..clock
      /\ AuthorizationCodeFromDisk(row)
  BY <1>1, <1>2, DiskStoreAssumption DEF CodeRow, CodeRows, AuthorizationCodeFromDisk, OrderedSeconds,
     OptionalOrderedSeconds, AuthTime, Unset, OptionalHash, Challenges
<1> HIDE DEF row
<1>4. /\ DOMAIN authorizationCodes' = DOMAIN authorizationCodes \cup {k}
      /\ authorizationCodes'[k] = row
      /\ \A x \in DOMAIN authorizationCodes : authorizationCodes'[x] = authorizationCodes[x]
  BY <1>1 DEF PutItem
<1> QED
  BY <1>1, <1>3, <1>4 DEF CodesOK, CodeRowOK

LEMMA ConsumeCodeOK ==
    ASSUME CodesOK, clock \in Nat, clock >= 1, NEW k \in Code, ConsumeAuthorizationCode(k)
    PROVE  CodesOK'
<1>1. /\ k \in DOMAIN authorizationCodes /\ UNCHANGED clock
      /\ authorizationCodes' = [authorizationCodes EXCEPT ![k].consumedAt = clock]
      /\ consumed' \subseteq consumed \cup {k}
  BY DEF ConsumeAuthorizationCode, CodeValid, Answered
<1>2. PICK old \in CodeRows : old = authorizationCodes[k] /\ old.createdAt \in 1..clock
                              /\ AuthorizationCodeFromDisk(old)
  BY <1>1 DEF CodesOK, CodeRowOK
<1>3. PICK new : new = [old EXCEPT !.consumedAt = clock]
  OBVIOUS
<1>4. /\ DOMAIN authorizationCodes' = DOMAIN authorizationCodes
      /\ authorizationCodes'[k] = new
      /\ \A x \in DOMAIN authorizationCodes \ {k} : authorizationCodes'[x] = authorizationCodes[x]
  BY <1>1, <1>2, <1>3
<1>5. /\ new \in CodeRows /\ new.createdAt = old.createdAt /\ new.authTime = old.authTime
      /\ new.expiresAt = old.expiresAt /\ new.consumedAt = clock /\ new.user = old.user
      /\ new.codeChallenge = old.codeChallenge
  BY <1>2, <1>3 DEF CodeRows
<1>6. AuthorizationCodeFromDisk(new)
  BY <1>2, <1>5 DEF AuthorizationCodeFromDisk, OrderedSeconds, OptionalOrderedSeconds, AuthTime, CodeRows
<1>7. \A x \in DOMAIN authorizationCodes' : CodeRowOK(x)'
  BY <1>1, <1>2, <1>4, <1>5, <1>6 DEF CodesOK, CodeRowOK
<1>8. \A x \in consumed' : x \in DOMAIN authorizationCodes' /\ authorizationCodes'[x].consumedAt # Unset
  BY <1>1, <1>4, <1>5 DEF CodesOK, Unset
<1> QED
  BY <1>7, <1>8 DEF CodesOK

-----------------------------------------------------------------------------
(* Refresh tokens *)

(* createdAt is taken after the code was consumed, and the login is older.  *)
LEMMA GrantTokenOK ==
    ASSUME TypeOK, TokensOK, CodesOK, NEW k, NEW t \in Token, NEW f \in Family, NEW c \in Client,
           NEW r \in Resource, NEW createdAt \in 1..clock, NEW ttl \in RefreshTtl,
           GrantRefreshToken(k, t, f, c, r, createdAt, ttl)
    PROVE  TokensOK'
<1> DEFINE row == [createdAt |-> createdAt, authTime |-> authorizationCodes[k].authTime,
                   revokedAt |-> Unset, lastUsedAt |-> Unset, user |-> authorizationCodes[k].user]
           rec == [family |-> f, client |-> c, resource |-> r, expiresAt |-> createdAt + ttl,
                   rotatedFrom |-> Root, revoked |-> FALSE]
<1>1. /\ t \notin DOMAIN record /\ UNCHANGED clock
      /\ record' = PutItem(record, t, rec) /\ times' = PutItem(times, t, row)
      /\ k \in DOMAIN authorizationCodes /\ authorizationCodes[k].consumedAt # Unset
      /\ createdAt >= authorizationCodes[k].consumedAt
  BY DEF GrantRefreshToken, CreateRefreshToken, Written, CodesOK
<1>2. PICK code \in CodeRows : code = authorizationCodes[k] /\ AuthorizationCodeFromDisk(code)
  BY <1>1 DEF CodesOK, CodeRowOK
<1>3. code.authTime <= createdAt
  BY <1>1, <1>2, createdAt \in Nat DEF AuthorizationCodeFromDisk, OptionalOrderedSeconds, AuthTime, CodeRows, TypeOK
<1>4. row \in TimesRow /\ row.createdAt \in 1..clock /\ row.revokedAt = Unset
  BY <1>2, clock \in Nat DEF TimesRow, CodeRows, Unset, TypeOK
<1>5. RefreshTokenFromDisk(row, rec.expiresAt)
  BY <1>2, <1>3, DiskRefreshAssumption
     DEF RefreshTokenFromDisk, AuthorizationCodeFromDisk, OrderedSeconds, OptionalOrderedSeconds, AuthTime
<1> HIDE DEF row, rec
<1>6. /\ DOMAIN times' = DOMAIN times \cup {t} /\ DOMAIN record' = DOMAIN record \cup {t}
      /\ times'[t] = row /\ record'[t] = rec
      /\ \A u \in DOMAIN record : times'[u] = times[u] /\ record'[u] = record[u]
  BY <1>1 DEF PutItem, TokensOK
<1> QED
  BY <1>1, <1>4, <1>5, <1>6 DEF TokensOK, TokenRowOK

LEMMA ReusedOK ==
    ASSUME TypeOK, TokensOK, NEW t \in Token, NEW c, NEW accepted,
           clock >= 1, RotateReused(t, c, accepted),
           times' = [u \in DOMAIN times |->
                       IF record[u].family = record[t].family
                       THEN [times[u] EXCEPT !.revokedAt = clock] ELSE times[u]]
    PROVE  TokensOK'
<1>1. /\ UNCHANGED clock /\ DOMAIN record' = DOMAIN record /\ DOMAIN times' = DOMAIN record
      /\ \A u \in DOMAIN record :
            record'[u] = IF record[u].family = record[t].family
                         THEN [record[u] EXCEPT !.revoked = TRUE] ELSE record[u]
  BY DEF RotateReused, RevokeFamily, TokensOK
<1>2. ASSUME NEW u \in DOMAIN record, record[u].family # record[t].family
      PROVE  TokenRowOK(u)'
  <2>1. times'[u] = times[u] /\ record'[u] = record[u]
    BY <1>1, <1>2 DEF TokensOK
  <2> QED
    BY <1>1, <2>1 DEF TokensOK, TokenRowOK
<1>3. ASSUME NEW u \in DOMAIN record, record[u].family = record[t].family
      PROVE  TokenRowOK(u)'
  <2>1. PICK old \in TimesRow : old = times[u] /\ old.createdAt \in 1..clock
                                /\ RefreshTokenFromDisk(old, record[u].expiresAt)
    BY <1>3 DEF TokensOK, TokenRowOK
  <2>2. PICK new : new = [old EXCEPT !.revokedAt = clock]
    OBVIOUS
  <2>3. times'[u] = new
    BY <1>3, <2>1, <2>2 DEF TokensOK
  <2>4. record[u] \in Record
    BY <1>3 DEF TypeOK
  <2>5. record'[u].expiresAt = record[u].expiresAt /\ record'[u].revoked
    BY <1>1, <1>3, <2>4 DEF Record
  <2>6. /\ new \in TimesRow /\ new.createdAt = old.createdAt /\ new.authTime = old.authTime
        /\ new.revokedAt = clock /\ new.lastUsedAt = old.lastUsedAt /\ new.user = old.user
    BY <2>1, <2>2, clock \in Nat DEF TimesRow, TypeOK
  <2>7. RefreshTokenFromDisk(new, record[u].expiresAt)
    BY <2>1, <2>6, clock \in Nat DEF RefreshTokenFromDisk, OptionalOrderedSeconds, OrderedSeconds, AuthTime, TypeOK
  <2> QED
    BY <1>1, <2>1, <2>3, <2>5, <2>6, <2>7 DEF TokenRowOK
<1> QED
  BY <1>1, <1>2, <1>3 DEF TokensOK

(* The successor copies the row of a token that was never revoked. *)
LEMMA GrantedOK ==
    ASSUME TypeOK, TokensOK, NEW t \in Token, NEW c, NEW accepted, NEW new \in Token,
           NEW ttl \in RefreshTtl, clock >= 1, RotateGranted(t, c, accepted, new, ttl),
           times' = PutItem([times EXCEPT ![t].lastUsedAt = clock], new,
                      [times[t] EXCEPT !.createdAt = clock, !.lastUsedAt = Unset])
    PROVE  TokensOK'
<1>1. /\ t \in DOMAIN record /\ ~record[t].revoked /\ new \notin DOMAIN record /\ UNCHANGED clock
      /\ record' = PutItem(record, new,
            [record[t] EXCEPT !.expiresAt = clock + ttl, !.rotatedFrom = t, !.revoked = FALSE])
  BY DEF RotateGranted, TokenValid, Written
<1>2. record[t] \in Record /\ clock \in Nat /\ clock + ttl \in Nat /\ clock + ttl >= clock
  BY <1>1, DiskRefreshAssumption DEF TypeOK
<1>3. PICK rec : rec = [record[t] EXCEPT !.expiresAt = clock + ttl, !.rotatedFrom = t, !.revoked = FALSE]
  OBVIOUS
<1>4. rec.expiresAt = clock + ttl
  BY <1>2, <1>3 DEF Record
<1>5. PICK old \in TimesRow : /\ old = times[t] /\ old.createdAt \in 1..clock /\ old.revokedAt = Unset
                              /\ RefreshTokenFromDisk(old, record[t].expiresAt)
  BY <1>1 DEF TokensOK, TokenRowOK
<1>6. PICK used : used = [old EXCEPT !.lastUsedAt = clock]
  OBVIOUS
<1>7. PICK next : next = [old EXCEPT !.createdAt = clock, !.lastUsedAt = Unset]
  OBVIOUS
<1>8. /\ DOMAIN times' = DOMAIN times \cup {new} /\ DOMAIN record' = DOMAIN record \cup {new}
      /\ times'[t] = used /\ times'[new] = next /\ record'[new] = rec /\ record'[t] = record[t]
      /\ \A u \in DOMAIN record \ {t} : times'[u] = times[u] /\ record'[u] = record[u]
  BY <1>1, <1>3, <1>5, <1>6, <1>7 DEF PutItem, TokensOK
<1>9. /\ used \in TimesRow /\ used.createdAt = old.createdAt /\ used.authTime = old.authTime
      /\ used.revokedAt = Unset /\ used.lastUsedAt = clock /\ used.user = old.user
  BY <1>2, <1>5, <1>6 DEF TimesRow
<1>10. /\ next \in TimesRow /\ next.createdAt = clock /\ next.authTime = old.authTime
       /\ next.revokedAt = Unset /\ next.lastUsedAt = Unset /\ next.user = old.user
  BY <1>2, <1>5, <1>7 DEF TimesRow, Unset
<1>11. RefreshTokenFromDisk(used, record[t].expiresAt)
  BY <1>2, <1>5, <1>9 DEF RefreshTokenFromDisk, OptionalOrderedSeconds, OrderedSeconds, AuthTime
<1>12. RefreshTokenFromDisk(next, clock + ttl)
  BY <1>2, <1>5, <1>10 DEF RefreshTokenFromDisk, OptionalOrderedSeconds, OrderedSeconds, AuthTime, TimesRow
<1>13. TokenRowOK(t)'
  BY <1>1, <1>5, <1>8, <1>9, <1>11 DEF TokenRowOK
<1>14. TokenRowOK(new)'
  BY <1>1, <1>2, <1>4, <1>8, <1>10, <1>12 DEF TokenRowOK
<1>15. \A u \in DOMAIN record \ {t} : TokenRowOK(u)'
  BY <1>1, <1>8 DEF TokensOK, TokenRowOK
<1> QED
  BY <1>8, <1>13, <1>14, <1>15 DEF TokensOK

-----------------------------------------------------------------------------
(* Login states and MCP sessions *)

LEMMA CreateStateOK ==
    ASSUME StatesOK, LoginsOK, clock \in Nat, NEW s \in State, NEW clientState \in Texts,
           NEW codeChallenge \in Challenges, NEW createdAt \in 1..clock,
           CreateUpstreamAuthorizationState(s, clientState, codeChallenge, createdAt)
    PROVE  StatesOK' /\ OneRefused' /\ LoginsOK'
<1>1. PICK row : row = [createdAt |-> createdAt, expiresAt |-> createdAt + CodeTtl,
                        clientState |-> clientState, codeChallenge |-> codeChallenge]
  OBVIOUS
<1>2. row \in StateRows /\ OrderedSeconds(row.expiresAt, row.createdAt)
  BY <1>1, DiskStoreAssumption DEF StateRows, OrderedSeconds
<1>3. /\ DOMAIN upstreamAuthorizationStates' \subseteq DOMAIN upstreamAuthorizationStates \cup {s}
      /\ upstreamAuthorizationStates'[s] = row
      /\ \A x \in DOMAIN upstreamAuthorizationStates' \ {s} :
            upstreamAuthorizationStates'[x] = upstreamAuthorizationStates[x]
      /\ NormalizeStore /\ UNCHANGED <<mcpSessions, logins>>
  BY <1>1 DEF CreateUpstreamAuthorizationState, PruneExpiredUpstreamStates, PutItem, Answered, underWay
<1>4. StatesOK'
  BY <1>2, <1>3 DEF StatesOK, StateRowOK
<1>5. RefusedStates' \subseteq {s}
  BY <1>3 DEF RefusedStates, NormalizeStore, UpstreamAuthorizationStateFromDisk
<1> QED
  BY <1>3, <1>4, <1>5, StateRefused DEF LoginsOK

LEMMA ConsumeStateOK ==
    ASSUME StatesOK, LoginsOK, NEW s \in State, ConsumeUpstreamAuthorizationState(s)
    PROVE  StatesOK' /\ OneRefused' /\ LoginsOK'
<1>1. /\ DOMAIN upstreamAuthorizationStates' \subseteq DOMAIN upstreamAuthorizationStates
      /\ \A x \in DOMAIN upstreamAuthorizationStates' :
            upstreamAuthorizationStates'[x] = upstreamAuthorizationStates[x]
      /\ s \in DOMAIN upstreamAuthorizationStates
      /\ NormalizeStore /\ UNCHANGED mcpSessions
  BY DEF ConsumeUpstreamAuthorizationState, PruneExpiredUpstreamStates, DeleteItem, Answered
<1>2. StatesOK'
  BY <1>1 DEF StatesOK, StateRowOK
<1>3. RefusedStates' \subseteq {s}
  BY <1>1 DEF RefusedStates, NormalizeStore, UpstreamAuthorizationStateFromDisk
<1>4. OptionalHash(upstreamAuthorizationStates[s].codeChallenge)
  BY <1>1 DEF NormalizeStore, UpstreamAuthorizationStateFromDisk
<1>5. LoginsOK'
  BY <1>4 DEF ConsumeUpstreamAuthorizationState, LoginsOK, OptionalHash
<1> QED
  BY <1>1, <1>2, <1>3, <1>5, StateRefused

LEMMA SaveSessionOK ==
    ASSUME SessionsOK, clock \in Nat, NEW m \in Session, NEW clientId \in Texts, NEW createdAt \in 1..clock,
           SaveMcpSession(m, clientId, createdAt)
    PROVE  SessionsOK' /\ OneRefused'
<1>1. PICK row : row = SessionRow(clientId, createdAt)
  OBVIOUS
<1>2. row \in SessionRows /\ row.createdAt \in 1..clock
  BY <1>1, DiskStoreAssumption DEF SessionRow, SessionRows, Unset
<1>3. PICK named : named = [row EXCEPT !.clientId = "text"]
  OBVIOUS
<1>4. named = SessionRow("text", createdAt)
  BY <1>1, <1>3 DEF SessionRow
<1>5. McpSessionFromDisk(named)
  BY <1>4, DiskStoreAssumption
     DEF SessionRow, McpSessionFromDisk, OrderedSeconds, OptionalOrderedSeconds, Unset, Text
<1>6. /\ UNCHANGED clock
      /\ DOMAIN mcpSessions' = DOMAIN mcpSessions \cup {m}
      /\ mcpSessions'[m] = row
      /\ \A x \in DOMAIN mcpSessions \ {m} : mcpSessions'[x] = mcpSessions[x]
      /\ NormalizeStore /\ UNCHANGED upstreamAuthorizationStates
  BY <1>1 DEF SaveMcpSession, PutItem, Answered
<1>7. SessionsOK'
  BY <1>2, <1>3, <1>5, <1>6 DEF SessionsOK, SessionRowOK
<1>8. RefusedSessions' \subseteq {m}
  BY <1>6 DEF RefusedSessions, NormalizeStore, McpSessionFromDisk
<1> QED
  BY <1>6, <1>7, <1>8, SessionRefused

(* A row that an update may write back: the client and the creation stay,   *)
(* and the times it sets are the present.                                   *)
Successor(row, old) ==
    /\ row \in SessionRows
    /\ row.createdAt = old.createdAt /\ row.expiresAt = old.expiresAt /\ row.clientId = old.clientId
    /\ row.initializedAt \in {old.initializedAt, clock}
    /\ row.terminatedAt \in {old.terminatedAt, clock}

LEMMA WriteSessionOK ==
    ASSUME SessionsOK, clock \in Nat, NEW m \in Session, NEW row, WriteSession(m, row),
           Successor(row, mcpSessions[m])
    PROVE  SessionsOK' /\ OneRefused'
<1>1. PICK new : new = [row EXCEPT !.lastSeenAt = clock]
  OBVIOUS
<1>2. /\ m \in DOMAIN mcpSessions /\ UNCHANGED clock
      /\ DOMAIN mcpSessions' = DOMAIN mcpSessions
      /\ mcpSessions'[m] = new
      /\ \A x \in DOMAIN mcpSessions \ {m} : mcpSessions'[x] = mcpSessions[x]
      /\ NormalizeStore /\ UNCHANGED upstreamAuthorizationStates
  BY <1>1 DEF WriteSession, SessionLive, Answered
<1>3. PICK old \in SessionRows : /\ old = mcpSessions[m] /\ old.createdAt \in 1..clock
                                 /\ McpSessionFromDisk(old) /\ Successor(row, old)
  BY <1>2 DEF SessionsOK, SessionRowOK, NormalizeStore
<1>4. /\ new \in SessionRows /\ new.createdAt = old.createdAt /\ new.lastSeenAt = clock
      /\ new.expiresAt = old.expiresAt /\ new.initializedAt \in {old.initializedAt, clock}
      /\ new.terminatedAt \in {old.terminatedAt, clock} /\ new.clientId = old.clientId
  BY <1>1, <1>3 DEF Successor, SessionRows
<1>5. McpSessionFromDisk(new)
  BY <1>3, <1>4 DEF McpSessionFromDisk, OrderedSeconds, OptionalOrderedSeconds, SessionRows
<1>6. new.clientId = "text"
  BY <1>4, <1>5 DEF McpSessionFromDisk, Text, SessionRows, Texts
<1>7. [new EXCEPT !.clientId = "text"] = new
  BY <1>4, <1>6 DEF SessionRows
<1>8. SessionsOK'
  BY <1>2, <1>3, <1>4, <1>5, <1>7 DEF SessionsOK, SessionRowOK
<1>9. RefusedSessions' \subseteq {m}
  BY <1>2 DEF RefusedSessions, NormalizeStore, McpSessionFromDisk
<1> QED
  BY <1>2, <1>8, <1>9, SessionRefused

LEMMA SessionUpdateOK ==
    ASSUME SessionsOK, clock \in Nat, NEW m \in Session,
           \/ \E mark \in BOOLEAN : SessionLive(m) /\ TouchMcpSession(m, mark)
           \/ \E id \in RequestId : ReserveMcpRequestId(m, id)
           \/ TerminateMcpSession(m)
    PROVE  SessionsOK' /\ OneRefused'
<1>1. m \in DOMAIN mcpSessions
  BY DEF ReserveMcpRequestId, TerminateMcpSession, SessionLive
<1>2. PICK old \in SessionRows : old = mcpSessions[m]
  BY <1>1 DEF SessionsOK, SessionRowOK
<1>3. Successor(old, old)
  BY DEF Successor
<1>4. Successor([old EXCEPT !.initializedAt = clock], old)
  BY DEF Successor, SessionRows
<1>5. Successor([old EXCEPT !.terminatedAt = clock], old)
  BY DEF Successor, SessionRows
<1>6. \A id \in RequestId : Successor([old EXCEPT !.requestIdHashes = @ \cup {id}], old)
  BY DEF Successor, SessionRows
<1>7. CASE \E mark \in BOOLEAN : SessionLive(m) /\ TouchMcpSession(m, mark)
  BY <1>2, <1>3, <1>4, <1>7, WriteSessionOK DEF TouchMcpSession
<1>8. CASE \E id \in RequestId : ReserveMcpRequestId(m, id)
  BY <1>2, <1>6, <1>8, WriteSessionOK DEF ReserveMcpRequestId
<1>9. CASE TerminateMcpSession(m)
  BY <1>2, <1>5, <1>9, WriteSessionOK DEF TerminateMcpSession
<1> QED
  BY <1>7, <1>8, <1>9

-----------------------------------------------------------------------------

(* Every operation of the store keeps the file readable, and is a step of   *)
(* the abstract refresh family or none.                                     *)
LEMMA StoreStep ==
    ASSUME StoreInductive, [StoreNext]_storeVars
    PROVE  StoreInductive' /\ [Abstract!FamilyNext]_(Abstract!familyVars)
<1> USE DEF Abstract!familyVars
<1>1. /\ Inductive /\ TypeOK /\ clock \in Nat /\ clock >= 1
      /\ TokensOK /\ CodesOK /\ StatesOK /\ SessionsOK /\ OneRefused /\ LoginsOK
  BY DEF StoreInductive, FileOK, Inductive, TypeOK
<1>2. ASSUME UNCHANGED <<clock, record, times>>, reply' \in {"granted", "invalid_grant", "server_error"}
      PROVE  /\ Inductive' /\ clock' \in Nat /\ clock' >= clock /\ TokensOK'
             /\ UNCHANGED <<lineageOfRecords, closedFamilies>>
  BY <1>1, <1>2, QuietStep, TokensKept
<1>3. ASSUME NEW k \in Code, NEW login \in logins, NEW claims \in Claims, NEW createdAt \in 1..clock,
             CreateAuthorizationCode(k, login, claims, createdAt)
      PROVE  StoreInductive' /\ UNCHANGED <<lineageOfRecords, closedFamilies>>
  <2>1. /\ UNCHANGED <<clock, record, times, upstreamAuthorizationStates, mcpSessions>>
        /\ reply' \in {"granted", "invalid_grant", "server_error"} /\ logins' \subseteq logins
    BY <1>3 DEF CreateAuthorizationCode, Answered
  <2>2. CodesOK'
    BY <1>1, <1>3, CreateCodeOK
  <2> QED
    BY <1>1, <1>2, <2>1, <2>2, StatesKept, SessionsKept, RefusedKept DEF StoreInductive, FileOK
<1>4. ASSUME NEW k \in Code, ConsumeAuthorizationCode(k)
      PROVE  StoreInductive' /\ UNCHANGED <<lineageOfRecords, closedFamilies>>
  <2>1. /\ UNCHANGED <<clock, record, times, upstreamAuthorizationStates, mcpSessions>>
        /\ reply' \in {"granted", "invalid_grant", "server_error"} /\ UNCHANGED logins
    BY <1>4 DEF ConsumeAuthorizationCode, Answered
  <2>2. CodesOK'
    BY <1>1, <1>4, ConsumeCodeOK
  <2> QED
    BY <1>1, <1>2, <2>1, <2>2, StatesKept, SessionsKept, RefusedKept DEF StoreInductive, FileOK
<1>5. ASSUME NEW k \in Code, NEW t \in Token, NEW f \in Family, NEW c \in Client, NEW r \in Resource,
             NEW createdAt \in 1..clock, NEW ttl \in RefreshTtl,
             GrantRefreshToken(k, t, f, c, r, createdAt, ttl)
      PROVE  StoreInductive' /\ Abstract!FamilyNext
  <2>1. /\ CreateRefreshToken(t, f, c, r, createdAt, ttl)
        /\ UNCHANGED <<clock, authorizationCodes, upstreamAuthorizationStates, mcpSessions>>
        /\ consumed' \subseteq consumed /\ UNCHANGED logins
    BY <1>5 DEF GrantRefreshToken, CreateRefreshToken
  <2>2. Inductive' /\ Abstract!FamilyNext
    BY <1>1, <2>1, CreateRefines
  <2>3. TokensOK'
    BY <1>1, <1>5, GrantTokenOK
  <2> QED
    BY <1>1, <2>1, <2>2, <2>3, CodesKept, StatesKept, SessionsKept, RefusedKept DEF StoreInductive, FileOK
<1>6. ASSUME NEW t \in Token, NEW c \in Client, NEW accepted \in SUBSET Resource,
             Rotate(t, c, accepted)
      PROVE  StoreInductive' /\ [Abstract!FamilyNext]_(Abstract!familyVars)
  <2>1. /\ UNCHANGED <<clock, authorizationCodes, upstreamAuthorizationStates, mcpSessions, logins, consumed>>
        /\ \/ RotateRefused(t, c, accepted)
           \/ RotateReused(t, c, accepted)
           \/ \E new \in Token, ttl \in RefreshTtl : RotateGranted(t, c, accepted, new, ttl)
    BY <1>6 DEF Rotate, RotateRefused, RotateReused, RotateGranted, underWay
  <2>2. Inductive' /\ [Abstract!FamilyNext]_(Abstract!familyVars)
    BY <1>1, <2>1, RotateRefines
  <2>3. TokensOK'
    <3>1. CASE RotateRefused(t, c, accepted) /\ UNCHANGED times
      BY <1>1, <3>1, TokensKept DEF RotateRefused
    <3>2. CASE /\ RotateReused(t, c, accepted)
               /\ times' = [u \in DOMAIN times |->
                              IF record[u].family = record[t].family
                              THEN [times[u] EXCEPT !.revokedAt = clock] ELSE times[u]]
      BY <1>1, <3>2, ReusedOK
    <3>3. ASSUME NEW new \in Token, NEW ttl \in RefreshTtl, RotateGranted(t, c, accepted, new, ttl),
                 times' = PutItem([times EXCEPT ![t].lastUsedAt = clock], new,
                            [times[t] EXCEPT !.createdAt = clock, !.lastUsedAt = Unset])
          PROVE  TokensOK'
      BY <1>1, <3>3, GrantedOK
    <3> QED
      BY <1>6, <3>1, <3>2, <3>3 DEF Rotate
  <2> QED
    BY <1>1, <2>1, <2>2, <2>3, CodesKept, StatesKept, SessionsKept, RefusedKept DEF StoreInductive, FileOK
<1>7. ASSUME NEW s \in State,
             \/ \E clientState \in Texts, codeChallenge \in Challenges, createdAt \in 1..clock :
                   CreateUpstreamAuthorizationState(s, clientState, codeChallenge, createdAt)
             \/ ConsumeUpstreamAuthorizationState(s)
      PROVE  StoreInductive' /\ UNCHANGED <<lineageOfRecords, closedFamilies>>
  <2>1. /\ UNCHANGED <<clock, record, times, authorizationCodes, mcpSessions, consumed>>
        /\ reply' \in {"granted", "invalid_grant", "server_error"}
    BY <1>7 DEF CreateUpstreamAuthorizationState, ConsumeUpstreamAuthorizationState, Answered, underWay
  <2>2. StatesOK' /\ OneRefused' /\ LoginsOK'
    BY <1>1, <1>7, CreateStateOK, ConsumeStateOK
  <2> QED
    BY <1>1, <1>2, <2>1, <2>2, CodesKept, SessionsKept DEF StoreInductive, FileOK
<1>8. ASSUME NEW m \in Session,
             \/ \E clientId \in Texts, createdAt \in 1..clock : SaveMcpSession(m, clientId, createdAt)
             \/ \E mark \in BOOLEAN : SessionLive(m) /\ TouchMcpSession(m, mark)
             \/ \E id \in RequestId : ReserveMcpRequestId(m, id)
             \/ TerminateMcpSession(m)
      PROVE  StoreInductive' /\ UNCHANGED <<lineageOfRecords, closedFamilies>>
  <2>1. /\ UNCHANGED <<clock, record, times, authorizationCodes, upstreamAuthorizationStates, logins, consumed>>
        /\ reply' \in {"granted", "invalid_grant", "server_error"}
    BY <1>8 DEF SaveMcpSession, TouchMcpSession, ReserveMcpRequestId, TerminateMcpSession,
                WriteSession, Answered, underWay
  <2>2. SessionsOK' /\ OneRefused'
    BY <1>1, <1>8, SaveSessionOK, SessionUpdateOK
  <2> QED
    BY <1>1, <1>2, <2>1, <2>2, CodesKept, StatesKept DEF StoreInductive, FileOK, LoginsOK
<1>9. ASSUME Refuse \/ StoreFails \/ StoreTick \/ UNCHANGED storeVars
      PROVE  StoreInductive' /\ UNCHANGED <<lineageOfRecords, closedFamilies>>
  <2>1. /\ UNCHANGED <<record, times, authorizationCodes, upstreamAuthorizationStates, mcpSessions, logins, consumed>>
        /\ clock' \in Nat /\ clock' >= clock
        /\ reply' \in {"none", "granted", "invalid_grant", "server_error"}
    BY <1>1, <1>9 DEF Refuse, StoreFails, UpdateFails, StoreTick, Tick, storeVars, vars, TypeOK, underWay
  <2>2. Inductive' /\ UNCHANGED <<lineageOfRecords, closedFamilies>>
    BY <1>1, <2>1, QuietStep
  <2> QED
    BY <1>1, <2>1, <2>2, TokensKept, CodesKept, StatesKept, SessionsKept, RefusedKept DEF StoreInductive, FileOK
<1> QED
  BY <1>3, <1>4, <1>5, <1>6, <1>7, <1>8, <1>9 DEF StoreNext

LEMMA StoreStart == StoreInit => StoreInductive /\ Abstract!FamilyInit
<1>1. StoreInit => /\ Inductive /\ clock >= 1 /\ Abstract!FamilyInit
                   /\ DOMAIN record = {} /\ DOMAIN times = {} /\ DOMAIN authorizationCodes = {}
                   /\ DOMAIN upstreamAuthorizationStates = {} /\ DOMAIN mcpSessions = {}
                   /\ logins = {} /\ consumed = {}
  BY DEF StoreInit, Init, Inductive, TypeOK, FamilyRevokedTogether, EmptyTable,
         Abstract!FamilyInit, Abstract!EmptyTable, lineageOfRecords, closedFamilies
<1> QED
  BY <1>1 DEF StoreInductive, FileOK, TokensOK, CodesOK, StatesOK, SessionsOK, OneRefused, LoginsOK,
     RefusedStates, RefusedSessions

(* No order of calls, however long their updates waited for the lock,       *)
(* leaves a code, a token or a time that normalizeStore refuses to read,    *)
(* for any number of rows and any lifetimes.  A refused row is a single     *)
(* login state or session, refused for a text that its request was free to  *)
(* have.                                                                    *)
THEOREM OnlyTextsAreRefused == StoreSpec => []RefusedForItsText
<1>1. ASSUME StoreInductive
      PROVE  RefusedForItsText
  <2>1. \A k \in DOMAIN authorizationCodes : AuthorizationCodeFromDisk(authorizationCodes[k])
    BY <1>1 DEF StoreInductive, FileOK, CodesOK, CodeRowOK
  <2>2. \A t \in DOMAIN times : RefreshTokenFromDisk(times[t], record[t].expiresAt)
    BY <1>1 DEF StoreInductive, FileOK, TokensOK, TokenRowOK
  <2>3. ASSUME NEW s \in RefusedStates
        PROVE  /\ \/ upstreamAuthorizationStates[s].clientState = "blank"
                  \/ upstreamAuthorizationStates[s].codeChallenge = "unreserved"
               /\ RefusedStates = {s} /\ RefusedSessions = {}
    <3>1. PICK row \in StateRows : /\ row = upstreamAuthorizationStates[s]
                                   /\ OrderedSeconds(row.expiresAt, row.createdAt)
                                   /\ ~UpstreamAuthorizationStateFromDisk(row)
      BY <1>1, <2>3 DEF RefusedStates, StoreInductive, FileOK, StatesOK, StateRowOK
    <3>2. row.clientState = "blank" \/ row.codeChallenge = "unreserved"
      BY <3>1 DEF UpstreamAuthorizationStateFromDisk, Text, OptionalHash, StateRows, Texts, Challenges
    <3> QED
      BY <1>1, <2>3, <3>1, <3>2 DEF StoreInductive, FileOK, OneRefused
  <2>4. ASSUME NEW m \in RefusedSessions
        PROVE  /\ McpSessionFromDisk([mcpSessions[m] EXCEPT !.clientId = "text"])
               /\ RefusedSessions = {m} /\ RefusedStates = {}
    BY <1>1, <2>4 DEF RefusedSessions, StoreInductive, FileOK, SessionsOK, SessionRowOK, OneRefused
  <2> QED
    BY <2>1, <2>2, <2>3, <2>4 DEF RefusedForItsText
<1> QED
  BY <1>1, StoreStart, StoreStep, PTL DEF StoreSpec

(* The same for the families of the whole file: revocation is of a family   *)
(* as a whole, whatever else the file is used for.                          *)
THEOREM FileRevokesTogether == StoreSpec => []FamilyRevokedTogether
<1>1. StoreInductive => FamilyRevokedTogether
  BY DEF StoreInductive, Inductive
<1> QED
  BY <1>1, StoreStart, StoreStep, PTL DEF StoreSpec

(* The file with everything in it implements the abstract refresh family.   *)
THEOREM FileImplementsRefreshFamily == StoreSpec => ImplementsFamily
  BY StoreStart, StoreStep, PTL DEF StoreSpec, ImplementsFamily, Abstract!FamilySpec
=============================================================================
