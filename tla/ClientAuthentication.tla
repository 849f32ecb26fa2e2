------------------------ MODULE ClientAuthentication ------------------------
(***************************************************************************)
(* Authentication at /oauth/token of clients that publish a Client ID      *)
(* Metadata Document (auth/token.ts, auth/client-resolver.ts): the fetch   *)
(* of the document and of the client's JWKS through a cache in the memory  *)
(* of each process (auth/expiring-cache.ts) and one in the table           *)
(* (auth/storage/dynamodb/metadata-cache-store.ts), and the check of the   *)
(* client's assertion (auth/client-assertion.ts).                          *)
(*                                                                         *)
(* The metadata document and the JWKS of a client are looked up alike,     *)
(* each in a Map and a namespace of its own.  What a document says is      *)
(* abstracted to what this endpoint reads in it: the authentication method,*)
(* or the keys.  A client with a static entry, and any request that is     *)
(* refused for what it presents, leaves no state here.                     *)
(***************************************************************************)
EXTENDS DynamoTable

CONSTANTS
    Client, Key, Assertion,
    Process, Worker,
    None,
    Publishable,        \* what each document may say; None if it does not parse
    Lifetimes,          \* the seconds its server may allow each document to be cached
    Claims,             \* the claims of each assertion and the key that signed it
    MaxCacheSeconds,    \* 3600
    MaxEntries,         \* 64, in each Map
    Skew,               \* 60
    MaxLifetime,        \* 300
    MaxDelay,           \* bound on the time from an origin's answer to its use
    MaxClock

Document == {"metadata", "jwks"} \X Client

(* What parseMetadataClient and parseJwks accept. *)
Metadata == [method : {"none", "private_key_jwt"}]

Jwks == [keys : (SUBSET Key) \ {{}}]

Body(d) == IF d[1] = "metadata" THEN Metadata ELSE Jwks

ASSUME ClientAuthenticationAssumption ==
    /\ Publishable \in [Document -> SUBSET UNION {Body(d) \cup {None} : d \in Document}]
    /\ \A d \in Document : Publishable[d] # {} /\ Publishable[d] \subseteq Body(d) \cup {None}
    /\ Lifetimes \in [Document -> SUBSET (0..MaxCacheSeconds)]
    /\ Claims \in [Assertion -> [client : Client, jti : Assertion, key : Key, iat : Nat, nbf : Nat, exp : Nat]]
    /\ None \notin Assertion
    /\ {MaxCacheSeconds, MaxEntries} \subseteq Nat \ {0}
    /\ {Skew, MaxLifetime, MaxDelay, MaxClock} \subseteq Nat

VARIABLES
    backend,    \* the store the deployment was configured with
    clock,      \* nowSeconds()
    origin,     \* what each document says now, on the client's server
    left,       \* history: when a document last ceased to say something
    memory,     \* metadataCache and jwksCache of each process
    table,      \* the metadata cache in the table
    replay,     \* replayCache of each process
    call,       \* token requests under way, by worker
    accepted,   \* history: assertions accepted since a process started
    lapse       \* history: longest time a document was relied on after it had changed

vars == <<backend, clock, origin, left, memory, table, replay, call, accepted, lapse>>

(* ExpiringCacheEntry and MetadataCacheEntry. *)
Entry(d) == [body : Body(d), expiresAt : Nat]

(* assertion: what the request presents; None if it presents no secret.     *)
(* until: when the answer to a fetch is given up.                           *)
Call == [process : Process, document : Document, assertion : Assertion \cup {None},
         pc : {"lookup", "read", "cached", "fetch", "fetched", "write"},
         body : (UNION {Body(d) : d \in Document}) \cup {None}, expiresAt : Nat, until : Nat]

Init ==
    /\ backend \in {"disk", "dynamodb"}
    /\ clock = 0
    /\ origin \in [Document -> UNION {Publishable[d] : d \in Document}]
    /\ \A d \in Document : origin[d] \in Publishable[d]
    /\ left = [d \in Document |-> [b \in Publishable[d] |-> 0]]
    /\ memory = [p \in Process |-> EmptyTable]
    /\ table = EmptyTable
    /\ replay = [p \in Process |-> EmptyTable]
    /\ call = EmptyTable
    /\ accepted = [p \in Process |-> [a \in Assertion |-> 0]]
    /\ lapse = 0

-----------------------------------------------------------------------------
(* Helpers *)

Answer(w) == call' = DeleteItem(call, w)

Continue(w, next) == call' = PutItem(call, w, next)

(* pruneExpiredCacheEntries, in the Map that d belongs to: the sets of       *)
(* entries that may remain.  The Map counts in milliseconds, so an entry    *)
(* may outlast its last second by a part of the next one.                   *)
Pruned(cache, d) ==
    LET live == {k \in DOMAIN cache : k[1] = d[1] => cache[k].expiresAt > clock}
        edge == {k \in DOMAIN cache \ live : cache[k].expiresAt = clock} IN
    {live \cup some : some \in SUBSET edge}

(* What remains when d is to be written: if it is new and its Map is full,  *)
(* another entry goes.  The code takes the oldest; here it is any.          *)
MakeRoom(kept, d) ==
    LET same == {k \in kept : k[1] = d[1]} IN
    IF d \in same \/ Cardinality(same) < MaxEntries THEN {kept} ELSE {kept \ {k} : k \in same}

(* writeExpiringCache *)
WriteMemory(p, d, body, seconds) ==
    \E kept \in Pruned(memory[p], d) :
        IF seconds = 0
          THEN memory' = [memory EXCEPT ![p] = [k \in kept \ {d} |-> @[k]]]
          ELSE \E rest \in MakeRoom(kept, d) :
                 memory' = [memory EXCEPT ![p] =
                     PutItem([k \in rest |-> @[k]], d, [body |-> body, expiresAt |-> clock + seconds])]

(* How long ago d ceased to say body. *)
Lapse(d, body) == IF origin[d] = body THEN 0 ELSE clock - left[d][body]

RelyOn(d, body) == lapse' = IF Lapse(d, body) > lapse THEN Lapse(d, body) ELSE lapse

-----------------------------------------------------------------------------
(* validateAssertionClaims, signed by one of the keys *)

ClaimsValid(client, keys, claims) ==
    /\ claims.key \in keys
    /\ claims.client = client
    /\ clock < claims.exp + Skew
    /\ claims.exp <= clock + MaxLifetime + Skew
    /\ claims.nbf <= clock + Skew
    /\ claims.iat <= clock + Skew
    /\ clock <= claims.iat + MaxLifetime + Skew

(* Mutant: an assertion is forgotten when it expires, not when it is no     *)
(* longer accepted.                                                         *)
MutRememberUntil(claims) == claims.exp

RememberUntil(claims) == claims.exp + Skew

(* rejectReplay *)
Remembered(p) == {k \in DOMAIN replay[p] : replay[p][k] > clock}

Replayed(p, claims) == <<claims.client, claims.jti>> \in Remembered(p)

Remember(p, claims) ==
    replay' = [replay EXCEPT ![p] =
        PutItem([k \in Remembered(p) |-> @[k]], <<claims.client, claims.jti>>, RememberUntil(claims))]

-----------------------------------------------------------------------------
(* A lookup has ended with body. *)

(* The client is known: by "none" it is authenticated, by private_key_jwt   *)
(* its keys are looked up next.                                             *)
ClientResolved(w, body) ==
    /\ RelyOn(call[w].document, body)
    /\ IF body.method = "private_key_jwt" /\ call[w].assertion # None
         THEN Continue(w, [call[w] EXCEPT !.document = <<"jwks", call[w].document[2]>>, !.pc = "lookup",
                                          !.body = None, !.expiresAt = 0, !.until = 0])
         ELSE Answer(w)
    /\ UNCHANGED <<replay, accepted>>

(* The keys are known. *)
AssertionChecked(w, body) ==
    LET p == call[w].process
        a == call[w].assertion
        client == call[w].document[2] IN
    /\ Answer(w)
    /\ RelyOn(call[w].document, body)
    /\ \/ /\ ~ClaimsValid(client, body.keys, Claims[a])
          /\ UNCHANGED <<replay, accepted>>
       \/ /\ ClaimsValid(client, body.keys, Claims[a])
          /\ Replayed(p, Claims[a])
          /\ replay' = [replay EXCEPT ![p] = [k \in Remembered(p) |-> @[k]]]
          /\ UNCHANGED accepted
       \/ /\ ClaimsValid(client, body.keys, Claims[a])
          /\ ~Replayed(p, Claims[a])
          /\ Remember(p, Claims[a])
          /\ accepted' = [accepted EXCEPT ![p][a] = @ + 1]

Resolved(w, body) ==
    IF call[w].document[1] = "metadata" THEN ClientResolved(w, body) ELSE AssertionChecked(w, body)

-----------------------------------------------------------------------------
(* handleTokenGrant, for a client identified by a URL; with no assertion,   *)
(* also the lookup of /oauth/authorize.                                     *)
Receive(w, p, client, assertion) ==
    /\ w \notin DOMAIN call
    /\ Continue(w, [process |-> p, document |-> <<"metadata", client>>, assertion |-> assertion,
                    pc |-> "lookup", body |-> None, expiresAt |-> 0, until |-> 0])
    /\ UNCHANGED <<backend, clock, origin, left, memory, table, replay, accepted, lapse>>

(* resolveClientIdMetadataDocument and clientJwks: the memory is asked      *)
(* first...                                                                 *)
Lookup(w) ==
    /\ w \in DOMAIN call
    /\ call[w].pc = "lookup"
    /\ LET p == call[w].process
           d == call[w].document IN
       \E kept \in Pruned(memory[p], d) :
         /\ memory' = [memory EXCEPT ![p] = [k \in kept |-> @[k]]]
         /\ IF d \in kept
              THEN Resolved(w, memory[p][d].body)
              ELSE /\ Continue(w, [call[w] EXCEPT !.pc = IF backend = "dynamodb" THEN "read" ELSE "fetch"])
                   /\ UNCHANGED <<replay, accepted, lapse>>
    /\ UNCHANGED <<backend, clock, origin, left, table>>

(* ...then the table...                                                     *)
ReadTable(w) ==
    /\ w \in DOMAIN call
    /\ call[w].pc = "read"
    /\ Continue(w, IF HasItem(table, call[w].document)
                     THEN [call[w] EXCEPT !.pc = "cached", !.body = table[call[w].document].body,
                                          !.expiresAt = table[call[w].document].expiresAt]
                     ELSE [call[w] EXCEPT !.pc = "fetch"])
    /\ UNCHANGED <<backend, clock, origin, left, memory, table, replay, accepted, lapse>>

(* Mutant: an entry of the table is kept for a full lifetime. *)
MutCacheSecondsRemaining(expiresAt) == MaxCacheSeconds

CacheSecondsRemaining(expiresAt) == expiresAt - clock

(* ...whose answer is good if it has not expired when it arrives...         *)
CachedEntry(w) ==
    /\ w \in DOMAIN call
    /\ call[w].pc = "cached"
    /\ IF call[w].expiresAt > clock
         THEN /\ WriteMemory(call[w].process, call[w].document, call[w].body,
                             CacheSecondsRemaining(call[w].expiresAt))
              /\ Resolved(w, call[w].body)
         ELSE /\ Continue(w, [call[w] EXCEPT !.pc = "fetch", !.body = None, !.expiresAt = 0])
              /\ UNCHANGED <<memory, replay, accepted, lapse>>
    /\ UNCHANGED <<backend, clock, origin, left, table>>

(* ...and last the client's own server, which answers with what the         *)
(* document says now.                                                       *)
Fetch(w) ==
    /\ w \in DOMAIN call
    /\ call[w].pc = "fetch"
    /\ origin[call[w].document] # None
    /\ Continue(w, [call[w] EXCEPT !.pc = "fetched", !.body = origin[call[w].document],
                                   !.until = clock + MaxDelay])
    /\ UNCHANGED <<backend, clock, origin, left, memory, table, replay, accepted, lapse>>

(* The answer arrives, with a lifetime (cacheSeconds). *)
Fetched(w) ==
    /\ w \in DOMAIN call
    /\ call[w].pc = "fetched"
    /\ clock <= call[w].until
    /\ \E seconds \in Lifetimes[call[w].document] :
         /\ WriteMemory(call[w].process, call[w].document, call[w].body, seconds)
         /\ IF backend = "dynamodb"
              THEN /\ Continue(w, [call[w] EXCEPT !.pc = "write",
                                      !.expiresAt = IF seconds = 0 THEN 0 ELSE clock + seconds])
                   /\ UNCHANGED <<replay, accepted, lapse>>
              ELSE Resolved(w, call[w].body)
    /\ UNCHANGED <<backend, clock, origin, left, table>>

(* DynamoDbMetadataCacheStore.write takes effect: at once, or long after    *)
(* the request was given up.                                                *)
WriteTable(w) ==
    /\ w \in DOMAIN call
    /\ call[w].pc = "write"
    /\ table' = IF call[w].expiresAt = 0
                  THEN DeleteItem(table, call[w].document)
                  ELSE PutItem(table, call[w].document,
                               [body |-> call[w].body, expiresAt |-> call[w].expiresAt])
    /\ IF clock <= call[w].until
         THEN Resolved(w, call[w].body)
         ELSE Answer(w) /\ UNCHANGED <<replay, accepted, lapse>>
    /\ UNCHANGED <<backend, clock, origin, left, memory>>

-----------------------------------------------------------------------------
(* A request is refused or fails: no answer, a document that does not       *)
(* parse, an address that is not public.                                    *)
CallEnds(w) ==
    /\ w \in DOMAIN call
    /\ Answer(w)
    /\ UNCHANGED <<backend, clock, origin, left, memory, table, replay, accepted, lapse>>

(* A process is started anew. *)
Restart(p) ==
    /\ memory' = [memory EXCEPT ![p] = EmptyTable]
    /\ replay' = [replay EXCEPT ![p] = EmptyTable]
    /\ accepted' = [accepted EXCEPT ![p] = [a \in Assertion |-> 0]]
    /\ call' = [w \in {v \in DOMAIN call : call[v].process # p} |-> call[w]]
    /\ UNCHANGED <<backend, clock, origin, left, table, lapse>>

(* The client changes one of its documents. *)
Publish(d, body) ==
    /\ body \in Publishable[d] \ {origin[d]}
    /\ origin' = [origin EXCEPT ![d] = body]
    /\ left' = [left EXCEPT ![d][origin[d]] = clock]
    /\ UNCHANGED <<backend, clock, memory, table, replay, call, accepted, lapse>>

(* The table's TTL process. *)
Sweep(d) ==
    /\ HasItem(table, d)
    /\ table[d].expiresAt <= clock
    /\ table' = DeleteItem(table, d)
    /\ UNCHANGED <<backend, clock, origin, left, memory, replay, call, accepted, lapse>>

Tick ==
    /\ clock < MaxClock
    /\ clock' = clock + 1
    /\ UNCHANGED <<backend, origin, left, memory, table, replay, call, accepted, lapse>>

Next ==
    \/ \E w \in Worker :
          \/ \E p \in Process, client \in Client, assertion \in Assertion \cup {None} :
                Receive(w, p, client, assertion)
          \/ Lookup(w)
          \/ ReadTable(w)
          \/ CachedEntry(w)
          \/ Fetch(w)
          \/ Fetched(w)
          \/ WriteTable(w)
          \/ CallEnds(w)
    \/ \E p \in Process : Restart(p)
    \/ \E d \in Document : \E body \in Publishable[d] : Publish(d, body)
    \/ \E d \in Document : Sweep(d)
    \/ Tick

Spec == Init /\ [][Next]_vars

-----------------------------------------------------------------------------
(* Properties *)

TypeOK ==
    /\ backend \in {"disk", "dynamodb"}
    /\ clock \in Nat
    /\ lapse \in Nat
    /\ \A d \in Document : origin[d] \in Publishable[d] /\ left[d] \in [Publishable[d] -> Nat]
    /\ \A p \in Process :
          /\ \A d \in DOMAIN memory[p] : d \in Document /\ memory[p][d] \in Entry(d)
          /\ \A k \in DOMAIN replay[p] : replay[p][k] \in Nat
          /\ accepted[p] \in [Assertion -> Nat]
    /\ DOMAIN table \subseteq Document
    /\ \A d \in DOMAIN table : table[d] \in Entry(d)
    /\ DOMAIN call \subseteq Worker
    /\ \A w \in DOMAIN call :
          /\ call[w] \in Call
          /\ call[w].pc \in {"cached", "fetched", "write"} => call[w].body \in Body(call[w].document)

(* A document that its client has changed, a withdrawn key above all, is    *)
(* relied on for no longer than the longest cache lifetime and the time its *)
(* transfer took: no copy in the table or in another process's memory adds  *)
(* a lifetime of its own, however copies are made of copies and writes      *)
(* arrive late.  docs/maintenance/client-metadata.md:26.                    *)
Revocable == lapse <= MaxCacheSeconds + MaxDelay

(* A process accepts an assertion once: what it has forgotten, it no longer *)
(* accepts.                                                                 *)
AssertionOncePerProcess == \A p \in Process, a \in Assertion : accepted[p][a] <= 1

(* The service accepts an assertion once (docs/architecture/                *)
(* oauth-provider.md:110: "and `jti` replay status").                       *)
AssertionOnce ==
    \A a \in Assertion : Cardinality({p \in Process : accepted[p][a] > 0}) <= 1
=============================================================================
