# TLA+ verification of encore-mcp-base

encore-mcp-base is an Encore/TypeScript service that is at once an OAuth/OIDC
provider for GPT clients, an MCP server and a small Actions API. What makes it
hard is its durable state: several instances of the service share one DynamoDB
table, or several processes one JSON file, and every rule of OAuth that says
"once" or "only" has to hold although each request is a sequence of awaited
calls. This directory models that state and the handlers around it, checks the
models with TLC, and proves with TLAPS every safety property they state.

## 1. Inventory

Paths are relative to the repository root.

| Component | State | Operations | Talks to |
|---|---|---|---|
| Refresh tokens, DynamoDB (`auth/storage/dynamodb/refresh-tokens.ts`) | token, family and rotation-marker items | create, rotate (3 reads, 1 transaction), revoke a family | the table; called by `/oauth/token` |
| Refresh tokens, disk (`auth/storage/disk-store.ts`) | `refreshTokens` of the JSON file | create, rotate, each one update of the file | store file |
| Store file and lock (`auth/storage/store-file.ts`, `store-lock.ts`) | the file, `<path>.lock`, a queue per process | update, lock, stale-lock recovery, atomic replace | the file system |
| Authorization code grant (`auth/authorize.ts`, `endpoints.upstream-callback.ts`, `upstream-*.ts`, `tokens/authorization-code.ts`, `dynamodb/authorization-codes.ts`, `dynamodb/upstream-states.ts`, `disk-store.ts`) | upstream states, authorization codes | authorize, callback, exchange of a code | upstream provider, browser, client, both stores |
| Rate limiter (`auth/rate-limit.ts`, `auth/storage/*rate-limit*`) | one record per bucket and subject | hit | both stores; every endpoint |
| MCP sessions (`mcp/endpoints.mcp.ts`, `mcp/protocol.ts`, `mcp/session-store.ts`, `dynamodb/mcp-sessions.ts`) | session records with reserved request ids | initialize, POST, GET, DELETE | both stores |
| SSE streams and legacy sessions (`mcp/*sse*`, `streamable-get-stream.ts`) | connection count and session map of one process | open, heartbeat, send, close | the client's socket |
| Client metadata cache, client assertions (`auth/client-*.ts`, `expiring-cache.ts`) | two cache levels, replay map | resolve a client, check an assertion | the client's web server, the table |
| Rows of the store file (`auth/storage/*-row.ts`, `store-codec.ts`, `user-profile.ts`) | the rows of the file | every operation of `disk-store.ts`, the check of every row on load | store file |
| MCP requests (`mcp/json-rpc.ts`, `protocol.ts`, `request-*.ts`, `notifications.ts`, `transport-*.ts`, `pagination.ts`) | none of their own; they decide what becomes of the session | parse, gate, dispatch, answer; page through a list | MCP sessions |
| Access tokens and keys (`auth/tokens/*`, `auth/bearer.ts`, tools, resources, Actions) | the key set of a process, issued tokens | issue, verify, challenge, publish keys | environment, key file |
| Deployment (`ci/cdk`) | parameters, key file, environment file, container | deploy, seed, run.sh, rotate a key | Parameter Store, the service |
| Configuration (`shared/config.ts`, `auth/client-registry.ts`, `auth/startup.ts`) | none | read and check the environment and the registry | deployment, upstream provider |
| Stateless parts (`shared/` helpers, OpenAPI document, widget contents, `tools/`) | none | functions of a request or of the build | |

What is hard, and what correctness means, by component:

* **Refresh tokens.** Two requests may present one token at once; answers get
  lost; the TTL process removes items; a replay has to cost the whole family. A
  family must never fork, must not survive a replay, and must not be revoked
  by anything but a replay.
* **Store file.** Processes race for the lock, die while they hold it or fail to
  remove it, and leave it to be recovered; file-system calls fail half way. An acknowledged update
  must stay, even over a power loss; a refused one must leave nothing; nobody
  may hang.
* **Authorization code grant.** The browser carries values between three
  parties, in any order and combination, and every step has its own store
  request. A code and a login are good for one use, and what is granted belongs
  to one login in every respect.
* **Rate limiter.** Counters are read, changed and written back by concurrent
  requests, over window boundaries and expiry. No counted request is forgotten.
* **MCP sessions.** The handler acts on what a touch reported before later
  awaits; request ids are kept in a set that is read, extended and written back.
  An id is served once, and nothing happens in an ended session.
* **SSE streams.** A stream's handler, its timer and any number of posted
  messages each may find out first that the client has gone; writers wait for a
  `drain` that may not come. Slots, sessions and timers must match the streams
  that are open, and be given back.
* **Client authentication.** A document passes through two caches, copies are
  made of copies, and answers are late; assertions may be presented twice, up to
  the last second of their validity, to any process. A withdrawn key must fall
  out of use, and an assertion must be good for once.

* **Store rows.** A row is checked when it is read, together with every other
  row: one that is written and not accepted makes the file unusable for all. The
  checks of a request and those of the row it leads to are written separately.
* **MCP requests.** The endpoint decides by the raw method, the protocol by the
  parsed message, and the session changes by the answer. The three must agree
  for every message, and a reserved id must not be answered for somebody else.
* **Tokens, keys and deployment.** The seed command is a sequence of reads and
  writes that may stop anywhere and is run again; the runner rewrites the key
  file under a running service; an operator rotates keys meanwhile, parameter by
  parameter and to a key ID of their own choice. A token must
  be honoured to its end, at the operations it is for; a key ID must name one
  key; the secrets an operator reads must be those the service accepts.
* **Configuration.** A value passes through the checks of the CDK application,
  the seed command, a shell script and the service, all different. What the first
  accepts the last must be able to use.

`PROJECT.json` lists each hazard at its line with the properties that watch it.

## 2. Modules

| Module | Models | State, in terms of the code |
|---|---|---|
| `DynamoTable` | the table as the code uses it (external) | a partial function of items; conditions and writes are one step |
| `RefreshFamily` | the abstract promise of both refresh stores | lineage of tokens, closed families |
| `DynamoRefreshTokens` | `refresh-tokens.ts` | the three kinds of items, and the calls in progress with what they have read |
| `DiskRefreshTokens` | refresh tokens of `disk-store.ts` | the records of the file |
| `StoreFile` | `store-file.ts`, `store-lock.ts` | lock file, file content as a set of updates, what a power loss would leave, and per process its queue and program counter |
| `AtomicStore` | the abstract promise of `StoreFile.update` | the updates that were made, those that are safe, what callers were told |
| `DiskStore` | all of `disk-store.ts` with the `*-row.ts` checks; extends `DiskRefreshTokens` | the rows of codes, upstream states and sessions, beside the refresh tokens |
| `RateLimit` | the algorithm and both stores | one record, calls in progress, history of counted requests |
| `McpSession` | `/mcp` over both stores | session records, requests in progress, history of what clients were told |
| `McpRequests` | one POST of `/mcp` from its headers to its answer, and the paging of lists | the exchange under consideration; a client's walk through a list that may change |
| `AuthorizationFlow` | authorize, callback, code exchange over both stores | upstream states, codes, codes of the upstream provider, requests in progress, history of grants |
| `ClientAuthentication` | token requests of clients with a metadata document: `token.ts`, `client-id-metadata-document.ts`, `client-assertion.ts`, both caches | the documents at their origin, the memory of each process, the table, replay maps, requests in progress, history of accepted assertions and of how long a changed document was relied on |
| `SseStreams` | `legacy-sse-session.ts`, `streamable-get-stream.ts`, `sse-event.ts`, `sse-connection-limit.ts`, `/sse` and `/messages` | per stream its handler, buffer and timer; the sessions, the connection count, posts in progress |
| `AccessTokens` | verification of a bearer token at each tool, resource, action and at userinfo; pure operators | none |
| `Deployment` | `put-runtime-parameters.ts`, run.sh of `user-data.ts`, `signing-keys.ts`, the rotation procedure | parameters, the seed command and run.sh in progress, key file, container, issued tokens |
| `Configuration` | `ci/cdk/src/config.ts`, the parameters of `mcp-service-stack.ts`, the registry the seed command writes, `shared/config.ts`, `client-registry.ts`, `startup.ts` | inputs, parameters, registry, and what became of the start of the service |
| `*_proofs` | theorems about the module of that name; `Limits_proofs` is about `SseStreams` and `RateLimit`, `McpSession_proofs` also about `McpRequests`, `DiskStore_proofs` also about `DiskRefreshTokens` | |
| `MC*` | instances for TLC | symmetry sets and constant values only |

An action is one atomic piece of a handler: the code between two awaits, or one
request to a store with what follows it. A `now` that the code takes before a
request and uses after it is kept in the call. `CallEnds` and `CallFails` stand
for every way a request stops between two steps: a refusal, an error, a lost
answer, the death of the process. Variables marked *history* are not in the
program; they record what callers were told, so that properties compare the
store with that. Operators named `Mut...` are deliberate bugs, used nowhere: each
one shows that a property notices it.

Not in any model: the cryptography (a random value is never guessed or
repeated; a digest is identified with what it is the digest of), the parsing of
OAuth requests, the wording of errors. `McpSession` takes bearer tokens to be
valid; `McpRequests` and `AccessTokens` say what happens to the others.

### Composition

`DynamoRefreshTokens` and `DiskRefreshTokens` both implement `RefreshFamily`
(`ImplementsFamily`, with `closed` mapped to the families whose records are
revoked or gone). The disk models of the other components take an update of the
file to be one step. `AtomicStore` says what that means: an update is made in one
step between its call and its answer, on what the step before has left, and not
after its caller was told that it failed. `StoreFile` implements it
(`ImplementsAtomicStore`, with the content of the file as the updates made, and
what a power loss would leave as those that are safe). `AuthorizationFlow` ends where a
refresh family begins, in `CreateRefreshToken`, and takes the client that
`resolveClient` returns to be any of its registrations, whichever the caches
hold; `ClientAuthentication` says how old that may be. `SseStreams` begins where
the GET of `McpSession` ends. `DiskStore` extends `DiskRefreshTokens` by the other
operations on the same file, and still implements `RefreshFamily`. `McpRequests`
details what `McpSession` takes as one dispatch; both are checked in one run, in
which a step belongs to one of them. `Deployment` uses `AccessTokens` for what a
process does with a token under the keys it has; `Configuration` is checked beside
it, with every command as one step. Rate limiting precedes each OAuth handler and has no state in common with
it.

## 3. Runs

| Run | Instance | Shows |
|---|---|---|
| `dynamo_refresh` | 3 tokens, 1 family, 2 clients, 2 concurrent calls, one lifetime, clock to 5 | `SingleSuccessor`, `RefusalClosesFamily`, `OnlyReplayRevokes`, `ImplementsFamily` |
| `dynamo_refresh_ttl` | 4 tokens, lifetimes 2 and 4 | violation of `SingleSuccessor` (finding 1) |
| `store_file` | 2 processes, 3 updates, 1 crash, 2 polls | `MutualExclusion`, `UpdatesKept`, `PowerLossSafe`, `RefusedLeavesNoTrace`, `EveryUpdateAnswered`, `ImplementsAtomicStore` |
| `store_file_stale` | 2 processes, 3 updates, 1 crash, 2 polls | violation of `NoLostUpdate` (finding 2) |
| `disk_store` | 3 tokens, 1 family, 1 code, 2 upstream states, 1 session, claims of lengths up to 3 with limit 3, good texts and those that only the row check refuses, lifetimes 1 to 3 | `RefusedForItsText`, `FamilyRevokedTogether`, `ImplementsFamily` |
| `rate_limit` | window 3, limit 3, 2 concurrent calls, clock to 13 | `WeightedCap`, `CountersMatchHistory`, `StraddleCap` |
| `mcp_session` | 1 session, 3 request ids of which 2 fit, 2 concurrent requests, lifetime 2, clock to 3; every combination of method, id, parameters, headers and outcome of one POST; lists of up to 5 entries in pages of up to 3 | `ServedOnce`, `ReservationsKept`, `ReadyIsServed`, `GatedWorkIsInitialized`, `NothingAfterEnd`, `EffectsFollowAnswer`, `PagesCoverList` |
| `authorization_flow` | 2 logins, 2 clients, 2 users, 2 codes, 2 upstream codes, 2 concurrent requests, lifetime 1, clock to 2 | `CodeOnce`, `LoginOnce`, `GrantIsBound`, `RequiredProof`, `SpentCodesAccountedFor` |
| `client_authentication` | 1 process, 2 concurrent requests, 1 client that may withdraw its key, cache lifetimes 0 and 2, clock to 4 | `Revocable`, `AssertionOncePerProcess` |
| `sse_streams` | 2 streams of any kind, 1 slot, 2 posters, a buffer that 2 frames fill | `SlotsMatchStreams`, `NothingLeftBehind`, `NoLostWakeup`, `StreamsLetGo` |
| `deployment` | 3 keys, 2 secrets, 2 sets of seed options, 1 token with lifetime 1, clock to 2, both ways of loading the key and both identity providers; 2 rotations with the environment set directly, 1 under run.sh, none with Cognito; 2 deployments of which the first, or the seed, may have one wrong value | `TokensHonoured`, `KidNamesOneKey`, `SeedKeepsSecrets`, `SecretsMatchRegistry`, `ChallengeSuffices`, `ConfigurationCarries` |
| `deployment_rotation` | 1 rotation on the deployed host | violation of `PreviousTokensVerify` (finding 3) |

Why the bounds are enough. Two concurrent calls are what every race in these
handlers needs: each compares one earlier read with one write of somebody
else. Three tokens allow a token, its successor and a forked successor. The
second process of `store_file` meets the lock of the first, live or left behind
by a crash or by a failed release. Since a process may itself be the one that failed
to remove its lock, two processes are also enough for two waiters on one lock, which is
finding 2. The clocks run past the lifetimes, so that items
expire and are swept while calls hold older times. The limits (request ids,
attempts, polls, connections) are small so that they are reached; the one that
is not is `MaxEntries`, since a single client never fills a cache. The clock of `rate_limit` goes
on for two windows after the second, so that the last counter of a window can expire
while a call still holds a time of that window; with less the bound is not reached.
Two streams
compete for one slot; streams that are open at once share only the counter.
In `sse_streams` each session receives at most `MaxEvents` = 3 messages and each
buffer holds at most `MaxBuffered` = 4 frames, which lets two posters wait for
one `drain` while heartbeats add to the same buffer. Each clock, `MaxPolls`,
`MaxCrashes` and `MaxClock` is a bound of the model; `MaxAttempts`,
`MaxRequestIds`, `Window`, `MaxRequests` and the lifetimes are parameters of the
code. Runs end when the bounds are used up, hence `CHECK_DEADLOCK FALSE`. (In
`sse_streams` the system may also stop of itself: `once(res, "drain")` in
`sse-event.ts:31` does not return when the response closes, so that a POST to a
stream whose client leaves with a full buffer is never answered.)
In `deployment` a token is issued before, during or after a rotation, and three keys
allow a second rotation or a seed that makes a key of its own; the properties that
compare tokens compare each one with the keys of the process, which needs one token.
Two secrets are what one seed makes; that a secret is replaced can still be seen, since
a run that is interrupted returns its secrets, and the theorems are about any number.
`Bound` ends a behaviour where a seed command and a rotation overlap, as nothing is
said of keys after that, and keeps the rotations under run.sh to one, where the key file
makes for many states. Of `SecretsMatchRegistry` and `ChallengeSuffices`, which
do not except the overlap, the theorems say that they hold there, too. The
inputs of `Configuration` differ from good ones in one value at a time, over every
kind of URL that some check tells apart (scheme, public and private hosts,
wildcard, credentials, query, final slash); a second deployment has good inputs
and shows what the first has left behind. `MaxRows` and `MaxDeploys` bound the
rows and the deployments; `Texts` has the texts that occur in inputs and program;
`MaxNumber` stands for the largest safe integer, and
no smaller value would tell more, as every limit of the code lies below it.
Symmetry is used only where all symmetric values are interchangeable, and never
with a liveness property.

Assumptions about the environment, each visible in a constant:

* one clock for all instances;
* `SweepLag`, `MaxRequestAge`: DynamoDB's TTL process removes an item no sooner
  than the longest call after its expiry (it is documented to take hours or
  days);
* `LockExpires` applies to any lock but that of an update under way in a live process
  (`InUse`): the work under a lock, which is bounded by the size of the file, is assumed
  to take less than the stale time of 300 s. A lock that a live process failed to remove
  expires like that of a dead one, also while this process goes on to other updates;
* `MaxDelay`: how old the time in a store request of `AuthorizationFlow` may be.
  Nothing there depends on its value. In `ClientAuthentication` it bounds the
  time from an origin's answer to its use, and `Revocable` allows for it;
* `HighWater` is at least 2: the first frame of a stream does not fill a buffer.

**Fairness.** `EveryUpdateAnswered` needs weak fairness of the steps of each
process that is not dead, which is what Node's event loop and a file system that
answers give. `StreamsLetGo` needs weak fairness of `Finish`: Node emits `close`
for a response that was destroyed. Nothing is assumed of clients and timers. Crashes, lock expiry and arriving requests are not fair.

## 4. Findings

1. `refresh-tokens.ts:70`. The marker of an exchanged token lives as long as the
   *new* token. When `REFRESH_TOKEN_TTL_SECONDS` is shortened, the marker of an
   older, longer-lived token goes first, and a replay of that token is granted.
   With an unchanging lifetime this cannot happen (theorem `NoFork`).
2. `store-lock.ts:73`. `recoverStaleLock` removes whatever is at the lock path,
   not the lock it judged. Two waiters that have both judged one lock stale, left by a
   dead process or by one that could not remove it, can end up both holding the store,
   and an acknowledged update is lost. Two processes suffice. The model keeps apart whose
   verdict is about the lock that is there (`judged`) and whether anybody ever removed
   another one (`stolen`): until that happens the lock serializes, with any crashes,
   failed releases and stale locks (`UpdatesKept`, theorem `LockSerializes`).
3. `user-data.ts:85`. run.sh passes every parameter through jq's `@tsv`, which
   doubles backslashes. A PEM text in `OAUTH_PREVIOUS_PUBLIC_KEYS_JSON` has its line
   breaks as `\n`; the service parses a backslash and an n, and does not start. The
   documented rotation cannot be done on the deployed host; with the environment
   set directly it works (`TokensHonoured`).

Further behaviours that a reader of the documents may not expect. They follow
from the models; the properties that hold are stated around them.

* `dynamodb/rate-limit-store.ts:33`. A call that took its time in the previous
  window may overwrite the counters of the current one, which then admits more
  than `maxRequests`. The history variable `straddled` is set once a call is under way
  when a window begins; `WindowCap`, `WeightedCap` and `CountersMatchHistory` hold until
  then. How far the limit is exceeded afterwards is bounded by the number n of calls for
  one bucket and subject that can be under way at once: a window counts at most
  n * (`maxRequests` + 1) requests (`StraddleCap`). `rate_limit` has states that reach this
  bound: 8 requests in a window with a limit of 3 and two calls. The
  disk store takes the time under its lock and keeps the limit.
* `client-assertion.ts:17`. The replay map is in the memory of one process: with
  two processes `ClientAuthentication` violates `AssertionOnce`, each process
  accepting the same assertion, as does one process after a restart. Within one
  run of a process the map is exact (`AssertionOncePerProcess`).
* `signing-keys.ts:57`. The key file is read at every request, the key ID comes from
  the container's environment. After a rotation run.sh has rewritten the file some
  time before it replaces the container (for good, if the image cannot be
  pulled); meanwhile tokens are signed by the new key under the old key ID, and
  tokens of the old key are refused. The model has this
  (`KeyFileAhead`); `TokensHonoured` and `KidNamesOneKey` leave a process in this state
  aside, and the tokens it issues (`stray`).
* `put-runtime-parameters.ts:22`. The seed command sets `OAUTH_KEY_ID` to a digest of
  the key, also over an ID that an operator has chosen in a rotation. After the next
  restart the tokens issued under the chosen ID are refused, although the key is the
  same and `docs/deployment/runtime-parameters.md:70` says that repeated seeding preserves
  "token signing continuity". `TokensHonoured` excepts them (`replaced`);
  `SeedKeepsSecrets` says that nothing else of key and secrets changes.
* `put-runtime-parameters.ts:21`. The seed command writes back the key it has read some
  calls before. If a rotation is under way at the same time, the old key replaces the
  new one, or the new ID stays with the old key. No document says that the two exclude
  each other; they have to (`overlap`).
* `auth/oauth-state.ts:6`, `mcp/implementation.ts:5` and `auth/pkce.ts:3` accept a `state`
  of blanks, a client name of one blank, and a code challenge of up to 128 characters
  with `.` and `~`. `store-row-primitives.ts:12` and `:31` refuse them when the row is
  read. The disk store writes such a row, and from then on every request that uses the
  file fails, for every client, until somebody edits it. `docs/api/oauth.md:47` and `:49`
  ask for a string only. `RefusedForItsText` says that this is all that can block
  the file, and that one login state or session does it.
* `ci/cdk/src/config.ts:159`. The CDK application refuses `localhost` only, while the
  service refuses every address that is not public; `CDK_ALLOWED_ORIGINS` (also an
  empty one, which `??` does not replace), redirect URIs and equal client IDs are
  not checked before the service starts; a display
  name with a quotation mark becomes invalid JSON in the environment file (as in
  finding 3). In all these cases the deployment succeeds and the service does
  not start. The documents ask for HTTPS and public hostnames of the upstream URLs
  (`docs/deployment/aws-cdk.md:86`), but neither for public origins nor for names without
  quotation marks: `ConfigurationCarries` says that with inputs as documented the service
  starts exactly if both are so as well (`PublicOrigins`, `PlainNames`).
* `shared/config.ts:130`. The final slash of the upstream issuer is dropped, and
  `upstream-oidc-metadata.ts:15` compares the result with the document of the
  provider as a text: a provider whose issuer, or another endpoint, ends in a slash is
  always refused. No document says so (`docs/deployment/aws-cdk.md:47`);
  `ConfigurationCarries` has it as `NoFinalSlash`.
* A deployment with another domain leaves the registry with the old audiences until
  the seed command is run again; `ConfigurationCarries` therefore asks for deploy,
  seed, restart in this order.

## 5. Proofs

TLAPS checks these for every value of the constants: any number of tokens, calls,
processes, updates, streams, keys, lists, any lifetimes and limits. They rest on the
`ASSUME` of the modules alone unless a hypothesis is named. Each proof has the same
plan: an inductive invariant, one lemma per action, and a last step that draws the
property from the invariant. TLC finds the invariants to hold on the instances of the
runs as well; for `McpRequests` only the
properties, as its invariants speak of lists and messages of any size.

* **`DynamoRefreshTokens_proofs`.** `TypeCorrect`. `NoFork` (`SingleSuccessor`) and
  `ImplementsRefreshFamily` assume `StableTtl` (one lifetime; finding 1 shows that it is
  needed) and `LateSweep` (`MaxRequestAge <= SweepLag`). `SingleSuccessor` alone is not
  inductive: a commit could fork a family if the marker of the presented token
  were gone. The invariant adds `MarkerOutlivesToken` (an exchanged token keeps its
  marker while a call could find it valid), which needs `CallsMatchItems` (what a
  call holds is what is stored, at a time at most `MaxRequestAge` old) and
  `ItemsMatchLineage`. `CommitIsFirst` is the heart: a transaction that goes through is
  the first for its token. `OnlyReplaysRevoke`, under the same two hypotheses, adds
  `Justified`: a marker means an exchange, a family has one token not exchanged yet
  (`OneTip`), the family's item outlives its tokens, and a call on its way to revoke has
  seen a replay or comes too late. Its heart is `CancelledForReason`: a cancelled
  transaction has one of these causes. `RefusalsCloseFamilies` needs no hypothesis.
* **`DiskStore_proofs`.** About `DiskRefreshTokens` alone, `RevokedTogether` and
  `ImplementsRefreshFamily`, for any lifetimes; about `DiskStore`, where the other
  operations work on the same file, `FileRevokesTogether`,
  `FileImplementsRefreshFamily` and `OnlyTextsAreRefused`. `RefusedForItsText` is strengthened to
  `FileOK`: what each kind of row must satisfy, by kind, with the times that the checks
  compare (`TokensOK`, `CodesOK`, `StatesOK`, `SessionsOK`); that no operation writes to a
  file it cannot read, so that at most the last row written is refused (`OneRefused`); and
  that a login whose state was read has a challenge that the row of its code may have
  (`LoginsOK`).
* **`StoreFile_proofs`.** `TypeCorrect`. `LockSerializes`, `OneHolder` and
  `PowerLossHarmless` speak of the time until a waiter removes a lock that it has not judged
  (`~stolen` in the properties); after that all three fail (finding 2). The invariant is `HeldLock` (who works on the file owns the lock
  file, which is not stale), `JudgedStale` (a verdict about the lock that is there is right), `FreshSnapshot` (the state
  read is the state of the file until the rename) and `Committed` (what was renamed
  stays). `RefusedUpdatesLeaveNoTrace` holds without that hypothesis, even while two
  processes hold the store: by `WorkedOnce` an update is in one place of one queue,
  and by `Untraced` no file and no temporary content has it before it is applied.
  `ImplementsOneStep` (`ImplementsAtomicStore`, also until then) is the refinement:
  every step of a process, a crash or an error is a step of `AtomicStore` or leaves its
  state alone. The rename is the step `Apply`, the sync of the directory `Save`. For
  that the file must gain exactly the update at hand, which `FreshSnapshot` does not
  say; `ExactSnapshot` does: the content read is the whole content of the file, and
  the content to be written that and the update.
* **`AuthorizationFlow_proofs`.** `TypeCorrect`; `CodesUsedOnce`, along `CodeUse` (once
  a code is consumed, the right to a family lies with one call or has been used, and
  the record stays consumed or is gone for good); `CodesAccountedFor`, which counts
  exactly where that right is (`Accounted`); `LoginsSettledOnce`, along `LoginUse` (the
  right to settle a login is in the store, with one callback, or gone); and
  `GrantsAreBound`, along `Bound` (every state, code, call and grant says of its login
  what the login's request says, and its user logged in upstream for it), with
  `ProofRequired` for clients that always require PKCE.
* **`Limits_proofs`**, about `SseStreams` and `RateLimit`. Streams: `TypeCorrect`,
  `SlotsSafe`, `NoLeaks`, `WakeupsArrive`. `TimerMatchesSession` and `DrainOwed` are what
  the properties lack: a legacy timer runs as long as its session is in the map, and a
  response owes a `drain` only while its buffer holds a frame. Rates:
  `SlidingLimitHolds`, `NoRequestForgotten` and `LimitHolds` (no window admits more than
  the limit), until a call straddles the beginning of a window
  (`straddled`; section 4 says what happens otherwise). The invariant ties the record to
  the history: `ItemTrue` (its counters are the requests of its window and of the one
  before), `NothingStored` (without a record both are empty) and `HitOK` (what a call
  has read was alive in this window and within the limit). `CountersTrue` is the heart:
  what `countersForWindow` makes of the stored record is the history.
  `StraddleLimitHolds` has no such condition, only finitely many concurrent calls. Then the
  record is no longer the history. `CurrentBound` counts instead how often the counter of
  the window under way can have been started anew: each time a call writes that took its
  time before the window began, and there is then one such call less (`OnTime`). A call that
  starts over after a conflict takes a new time and so is late no more. `PastBound` allows
  one more request for each call that still held a time of a window when it ended (`Gone`).
* **`McpSession_proofs`**, about `McpSession` and `McpRequests`. `TypeCorrect`,
  `DispatchedOnce`, `NoReservationLost`, `ReadySessionsServed`, `EndIsFinal`, `GateHolds`.
  The invariant says of each request under way what the record still holds of what it
  was told: `SeenStillThere` (the ids it read), `HoldsId` (the id it reserved, unused so
  far), `Told` (the mark that its touch reported), `TooLate`. `PagesShowTheList` is
  about lists and pages of any length: a client has seen the first n entries, and its
  cursor names n. `EffectsAgree` is about any POST and any message, of which TLC
  enumerates those that some check tells apart.
* **`ClientAuthentication_proofs`.** `TypeCorrect`; `WithdrawalTakesEffect`: `CopyOK` says
  that a copy, in a memory, in the table or in a request, is of what the document
  says now, or ends within one lifetime and one delay of when it ceased to say so;
  copies of copies inherit it. `NoReplay`: `AcceptedRemembered`, an accepted assertion
  is remembered until it is too old to be accepted.
* **`Deployment_proofs`.** `TypeCorrect`, `SecretsAccepted`, `NothingReplaced`,
  `ChallengesSuffice`, along `SeedOK` (what the seed command has in hand is what the
  parameters hold, or will), `ParamOK` (the registry and the key ID are never ahead of
  what they are made from) and `CopiesOK`. `KidsAreStable` and `IssuedTokensHonoured` are
  about both kinds of hosts and any key IDs an operator chooses, without a hypothesis; what
  they except is in the properties (section 4). Their invariant compares what parameters,
  runner, container, rotation and tokens say of keys: a key ID stands for one key wherever
  it is said (`NamesOK`), being derived from it or chosen once; a rotation publishes the
  old pair before it touches key and ID (`RotationOK`), and the seed command has in hand
  the key that is stored (`PemOK`); a newer copy still names the key that an older one
  signs with (`PairsOK`), and each copy the keys of all living tokens (`TokensOK`).
  About `Configuration`, `AnyConfigurationCarries` (`ConfigurationCarries`): the inputs
  and options of `OperatorSpec` are any the operator may type (`AnyInputs`,
  `AnyOptions`), right or wrong in any number of values, in any number of deployments
  and seed commands. `ConfigInv` says that the stack is that of the last inputs, the
  registry that of the last options and this stack, and the service that of both. The
  rest follows the values through the stages: each URL of the stack is public and in
  normal form (`PublicStack`), the service reads what the stack has written
  (`StackSetting`) and accepts it (`DeployedReadConfig`, `SeededParse`), and its
  settings agree with the provider's document but for a final slash (`DeployedMetadata`); a
  quotation mark or an origin that is not public stops it (`DeployedRefused`,
  `RefusedOrigins`); a developer's
  fallbacks fit each other (`LocalReadConfig`). `ConfigurationCarriesHolds` is the same
  for the commands that TLC runs, whose inputs are among those. Assumed are that the
  texts of the program are among `Texts`, and that a missing value (`Missing`) and what is
  no JSON (`NotJson`) differ from URLs, origins, numbers and registries.

Proving showed some places where the models were loose, which are now exact: two
set expressions of `ClientAuthentication` that read differently than they were
meant, `CASE` expressions with overlapping arms in `AccessTokens`, `Deployment` and
`McpRequests` (TLC takes the first arm; the logic allows any), and assumptions that
`RateLimit` and `Deployment` had made silently (the clock reaches the first window; a
missing value is no record or parameter). With any inputs instead of a few,
`Configuration` turned out to let an empty `ALLOWED_ORIGINS` pass, which
`readAllowedOrigins` refuses, and to keep fields of a rate-limit policy that
`readRateLimitPolicies` drops.

Only model-checked: `EveryUpdateAnswered` and `StreamsLetGo`, since liveness under
fairness is out of the prover's reach.

## 6. Plan

Done in this order: refresh tokens on DynamoDB with their abstract
specification; the store file; refresh tokens on disk; the rate limiter; MCP
sessions; the authorization code grant; client authentication; SSE streams;
access tokens and the deployment of their keys; the rows of the disk store; MCP
requests and pagination; the configuration. Then proofs of every safety property
that the runs check; the atomic store that the file implements; the configuration
for any inputs; how far calls that straddle a window can exceed the rate limit.

Left, should the prover come to support it: the two liveness properties.

## 7. Not modelled

* Request signing, attribute encoding and the credentials cache of the DynamoDB
  client: I/O around one request; a failure there is a failed call.
* The JWT checks of upstream tokens (`upstream-oidc-jwt.ts`): ideal signatures. That
  the provider's keys are fetched before its tokens (`upstream-oidc-client.ts:16`)
  means that a login under way during the provider's key rotation is refused;
  `AuthorizationFlow` has that as a failed exchange.
* The contents of tools, resources, widgets and of the OpenAPI document, and their
  schema checks: constants and stateless functions.
* The AWS resources of the stack, the image build and the repository's own checks
  (`tools/`): templates and text processing without state.
