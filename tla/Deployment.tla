----------------------------- MODULE Deployment -----------------------------
(***************************************************************************)
(* How the signing key, the key ID, the client secrets and the client      *)
(* registry get from the seed command through Parameter Store and the      *)
(* service runner into the running service, and what becomes of the tokens *)
(* the service has issued.                                                 *)
(*                                                                         *)
(*  - put-runtime-parameters.ts (the seed command) reads the parameters    *)
(*    that exist, makes up the missing ones and writes all of them, one    *)
(*    AWS call at a time.  Every call can fail and ends the command; it    *)
(*    is run again later.                                                  *)
(*  - run.sh (written by user-data.ts) copies the parameters to a key file *)
(*    and an environment file, pulls the image and replaces the container. *)
(*    With "direct" loading the environment is set without this script.    *)
(*  - A service process checks its environment at startup and then reads   *)
(*    the key at every request: from the environment, or from the key file *)
(*    that run.sh may be rewriting.                                        *)
(*  - An operator rotates the signing key as docs/maintenance/key-rotation *)
(*    describes, one parameter after the other and with a key ID of their  *)
(*    own choice.  All of this goes on at the same time.                   *)
(*                                                                         *)
(* The other parameters (URLs, lifetimes) are in Configuration; keys that  *)
(* fail the RSA checks are left out.  SHA-256 is injective.  The           *)
(* cached key set of a process is a function of everything it is computed  *)
(* from, so the model computes it anew.                                    *)
(***************************************************************************)
EXTENDS AccessTokens, FiniteSets

CONSTANTS
    Keys,           \* RSA keys that may be generated
    Secrets,        \* client secrets that may be generated
    Absent,         \* a parameter, file or container that does not exist
    Loadings,       \* how the service gets its environment
    Registrations,  \* what a seed command is given: its options and the stack's audiences
    UpstreamModes,  \* identity provider modes: "external", "cognito"
    PullMayFail,    \* whether the image pull of run.sh may fail
    Ttl,            \* lifetime of an access token
    MaxTime,        \* bound on the clock
    MaxTokens,      \* bound on the tokens issued
    MaxRotations    \* bound on key rotations

ASSUME LoadingsAssumption ==
    /\ Loadings \subseteq {"file", "direct"}
    /\ UpstreamModes \subseteq {"external", "cognito"}

ASSUME BoundsAssumption ==
    /\ Ttl \in Nat \ {0}
    /\ {MaxTime, MaxTokens, MaxRotations} \subseteq Nat
    /\ PullMayFail \in BOOLEAN

VARIABLES
    mode,       \* [loading, upstream]: fixed at deployment
    param,      \* Parameter Store
    seed,       \* the seed command: step and what it has read
    host,       \* run.sh: step and the parameter file
    keyFile,    \* oauth-private-key.pem under /run; it survives a container
    container,  \* the environment of the container, or Absent
    up,         \* whether a process in the container serves requests
    tokens,     \* access tokens issued
    rotation,   \* the rotation under way: step, new key and new key ID
    rotations,  \* rotations begun (bounds the model)
    now,
    made,       \* history: the key of the parameters the container was made from
    stray,      \* history: tokens issued under a key file that was not the container's
    replaced,   \* history: key IDs that the seed command has replaced
    overlap     \* history: whether a seed command and a rotation were under way at once

history == <<made, stray, replaced, overlap>>

vars == <<mode, param, seed, host, keyFile, container, up, tokens, rotation, rotations, now, history>>

\* keyId and sha256(pem).slice(0, 24): the key ID derived from a key
DerivedKid(key) == <<"sha256", key>>
Sha256(secret) == <<"sha256", secret>>

\* The key ID an operator makes up for the n-th rotation; never one that was
\* used before.
ChosenKid(n) == <<"chosen", n>>

Kids == {DerivedKid(k) : k \in Keys} \cup {ChosenKid(n) : n \in 0 .. MaxRotations}

ASSUME AbsentAssumption == Absent \notin Keys \cup Secrets \cup Kids

\* OAUTH_PREVIOUS_PUBLIC_KEYS_JSON.  A PEM has line breaks, which JSON writes
\* as a backslash and an n; escapes counts how often the backslashes of the
\* text have been doubled on its way.
PreviousJson(keys) == [keys |-> keys, escapes |-> 0]

\* OAUTH_CLIENTS_JSON as the seed command builds it: names, redirect URIs and
\* audiences of this run, and the hashes of the secrets.  Configuration has
\* the texts that do not reach the service.
ClientsJson(registration, actions, mcp) ==
    [registration |-> registration, actions |-> Sha256(actions), mcp |-> Sha256(mcp)]

AllowedScopes == {"openid", "profile", "email"}

NoParameters ==
    [pem |-> Absent, kid |-> Absent, previous |-> PreviousJson({}),
     actions |-> Absent, mcp |-> Absent, clients |-> Absent, upstream |-> FALSE]

-----------------------------------------------------------------------------
(* The seed command.                                                       *)

\* Mutant: the registry is written before the secrets it holds the hashes of.
MutSeedWrites == <<"upstream", "pem", "kid", "clients", "actions", "mcp">>

SeedReads == <<"actions", "mcp", "pem">>
SeedWrites == <<"upstream", "pem", "kid", "actions", "mcp", "clients">>
SeedIdle == [step |-> 0, actions |-> Absent, mcp |-> Absent, pem |-> Absent]
RotationIdle == [step |-> "idle", key |-> Absent, kid |-> Absent]
SeedLength == Len(SeedReads) + Len(SeedWrites)

\* A fresh key or secret: none that is stored or in use anywhere.
FreshKeys ==
    Keys \ ({param.pem, keyFile, seed.pem, host.file.pem, rotation.key, made} \cup {t.key : t \in tokens}
            \cup {k.key : k \in param.previous.keys}
            \cup (IF container = Absent THEN {} ELSE {container.pem}))
FreshSecrets == Secrets \ {param.actions, param.mcp, seed.actions, seed.mcp}

SeedStart ==
    /\ seed.step = 0
    /\ seed' = [SeedIdle EXCEPT !.step = 1]
    /\ overlap' = (overlap \/ rotation.step # "idle")
    /\ UNCHANGED <<mode, param, host, keyFile, container, up, tokens, rotation, rotations, now,
                   made, stray, replaced>>

\* Mutant: the signing key is generated on every run.
MutSeedRead ==
    /\ seed.step \in 1 .. Len(SeedReads)
    /\ LET name == SeedReads[seed.step]
           fresh == IF name = "pem" THEN FreshKeys ELSE FreshSecrets
       IN  \E value \in (IF param[name] # Absent /\ name # "pem" THEN {param[name]} ELSE fresh) :
             seed' = [seed EXCEPT ![name] = value, !.step = @ + 1]
    /\ UNCHANGED <<mode, param, host, keyFile, container, up, tokens, rotation, rotations, now, history>>

\* existingSecure(name) ?? a fresh value.
SeedRead ==
    /\ seed.step \in 1 .. Len(SeedReads)
    /\ LET name == SeedReads[seed.step]
           fresh == IF name = "pem" THEN FreshKeys ELSE FreshSecrets
       IN  \E value \in (IF param[name] # Absent THEN {param[name]} ELSE fresh) :
             seed' = [seed EXCEPT ![name] = value, !.step = @ + 1]
    /\ UNCHANGED <<mode, param, host, keyFile, container, up, tokens, rotation, rotations, now, history>>

\* What the seed command puts into a parameter.
SeedValue(name, registration) ==
    CASE name = "upstream" -> TRUE
      [] name = "kid" -> DerivedKid(seed.pem)
      [] name = "clients" -> ClientsJson(registration, seed.actions, seed.mcp)
      [] OTHER -> seed[name]

\* One put-parameter with --overwrite.  writeExternalUpstreamSecret writes
\* nothing in Cognito mode.  The upstream secret is there or not; what it is
\* may change with every run.
SeedWrite ==
    /\ seed.step \in Len(SeedReads) + 1 .. SeedLength
    /\ LET name == SeedWrites[seed.step - Len(SeedReads)]
       IN  /\ \E registration \in Registrations :
                param' = IF name = "upstream" /\ mode.upstream = "cognito" THEN param
                         ELSE [param EXCEPT ![name] = SeedValue(name, registration)]
           /\ replaced' = IF name = "kid" /\ param.kid \notin {Absent, DerivedKid(seed.pem)}
                          THEN replaced \cup {param.kid} ELSE replaced
    /\ seed' = IF seed.step = SeedLength THEN SeedIdle ELSE [seed EXCEPT !.step = @ + 1]
    /\ UNCHANGED <<mode, host, keyFile, container, up, tokens, rotation, rotations, now,
                   made, stray, overlap>>

\* An AWS call fails, or the operator stops the command.
SeedFail ==
    /\ seed.step > 0
    /\ seed' = SeedIdle
    /\ UNCHANGED <<mode, param, host, keyFile, container, up, tokens, rotation, rotations, now, history>>

\* syncGeneratedRuntimeParameters after a deploy in Cognito mode.
SyncGeneratedParameters ==
    /\ mode.upstream = "cognito"
    /\ ~ param.upstream
    /\ param' = [param EXCEPT !.upstream = TRUE]
    /\ UNCHANGED <<mode, seed, host, keyFile, container, up, tokens, rotation, rotations, now, history>>

-----------------------------------------------------------------------------
(* run.sh, started at boot and by systemctl restart.                       *)

HostIdle == [step |-> "idle", file |-> NoParameters]

\* jq's @tsv doubles every backslash of a value.
Tsv(json) == [json EXCEPT !.escapes = @ + 1]

\* What the service reads of the parameters: all but the secrets for ChatGPT.
Served(file) == [file EXCEPT !.actions = Absent, !.mcp = Absent]

\* The environment file: every parameter except the key, and the key's path.
EnvFile(file) == [file EXCEPT !.pem = Absent, !.previous = Tsv(@)]

RunnerRead ==
    /\ mode.loading = "file"
    /\ host.step = "idle"
    /\ host' = [step |-> "read", file |-> Served(param)]
    /\ UNCHANGED <<mode, param, seed, keyFile, container, up, tokens, rotation, rotations, now, history>>

\* The redirection empties the key file before jq writes to it.
RunnerTruncateKey ==
    /\ host.step = "read"
    /\ keyFile' = Absent
    /\ host' = [host EXCEPT !.step = "truncated"]
    /\ UNCHANGED <<mode, param, seed, container, up, tokens, rotation, rotations, now, history>>

RunnerWriteKey ==
    /\ host.step = "truncated"
    /\ keyFile' = host.file.pem
    /\ host' = [host EXCEPT !.step = "keyed"]
    /\ UNCHANGED <<mode, param, seed, container, up, tokens, rotation, rotations, now, history>>

\* The environment file, the registry login and the pull; set -e ends the
\* script when the pull fails, with the old container still in place.
RunnerPull ==
    /\ host.step = "keyed"
    /\ \/ host' = [host EXCEPT !.step = "pulled"]
       \/ PullMayFail /\ host' = HostIdle
    /\ UNCHANGED <<mode, param, seed, keyFile, container, up, tokens, rotation, rotations, now, history>>

\* docker rm -f
RunnerRemove ==
    /\ host.step = "pulled"
    /\ container' = Absent /\ made' = Absent
    /\ up' = FALSE
    /\ host' = [host EXCEPT !.step = "removed"]
    /\ UNCHANGED <<mode, param, seed, keyFile, tokens, rotation, rotations, now,
                   stray, replaced, overlap>>

\* docker run -d --restart unless-stopped
RunnerRun ==
    /\ host.step = "removed"
    /\ container' = EnvFile(host.file) /\ made' = host.file.pem
    /\ host' = HostIdle
    /\ UNCHANGED <<mode, param, seed, keyFile, up, tokens, rotation, rotations, now,
                   stray, replaced, overlap>>

\* The machine restarts: /run is a memory file system, the container is
\* started again by docker with the environment it was created with.
Reboot ==
    /\ mode.loading = "file"
    /\ keyFile' = Absent
    /\ up' = FALSE
    /\ host' = HostIdle
    /\ UNCHANGED <<mode, param, seed, container, tokens, rotation, rotations, now, history>>

\* The operator deploys with the parameters as the environment.
DeployDirect ==
    /\ mode.loading = "direct"
    /\ container' = Served(param) /\ made' = param.pem
    /\ up' = FALSE
    /\ UNCHANGED <<mode, param, seed, host, keyFile, tokens, rotation, rotations, now,
                   stray, replaced, overlap>>

-----------------------------------------------------------------------------
(* The service process.                                                    *)

\* privateKeyPemValue; an empty file counts as no key.
PrivateKeyPem == IF container.pem # Absent THEN container.pem ELSE keyFile

\* previousKeys parses the JSON and every PEM in it: a PEM whose line breaks
\* arrive as backslashes is no PEM.
PreviousReadable(json) == json.keys = {} \/ json.escapes = 0

\* Mutant: the previous keys are not used for verification.
MutVerificationKeys == {[kid |-> container.kid, key |-> PrivateKeyPem]}

VerificationKeys ==
    {[kid |-> container.kid, key |-> PrivateKeyPem]} \cup container.previous.keys

\* Mutant: duplicate key IDs are not rejected.
MutKeySetReadable ==
    /\ PrivateKeyPem # Absent
    /\ container.kid # Absent
    /\ PreviousReadable(container.previous)

\* getKeySet does not throw: a key, a key ID, no unreadable previous key and
\* no duplicate key ID.
KeySetReadable ==
    /\ PrivateKeyPem # Absent
    /\ container.kid # Absent
    /\ PreviousReadable(container.previous)
    /\ container.kid \notin {k.kid : k \in container.previous.keys}

\* validateStartup: readConfig, loadClients and getSigningKey.
StartupPasses ==
    /\ container.upstream
    /\ container.clients # Absent
    /\ KeySetReadable

\* Docker starts the process again until validateStartup passes.
StartProcess ==
    /\ container # Absent
    /\ ~ up
    /\ StartupPasses
    /\ up' = TRUE
    /\ UNCHANGED <<mode, param, seed, host, keyFile, container, tokens, rotation, rotations, now, history>>

CrashProcess ==
    /\ up
    /\ up' = FALSE
    /\ UNCHANGED <<mode, param, seed, host, keyFile, container, tokens, rotation, rotations, now, history>>

\* run.sh has rewritten the key file and not yet replaced the container, or
\* ended before it did: the process has a key that its environment is not for.
KeyFileAhead == PrivateKeyPem # made

\* issueTokenResponse.  The request fails when the key cannot be read.
IssueAccessToken ==
    /\ up
    /\ KeySetReadable
    /\ Cardinality(tokens) < MaxTokens
    /\ \E aud \in Audiences, scopes \in {{"openid"}, AllowedScopes} :
         LET token == Token(PrivateKeyPem, container.kid, aud, scopes, now, now + Ttl)
         IN  /\ tokens' = tokens \cup {token}
             /\ stray' = IF KeyFileAhead THEN stray \cup {token} ELSE stray
    /\ UNCHANGED <<mode, param, seed, host, keyFile, container, up, rotation, rotations, now,
                   made, replaced, overlap>>

Tick ==
    /\ now < MaxTime
    /\ now' = now + 1
    /\ UNCHANGED <<mode, param, seed, host, keyFile, container, up, tokens, rotation, rotations, history>>

-----------------------------------------------------------------------------
(* The operator (key-rotation.md).                                         *)

\* Steps 1 and 2: a new key pair and a new ID for it; the current public key
\* joins the previous ones.
RotatePrevious ==
    /\ rotation.step = "idle"
    /\ rotations < MaxRotations
    /\ param.pem # Absent /\ param.kid # Absent
    /\ \E key \in FreshKeys : \E kid \in {DerivedKid(key), ChosenKid(rotations)} :
         rotation' = [step |-> "previous", key |-> key, kid |-> kid]
    /\ param' = [param EXCEPT !.previous =
                   PreviousJson(@.keys \cup {[kid |-> param.kid, key |-> param.pem]})]
    /\ rotations' = rotations + 1
    /\ overlap' = (overlap \/ seed.step > 0)
    /\ UNCHANGED <<mode, seed, host, keyFile, container, up, tokens, now, made, stray, replaced>>

\* Steps 3 and 4; under run.sh the key file is written from the parameter.
RotateKey ==
    /\ rotation.step = "previous"
    /\ param' = [param EXCEPT !.pem = rotation.key]
    /\ rotation' = [rotation EXCEPT !.step = "key"]
    /\ UNCHANGED <<mode, seed, host, keyFile, container, up, tokens, rotations, now, history>>

\* Step 5.
RotateKid ==
    /\ rotation.step = "key"
    /\ param' = [param EXCEPT !.kid = rotation.kid]
    /\ rotation' = RotationIdle
    /\ UNCHANGED <<mode, seed, host, keyFile, container, up, tokens, rotations, now, history>>

\* Steps 7 and 8: once the rotation is deployed, so that neither the container
\* nor one that run.sh is about to start has an older key ID, and every token
\* of the key has expired.
RemovePreviousKey ==
    /\ rotation.step = "idle"
    /\ container # Absent
    /\ container.kid = param.kid
    /\ host.step # "idle" => host.file.kid = param.kid
    /\ \E k \in param.previous.keys :
         /\ \A t \in tokens : t.key = k.key => t.exp <= now
         /\ param' = [param EXCEPT !.previous = PreviousJson(@.keys \ {k})]
    /\ UNCHANGED <<mode, seed, host, keyFile, container, up, tokens, rotation, rotations, now, history>>

-----------------------------------------------------------------------------
Init ==
    /\ mode \in [loading : Loadings, upstream : UpstreamModes]
    /\ param = NoParameters
    /\ seed = SeedIdle
    /\ host = HostIdle
    /\ keyFile = Absent
    /\ container = Absent
    /\ up = FALSE
    /\ tokens = {}
    /\ rotation = RotationIdle
    /\ rotations = 0
    /\ now = 0
    /\ made = Absent /\ stray = {} /\ replaced = {} /\ overlap = FALSE

Next ==
    \/ SeedStart \/ SeedRead \/ SeedWrite \/ SeedFail
    \/ SyncGeneratedParameters
    \/ RunnerRead \/ RunnerTruncateKey \/ RunnerWriteKey \/ RunnerPull
    \/ RunnerRemove \/ RunnerRun \/ Reboot \/ DeployDirect
    \/ StartProcess \/ CrashProcess \/ IssueAccessToken
    \/ RotatePrevious \/ RotateKey \/ RotateKid \/ RemovePreviousKey \/ Tick

Spec == Init /\ [][Next]_vars

-----------------------------------------------------------------------------
(* Properties.                                                             *)

ParameterSets ==
    [pem : Keys \cup {Absent}, kid : Kids \cup {Absent},
     previous : [keys : SUBSET [kid : Kids, key : Keys], escapes : 0 .. 1],
     actions : Secrets \cup {Absent}, mcp : Secrets \cup {Absent},
     clients : [registration : Registrations, actions : {Sha256(s) : s \in Secrets},
                mcp : {Sha256(s) : s \in Secrets}] \cup {Absent},
     upstream : BOOLEAN]

\* Parameters, files, the container's environment and the tokens have the
\* shapes that put-runtime-parameters.ts, run.sh and access-token.ts give them.
TypeOK ==
    /\ mode \in [loading : Loadings, upstream : UpstreamModes]
    /\ param \in ParameterSets
    /\ seed \in [step : 0 .. SeedLength, actions : Secrets \cup {Absent},
                 mcp : Secrets \cup {Absent}, pem : Keys \cup {Absent}]
    /\ host \in [step : {"idle", "read", "truncated", "keyed", "pulled", "removed"},
                 file : ParameterSets]
    /\ keyFile \in Keys \cup {Absent}
    /\ container \in ParameterSets \cup {Absent}
    /\ up \in BOOLEAN
    /\ up => container # Absent
    /\ rotation \in [step : {"idle", "previous", "key"}, key : Keys \cup {Absent}, kid : Kids \cup {Absent}]
    /\ stray \subseteq tokens
    /\ tokens \subseteq [key : Keys, kid : Kids, aud : Audiences,
                         scopes : SUBSET AllowedScopes, iat : 0 .. MaxTime,
                         exp : 0 .. MaxTime + Ttl]
    /\ rotations \in 0 .. MaxRotations
    /\ now \in 0 .. MaxTime
    /\ made \in Keys \cup {Absent}
    /\ replaced \subseteq Kids
    /\ overlap \in BOOLEAN

\* A process that can answer: between the truncation and the rewriting of the
\* key file its requests fail with a server error.
CanAnswer == up /\ KeySetReadable

\* The status an operation owes to a token, whatever has happened to the keys
\* since it was issued.
Promised(op, how, t) ==
    IF how \in {"duplicate", "query"} THEN 400
    ELSE IF how # "bearer" \/ t.exp <= now \/ t.aud \notin MeantFor(op) THEN 401
    ELSE IF ~(AnnouncedScopes(op) \subseteq t.scopes) THEN 403
    ELSE 200

\* The procedures of the documents do not say that seeding and rotating
\* exclude each other.  They have to: a seed command that has read the old key
\* writes it over the new one.  What follows holds until the two overlap.

\* A token that was issued is honoured to the end of its lifetime by every
\* process that answers, at exactly the operations whose audience and
\* announced scopes it has, and nowhere else; an expired one is refused.  It
\* is so through restarts of run.sh, repeated and interrupted seeding and
\* rotations deployed at any of their steps, with two exceptions: while the
\* key file is ahead of its container, and for a token under a chosen key ID
\* that the seed command has replaced by the derived one.
TokensHonoured ==
    (CanAnswer /\ ~ KeyFileAhead /\ ~ overlap) =>
        \A t \in {x \in tokens \ stray : x.kid \notin replaced}, op \in Operations, how \in Presentations :
            Serve(op, VerificationKeys, how, t, now).status = Promised(op, how, t)

\* A key ID names one key for ever: clients cache /oauth/jwks by key ID, so a
\* key ID that changed its key would make them refuse good tokens.  A process
\* with a half-made rotation would use the new key under the old ID; that the
\* previous keys come first and no key ID may be there twice keeps it from
\* starting.  The only process that does is one whose key file was rewritten
\* under it.
KidNamesOneKey ==
    LET published == IF CanAnswer /\ ~ KeyFileAhead THEN VerificationKeys ELSE {}
        bindings == published \cup {[kid |-> t.kid, key |-> t.key] : t \in tokens \ stray}
    IN  ~ overlap => \A a, b \in bindings : a.kid = b.kid => a.key = b.key

\* A rerun of the seed command, with whatever options and whatever happened to
\* the runs before it, leaves the signing key and the client secrets as they
\* are, and so the hashes in the registry; the key ID stays or becomes the one
\* that is derived from the key.
SeedKeepsSecrets ==
    [][(rotation' = rotation /\ ~ overlap) =>
         /\ \A name \in {"pem", "actions", "mcp"} : param[name] # Absent => param'[name] = param[name]
         /\ param.kid # Absent => param'.kid \in {param.kid, DerivedKid(param.pem)}
         /\ param.clients # Absent => /\ param'.clients.actions = param.clients.actions
                                     /\ param'.clients.mcp = param.clients.mcp]_vars

\* The secret an operator reads from Parameter Store for ChatGPT is the one the
\* stored registry and every running service accept.
SecretsMatchRegistry ==
    \A registry \in {param.clients} \cup (IF up THEN {container.clients} ELSE {}) :
        registry # Absent => /\ registry.actions = Sha256(param.actions)
                             /\ registry.mcp = Sha256(param.mcp)

\* A client that is refused by a tool or a resource and authorizes again for the scopes the
\* challenge names, which its registration allows, is served.
ChallengeSuffices ==
    CanAnswer =>
        \A t \in tokens, op \in Tools \cup Resources, how \in {"bearer", "none", "other"} :
            LET answer == Serve(op, VerificationKeys, how, t, now)
                retry == Token(PrivateKeyPem, container.kid, "mcp", answer.challenge, now, now + Ttl)
            IN  answer.status # 200 =>
                    /\ answer.challenge \subseteq AllowedScopes
                    /\ Serve(op, VerificationKeys, "bearer", retry, now).status = 200

\* "Tokens signed by previous keys verify until their expiration when the
\* public key remains published": with the public key of a token in the
\* environment of a container that has the new key and key ID, the service
\* starts and accepts it.
PreviousTokensVerify ==
    (container # Absent /\ host.step = "idle" /\ (mode.loading = "file" => keyFile # Absent)) =>
        \A t \in tokens :
            (container.kid # t.kid /\ PrivateKeyPem # t.key /\ [kid |-> t.kid, key |-> t.key] \in container.previous.keys /\ now < t.exp) =>
                /\ StartupPasses
                /\ VerifyAccessToken(VerificationKeys, t, t.aud, {}, now) = "valid"
=============================================================================
