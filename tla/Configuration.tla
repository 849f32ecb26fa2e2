--------------------------- MODULE Configuration ---------------------------
(***************************************************************************)
(* The way of the configuration: from the inputs of the CDK application    *)
(* (ci/cdk/src/config.ts) to the parameters of the stack, with the         *)
(* registry of clients that the seed command adds, through the environment *)
(* file of run.sh into readConfig and loadClients of the service, and on   *)
(* to the discovery document of the upstream provider.                     *)
(*                                                                         *)
(* Each stage has checks of its own and the operator may run the stages    *)
(* again in any order and with other inputs.  Deployment has the keys and  *)
(* secrets and the interleavings of these commands; here every command is  *)
(* one step.  A value is the part of it that some check looks at; values   *)
(* that only have to match a pattern are right ("ok") or wrong ("bad").    *)
(***************************************************************************)
EXTENDS Naturals, Sequences, FiniteSets

CONSTANTS
    Missing,        \* a variable, parameter or option that is not given
    NotJson,        \* a text that JSON.parse refuses
    Texts,          \* what an operator may type in one place
    MaxNumber,      \* the largest safe integer
    MaxDeploys      \* bound on deployments of the stack

ASSUME ConfigurationAssumption == MaxDeploys \in Nat /\ MaxNumber \in Nat /\ MaxNumber >= 2592000

VARIABLES
    inputs,     \* the inputs of the last deployment; Missing before it
    stack,      \* Missing, or the stack's parameters
    clients,    \* OAUTH_CLIENTS_JSON: Missing, or the list of clients
    options,    \* the options of the last seed command
    service,    \* Missing, or what became of the start of the service
    done,       \* how far the sequence deploy, seed, restart has come
    deploys     \* bounds the model

configVars == <<inputs, stack, clients, options, service, done, deploys>>

-----------------------------------------------------------------------------
(* URLs.  A host is one of the names "public", "other" and "idp",          *)
(* "localhost", "sub.localhost", "loopback" for 127.0.0.1, "privateIp" for *)
(* another address that is not public, or "*".  parts: "query", or "other" *)
(* for credentials or a fragment, or "none"; slash: the text ends in a     *)
(* slash that its normal form does not have.                               *)

Url(scheme, host, path) ==
    [scheme |-> scheme, host |-> host, path |-> path, parts |-> "none", slash |-> FALSE]

Https(host, path) == Url("https", host, path)

\* URLs as an operator may type them, and with a path derived from another.
TypedUrl == [scheme : Texts, host : Texts, path : Texts, parts : Texts, slash : BOOLEAN]
UrlPaths == Texts \cup (Texts \X Texts)
AnyUrl == [scheme : Texts, host : Texts, path : UrlPaths, parts : Texts, slash : BOOLEAN]

\* url.href.replace(/\/$/, "")
Normal(url) == [url EXCEPT !.slash = FALSE]

\* The origins that are allowed if none are given: on the deployed host, and
\* for a developer.
ChatGptOrigins == {Https("other", "/")}
LocalOrigins == ChatGptOrigins \cup {Url("http", "localhost", "/")}

IsNonPublicHostname(host) == host \in {"localhost", "loopback", "privateIp"}

-----------------------------------------------------------------------------
(* The CDK application.                                                    *)

\* Lower-case labels, at least two of them.
DnsName(host) == host # "localhost"

HttpsUrlValue(url) ==
    /\ url # Missing
    /\ url.scheme = "https"
    /\ url.parts = "none"
    /\ url.host \notin {"localhost", "sub.localhost"}

WidgetDomain(in) ==
    IF in.widgetDomain = Missing THEN Https(in.domainName, "/") ELSE in.widgetDomain

DiscoveryUrl(in) ==
    IF in.discoveryUrl = Missing THEN [Normal(in.issuerUrl) EXCEPT !.path = <<@, "openid-configuration">>]
    ELSE in.discoveryUrl

Endpoints == {"issuerUrl", "authorizationUrl", "tokenUrl", "userinfoUrl"}

\* The checks of upstreamOidc.
UpstreamInputs(in) ==
    /\ \A name \in Endpoints : HttpsUrlValue(in[name])
    /\ HttpsUrlValue(DiscoveryUrl(in))
    /\ in.scopes # Missing => "openid" \in in.scopes /\ "?" \notin in.scopes
    /\ in.tokenAuthMethod \in {Missing, "client_secret_post", "client_secret_basic"}

\* The checks of deploymentConfig.  names: every input that only has to match
\* its pattern.  The origins are not checked; an empty text has none.
DeploymentConfig(in) ==
    /\ in.names = "ok"
    /\ DnsName(in.domainName)
    /\ in.mode \in {"external", "cognito"}
    /\ in.mode = "external" => UpstreamInputs(in)
    /\ HttpsUrlValue(WidgetDomain(in))
    /\ WidgetDomain(in).path = "/"

\* The upstream provider of the parameters: the one of the inputs, or the
\* user pool that the stack creates.
IdentityProvider(in) ==
    IF in.mode = "external"
    THEN [issuerUrl |-> Normal(in.issuerUrl),
          discoveryUrl |-> Normal(DiscoveryUrl(in)),
          authorizationUrl |-> Normal(in.authorizationUrl),
          tokenUrl |-> Normal(in.tokenUrl),
          userinfoUrl |-> Normal(in.userinfoUrl),
          scopes |-> IF in.scopes = Missing THEN {"openid", "profile", "email"} ELSE in.scopes,
          tokenAuthMethod |-> IF in.tokenAuthMethod = Missing THEN "client_secret_post" ELSE in.tokenAuthMethod]
    ELSE [issuerUrl |-> Https("other", "/pool"),
          discoveryUrl |-> Https("other", <<"/pool", "openid-configuration">>),
          authorizationUrl |-> Https("idp", "/oauth2/authorize"),
          tokenUrl |-> Https("idp", "/oauth2/token"),
          userinfoUrl |-> Https("idp", "/oauth2/userInfo"),
          scopes |-> {"openid", "profile", "email"},
          tokenAuthMethod |-> "client_secret_post"]

\* environmentParameters: what the stack writes, by the variables' names.
EnvironmentParameters(in) ==
    LET upstream == IdentityProvider(in)
    IN  [NODE_ENV |-> "production",
         PUBLIC_ISSUER_URL |-> Https(in.domainName, "/"),
         MCP_RESOURCE_URL |-> Https(in.domainName, "/mcp"),
         ACTIONS_AUDIENCE |-> Https(in.domainName, "/actions"),
         WIDGET_DOMAIN |-> Normal(WidgetDomain(in)),
         OAUTH_STORE_BACKEND |-> "dynamodb",
         OAUTH_DYNAMODB_TABLE_NAME |-> "ok",
         OAUTH_DYNAMODB_REGION |-> "ok",
         ALLOWED_ORIGINS |-> IF in.allowedOrigins = Missing THEN ChatGptOrigins ELSE in.allowedOrigins,
         ACCESS_TOKEN_TTL_SECONDS |-> 900, ID_TOKEN_TTL_SECONDS |-> 300,
         AUTHORIZATION_CODE_TTL_SECONDS |-> 300, REFRESH_TOKEN_TTL_SECONDS |-> 2592000,
         RATE_LIMIT_WINDOW_SECONDS |-> 60, RATE_LIMIT_MAX_REQUESTS |-> 120,
         RATE_LIMIT_POLICIES_JSON |-> <<>>,
         MCP_LIST_PAGE_SIZE |-> 128, MCP_SSE_MAX_CONNECTIONS |-> 1024,
         UPSTREAM_OIDC_ISSUER_URL |-> upstream.issuerUrl,
         UPSTREAM_OIDC_DISCOVERY_URL |-> upstream.discoveryUrl,
         UPSTREAM_OIDC_AUTHORIZATION_URL |-> upstream.authorizationUrl,
         UPSTREAM_OIDC_TOKEN_URL |-> upstream.tokenUrl,
         UPSTREAM_OIDC_USERINFO_URL |-> upstream.userinfoUrl,
         UPSTREAM_OIDC_CLIENT_ID |-> "ok",
         UPSTREAM_OIDC_REDIRECT_URI |-> Https(in.domainName, "/oauth/callback"),
         UPSTREAM_OIDC_SCOPES |-> upstream.scopes,
         UPSTREAM_OIDC_TOKEN_AUTH_METHOD |-> upstream.tokenAuthMethod]

-----------------------------------------------------------------------------
(* The seed command and its registry of clients.  A display name is plain, *)
(* has a quotation mark, or does not pass the pattern.                     *)

\* parseRuntimeParameterOptions: the redirect URIs only have to be given.
RuntimeParameterOptions(o) ==
    \A client \in {o.actions, o.mcp} :
        client.id # "bad" /\ client.name # "bad" /\ client.redirectUris # <<>>

Client(option, resources, pkcePolicy, clientClass) ==
    [clientId |-> option.id, displayName |-> option.name, redirectUris |-> option.redirectUris,
     allowedScopes |-> {"openid", "profile", "email"}, allowedResources |-> resources,
     tokenEndpointAuthMethod |-> "client_secret_post", pkcePolicy |-> pkcePolicy,
     clientClass |-> clientClass]

\* Mutant: a client that is registered keeps the resource it was registered for.
MutSeededClients(o, parameters) ==
    IF clients # Missing THEN clients
    ELSE <<Client(o.actions, <<parameters.ACTIONS_AUDIENCE>>, "optional", "gpt-actions"),
           Client(o.mcp, <<parameters.MCP_RESOURCE_URL>>, "required", "gpt-apps-mcp")>>

\* OAUTH_CLIENTS_JSON, with the audiences of the stack's outputs.
SeededClients(o, parameters) ==
    <<Client(o.actions, <<parameters.ACTIONS_AUDIENCE>>, "optional", "gpt-actions"),
      Client(o.mcp, <<parameters.MCP_RESOURCE_URL>>, "required", "gpt-apps-mcp")>>

\* run.sh doubles the backslashes of a value: a quotation mark in a JSON
\* string then ends the string, and the text is no JSON any more.
EnvironmentFile(parameters, list) ==
    [name \in DOMAIN parameters \cup {"UPSTREAM_OIDC_CLIENT_SECRET", "OAUTH_CLIENTS_JSON"} |->
        IF name = "UPSTREAM_OIDC_CLIENT_SECRET" THEN "ok"
        ELSE IF name # "OAUTH_CLIENTS_JSON" THEN parameters[name]
        ELSE IF \E i \in DOMAIN list : list[i].displayName = "quoted" THEN NotJson ELSE list]

Distinct(list) == \A i, j \in DOMAIN list : list[i] = list[j] => i = j

\* parseRedirectUrl: the text is kept as it is.
RedirectUrl(url, production) ==
    /\ url.scheme \in {"http", "https"}
    /\ url.host # "*"
    /\ url.parts # "other"
    /\ production => url.scheme = "https" \/ url.host \in {"localhost", "loopback"}

ValidateProductionPkce(client) ==
    \/ client.pkcePolicy = "required"
    \/ client.clientClass = "gpt-actions"

ResourceUrl(url, production) ==
    /\ url.scheme \in {"http", "https"}
    /\ production => url.scheme = "https"
    /\ url.host # "*"
    /\ url.parts # "other"

ParseClient(client, production) ==
    /\ production => ValidateProductionPkce(client)
    /\ client.clientId # "bad" /\ client.displayName # "bad"
    /\ client.redirectUris # <<>> /\ Distinct(client.redirectUris)
    /\ \A i \in DOMAIN client.redirectUris : RedirectUrl(client.redirectUris[i], production)
    /\ client.allowedResources # <<>> /\ Distinct(client.allowedResources)
    /\ \A i \in DOMAIN client.allowedResources : ResourceUrl(client.allowedResources[i], production)

ParseClientJson(list, production) ==
    /\ list # NotJson
    /\ list # <<>>
    /\ \A i \in DOMAIN list : ParseClient(list[i], production)
    /\ Distinct([i \in DOMAIN list |-> list[i].clientId])

-----------------------------------------------------------------------------
(* The service.                                                            *)

HttpUrl(url, production) ==
    /\ url # Missing
    /\ url.scheme \in {"http", "https"}
    /\ url.parts = "none"
    /\ production => url.scheme = "https" /\ ~ IsNonPublicHostname(url.host)

NormalizeOrigin(url, production) ==
    /\ url.host # "*"
    /\ url.path = "/"
    /\ HttpUrl(url, production)

Buckets == {"oauth-authorize", "oauth-token", "oauth-userinfo", "mcp-tool", "mcp-resource"}

PoliciesValid(entries) ==
    /\ DOMAIN entries \subseteq Buckets
    /\ \A bucket \in DOMAIN entries : \A field \in DOMAIN entries[bucket] : entries[bucket][field] \in 1 .. MaxNumber

\* readRateLimitPolicies: what a bucket's entry leaves out has its default.
RateLimitPolicies(entries, defaults) ==
    [bucket \in Buckets |->
        IF bucket \in DOMAIN entries
        THEN [field \in DOMAIN defaults |->
                 IF field \in DOMAIN entries[bucket] THEN entries[bucket][field] ELSE defaults[field]]
        ELSE defaults]

UrlNames ==
    {"PUBLIC_ISSUER_URL", "MCP_RESOURCE_URL", "ACTIONS_AUDIENCE", "WIDGET_DOMAIN",
     "UPSTREAM_OIDC_ISSUER_URL", "UPSTREAM_OIDC_DISCOVERY_URL", "UPSTREAM_OIDC_AUTHORIZATION_URL",
     "UPSTREAM_OIDC_TOKEN_URL", "UPSTREAM_OIDC_USERINFO_URL", "UPSTREAM_OIDC_REDIRECT_URI"}
NumberNames ==
    {"ACCESS_TOKEN_TTL_SECONDS", "ID_TOKEN_TTL_SECONDS", "AUTHORIZATION_CODE_TTL_SECONDS",
     "REFRESH_TOKEN_TTL_SECONDS", "RATE_LIMIT_WINDOW_SECONDS", "RATE_LIMIT_MAX_REQUESTS",
     "MCP_LIST_PAGE_SIZE", "MCP_SSE_MAX_CONNECTIONS"}
TextNames == {"UPSTREAM_OIDC_CLIENT_ID", "UPSTREAM_OIDC_CLIENT_SECRET"}

\* Names with a default in production too.
Defaulted ==
    {"RATE_LIMIT_POLICIES_JSON", "UPSTREAM_OIDC_DISCOVERY_URL", "UPSTREAM_OIDC_SCOPES",
     "UPSTREAM_OIDC_TOKEN_AUTH_METHOD"}

\* The fallback of every name, given the issuers that some derive from.
Fallbacks(issuer, upstream) ==
    [PUBLIC_ISSUER_URL |-> Url("http", "localhost", "/"),
     MCP_RESOURCE_URL |-> [issuer EXCEPT !.path = "/mcp"],
     ACTIONS_AUDIENCE |-> [issuer EXCEPT !.path = "/actions"],
     WIDGET_DOMAIN |-> issuer,
     OAUTH_STORE_BACKEND |-> "file",
     OAUTH_DYNAMODB_TABLE_NAME |-> Missing, OAUTH_DYNAMODB_REGION |-> Missing,
     ALLOWED_ORIGINS |-> LocalOrigins,
     ACCESS_TOKEN_TTL_SECONDS |-> 900, ID_TOKEN_TTL_SECONDS |-> 300,
     AUTHORIZATION_CODE_TTL_SECONDS |-> 300, REFRESH_TOKEN_TTL_SECONDS |-> 2592000,
     RATE_LIMIT_WINDOW_SECONDS |-> 60, RATE_LIMIT_MAX_REQUESTS |-> 120,
     RATE_LIMIT_POLICIES_JSON |-> <<>>,
     MCP_LIST_PAGE_SIZE |-> 128, MCP_SSE_MAX_CONNECTIONS |-> 1024,
     UPSTREAM_OIDC_ISSUER_URL |-> Url("http", "loopback", "/"),
     UPSTREAM_OIDC_DISCOVERY_URL |-> [upstream EXCEPT !.path = <<@, "openid-configuration">>],
     UPSTREAM_OIDC_AUTHORIZATION_URL |-> Url("http", "loopback", "/oauth2/authorize"),
     UPSTREAM_OIDC_TOKEN_URL |-> Url("http", "loopback", "/oauth2/token"),
     UPSTREAM_OIDC_USERINFO_URL |-> Url("http", "loopback", "/oauth2/userInfo"),
     UPSTREAM_OIDC_CLIENT_ID |-> "ok", UPSTREAM_OIDC_CLIENT_SECRET |-> "ok",
     UPSTREAM_OIDC_REDIRECT_URI |-> [issuer EXCEPT !.path = "/oauth/callback"],
     UPSTREAM_OIDC_SCOPES |-> {"openid", "profile", "email"},
     UPSTREAM_OIDC_TOKEN_AUTH_METHOD |-> "client_secret_post"]

LocalIssuer == Url("http", "localhost", "/")
LocalUpstream == Url("http", "loopback", "/")

Given(env, name, fallback) == IF name \in DOMAIN env THEN env[name] ELSE fallback

\* The values readConfig works with; URLs are in normal form.
Settings(env, production) ==
    LET fallbacks == Fallbacks(Normal(Given(env, "PUBLIC_ISSUER_URL", LocalIssuer)),
                               Normal(Given(env, "UPSTREAM_OIDC_ISSUER_URL", LocalUpstream)))
        value(name) == Given(env, name,
                             IF production /\ name \notin Defaulted THEN Missing ELSE fallbacks[name])
    IN  [name \in DOMAIN fallbacks |->
            IF name \in UrlNames /\ value(name) # Missing THEN Normal(value(name)) ELSE value(name)]

StoreConfig(s, production) ==
    \/ s.OAUTH_STORE_BACKEND = "file" /\ ~ production
    \/ /\ s.OAUTH_STORE_BACKEND = "dynamodb"
       /\ s.OAUTH_DYNAMODB_TABLE_NAME = "ok"
       /\ s.OAUTH_DYNAMODB_REGION = "ok"

PositiveNumber(value, max) == value # Missing /\ value \in 1 .. max

\* readConfig does not throw.
ReadConfig(s, production) ==
    /\ \A name \in UrlNames : HttpUrl(s[name], production)
    /\ s.PUBLIC_ISSUER_URL.path = "/"
    /\ s.MCP_RESOURCE_URL.path = "/mcp"
    /\ s.WIDGET_DOMAIN.path = "/"
    /\ StoreConfig(s, production)
    /\ s.ALLOWED_ORIGINS \notin {Missing, {}}
    /\ \A origin \in s.ALLOWED_ORIGINS : NormalizeOrigin(origin, production)
    /\ \A name \in NumberNames \ {"MCP_LIST_PAGE_SIZE"} : PositiveNumber(s[name], MaxNumber)
    /\ PositiveNumber(s.MCP_LIST_PAGE_SIZE, 256)
    /\ PoliciesValid(s.RATE_LIMIT_POLICIES_JSON)
    /\ \A name \in TextNames : s[name] = "ok"
    /\ "openid" \in s.UPSTREAM_OIDC_SCOPES
    /\ s.UPSTREAM_OIDC_TOKEN_AUTH_METHOD \in {"client_secret_post", "client_secret_basic"}

LocalClients(s) ==
    LET option(id, redirectUris) == [id |-> id, name |-> "plain", redirectUris |-> redirectUris]
    IN  <<Client(option("local-test", <<Url("http", "localhost", "/test/callback")>>),
                 <<s.ACTIONS_AUDIENCE, s.MCP_RESOURCE_URL>>, "optional", "local-test"),
          Client(option("gpt-actions", <<Https("public", "/a"), Https("other", "/a")>>),
                 <<s.ACTIONS_AUDIENCE>>, "optional", "gpt-actions"),
          Client(option("gpt-apps-mcp", <<Https("other", "/b"), Https("other", "/c")>>),
                 <<s.MCP_RESOURCE_URL>>, "required", "gpt-apps-mcp")>>

\* validateStartup: the configuration and the clients, unless one is refused.
ValidateStartup(env, production) ==
    LET s == Settings(env, production)
        list == Given(env, "OAUTH_CLIENTS_JSON", Missing)
    IN  IF /\ ReadConfig(s, production)
           /\ IF list = Missing THEN ~ production ELSE ParseClientJson(list, production)
        THEN [started |-> TRUE, config |-> s,
              clients |-> IF list = Missing THEN LocalClients(s) ELSE list,
              policies |-> RateLimitPolicies(s.RATE_LIMIT_POLICIES_JSON,
                              [windowSeconds |-> s.RATE_LIMIT_WINDOW_SECONDS,
                               maxRequests |-> s.RATE_LIMIT_MAX_REQUESTS])]
        ELSE [started |-> FALSE]

\* fetchUpstreamProviderMetadata compares the document with the configuration
\* as texts.
FetchUpstreamProviderMetadata(s, document) ==
    /\ document.issuerUrl = s.UPSTREAM_OIDC_ISSUER_URL
    /\ document.authorizationUrl = s.UPSTREAM_OIDC_AUTHORIZATION_URL
    /\ document.tokenUrl = s.UPSTREAM_OIDC_TOKEN_URL
    /\ document.userinfoUrl = s.UPSTREAM_OIDC_USERINFO_URL

-----------------------------------------------------------------------------
(* The operator's commands.                                                *)

\* Good inputs, and inputs that differ from good ones in one value.
GoodInputs ==
    {[names |-> "ok", domainName |-> domain, mode |-> mode, widgetDomain |-> Missing, allowedOrigins |-> Missing,
      issuerUrl |-> Https("idp", "/"), discoveryUrl |-> Missing, authorizationUrl |-> Https("idp", "/authorize"),
      tokenUrl |-> Https("idp", "/token"), userinfoUrl |-> Https("idp", "/userinfo"),
      scopes |-> Missing, tokenAuthMethod |-> Missing] :
        domain \in {"public", "other"}, mode \in {"external", "cognito"}}

SomeUrls(path) ==
    {Url(scheme, host, path) : scheme \in {"http", "https"},
                               host \in {"public", "localhost", "sub.localhost", "loopback", "privateIp", "*"}}
      \cup {[Https("idp", path) EXCEPT !.slash = TRUE]}
      \cup {[Https("idp", path) EXCEPT !.parts = parts] : parts \in {"query", "other"}}

Inputs ==
    LET good == CHOOSE in \in GoodInputs : in.domainName = "public" /\ in.mode = "external"
        differing(name, values) == {[good EXCEPT ![name] = value] : value \in values}
    IN  GoodInputs
          \cup differing("domainName", {"localhost", "sub.localhost", "privateIp"})
          \cup differing("names", {"bad"})
          \cup differing("mode", {"other"})
          \cup (UNION {differing(name, SomeUrls("/x")) : name \in Endpoints \cup {"discoveryUrl"}})
          \cup differing("widgetDomain", SomeUrls("/") \cup SomeUrls("/x"))
          \cup differing("allowedOrigins", {{}} \cup {{url} : url \in SomeUrls("/") \cup SomeUrls("/x")})
          \cup differing("scopes", {{"openid"}, {"profile"}, {"openid", "?"}})
          \cup differing("tokenAuthMethod", {"client_secret_basic", "none"})

\* Options that differ from good ones in one value.
GoodOptions ==
    [actions |-> [id |-> "a", name |-> "plain", redirectUris |-> <<Https("other", "/a")>>],
     mcp |-> [id |-> "m", name |-> "plain", redirectUris |-> <<Https("other", "/b"), Https("public", "/b")>>]]

Options ==
    {GoodOptions}
      \cup {[GoodOptions EXCEPT !.actions.id = id] : id \in {"m", "bad"}}
      \cup {[GoodOptions EXCEPT !.actions.name = name] : name \in {"quoted", "bad"}}
      \cup {[GoodOptions EXCEPT !.actions.redirectUris = uris] :
             uris \in {<<>>, <<Https("other", "/a"), Https("other", "/a")>>} \cup {<<url>> : url \in SomeUrls("/a")}}

\* Anything an operator may type.
AnyInputs ==
    [names : Texts, domainName : Texts, mode : Texts,
     widgetDomain : TypedUrl \cup {Missing}, allowedOrigins : (SUBSET TypedUrl) \cup {Missing},
     issuerUrl : TypedUrl, discoveryUrl : TypedUrl \cup {Missing}, authorizationUrl : TypedUrl,
     tokenUrl : TypedUrl, userinfoUrl : TypedUrl,
     scopes : (SUBSET Texts) \cup {Missing}, tokenAuthMethod : Texts \cup {Missing}]

ClientOption == [id : Texts, name : Texts, redirectUris : Seq(TypedUrl)]
AnyOptions == [actions : ClientOption, mcp : ClientOption]

\* OAUTH_CLIENTS_JSON, as the seed command may write it.
Registries ==
    Seq([clientId : Texts, displayName : Texts, redirectUris : Seq(TypedUrl),
         allowedScopes : SUBSET Texts, allowedResources : Seq(TypedUrl),
         tokenEndpointAuthMethod : Texts, pkcePolicy : Texts, clientClass : Texts])

\* The texts that the program itself writes, and those of the inputs above.
ASSUME TextsAssumption ==
    /\ {"http", "https", "none", "query", "other", "public", "idp", "localhost", "sub.localhost",
        "loopback", "privateIp", "*", "openid-configuration"} \subseteq Texts
    /\ {"/", "/mcp", "/actions", "/pool", "/oauth2/authorize", "/oauth2/token", "/oauth2/userInfo",
        "/oauth/callback", "/test/callback", "/a", "/b", "/c", "/x", "/authorize", "/token",
        "/userinfo"} \subseteq Texts
    /\ {"ok", "bad", "plain", "quoted", "external", "cognito", "client_secret_post", "client_secret_basic",
        "openid", "profile", "email", "?", "optional", "required", "gpt-actions", "gpt-apps-mcp",
        "local-test", "a", "m"} \subseteq Texts

\* What is not given is no value, and what is no JSON is no registry.
ASSUME MissingAssumption ==
    /\ Missing \notin AnyUrl
    /\ Missing \notin {ChatGptOrigins, LocalOrigins}
    /\ Missing \notin Nat
    /\ Missing \notin Registries
    /\ NotJson \notin Registries
    /\ NotJson # Missing

ConfigInit ==
    /\ inputs = Missing /\ stack = Missing /\ clients = Missing /\ options = Missing
    /\ service = Missing
    /\ done = "nothing"
    /\ deploys = 0

Deploy(in) ==
    /\ deploys < MaxDeploys
    /\ done # "local"
    /\ DeploymentConfig(in)
    /\ inputs' = in
    /\ stack' = EnvironmentParameters(in)
    /\ done' = "deployed"
    /\ deploys' = deploys + 1
    /\ UNCHANGED <<clients, options, service>>

Seed(o) ==
    /\ stack # Missing
    /\ RuntimeParameterOptions(o)
    /\ options' = o
    /\ clients' = SeededClients(o, stack)
    /\ done' = "seeded"
    /\ UNCHANGED <<inputs, stack, service, deploys>>

\* run.sh and the start of the service, with whatever is stored.
Restart ==
    /\ stack # Missing
    /\ service' = ValidateStartup(IF clients = Missing THEN stack ELSE EnvironmentFile(stack, clients), TRUE)
    /\ done' = IF done = "seeded" THEN "restarted" ELSE done
    /\ UNCHANGED <<inputs, stack, clients, options, deploys>>

\* A developer starts the service with an environment of its own.
StartLocally ==
    /\ done \in {"nothing", "local"}
    /\ \E env \in {<<>>, [OAUTH_STORE_BACKEND |-> "file"], [PUBLIC_ISSUER_URL |-> Url("http", "loopback", "/")],
                   [UPSTREAM_OIDC_ISSUER_URL |-> Https("idp", "/")],
                   [RATE_LIMIT_POLICIES_JSON |-> [bucket \in {"mcp-tool"} |-> [maxRequests |-> 5]]]} :
         service' = ValidateStartup(env, FALSE)
    /\ done' = "local"
    /\ UNCHANGED <<inputs, stack, clients, options, deploys>>

\* One value at a time differs from good inputs and options.
ConfigNext ==
    \/ \E in \in IF deploys = 0 THEN Inputs ELSE GoodInputs : Deploy(in)
    \/ \E o \in IF inputs \in GoodInputs /\ deploys = 1 THEN Options ELSE {GoodOptions} : Seed(o)
    \/ Restart
    \/ StartLocally

ConfigSpec == ConfigInit /\ [][ConfigNext]_configVars

\* The same with any inputs and options, for the proofs.
OperatorNext ==
    \/ \E in \in AnyInputs : Deploy(in)
    \/ \E o \in AnyOptions : Seed(o)
    \/ Restart
    \/ StartLocally

OperatorSpec == ConfigInit /\ [][OperatorNext]_configVars

-----------------------------------------------------------------------------
(* Properties.                                                             *)

Public(url) == url.scheme = "https" /\ url.host \in {"public", "other", "idp"} /\ url.parts = "none"

\* What the documents ask of the inputs and options: URLs with public host
\* names, origins that are origins, callback URLs that are used once each and
\* two client IDs.
RightInputs(in) ==
    /\ in.domainName \in {"public", "other"}
    /\ in.mode = "external" =>
         /\ \A name \in Endpoints : Public(in[name])
         /\ in.discoveryUrl # Missing => Public(in.discoveryUrl)
    /\ in.widgetDomain # Missing => Public(in.widgetDomain)
    /\ in.allowedOrigins # Missing =>
         /\ in.allowedOrigins # {}
         /\ \A url \in in.allowedOrigins :
              /\ url.scheme \in {"http", "https"} /\ url.host # "*"
              /\ url.path = "/" /\ url.parts = "none"

RightOptions(o) ==
    /\ o.actions.id # o.mcp.id
    /\ \A client \in {o.actions, o.mcp} :
         /\ Distinct(client.redirectUris)
         /\ \A i \in DOMAIN client.redirectUris :
              client.redirectUris[i] \in {Url("http", "localhost", "/a"), Url("http", "loopback", "/a")}
                \/ Public([client.redirectUris[i] EXCEPT !.parts = IF @ = "query" THEN "none" ELSE @])

\* What the program asks besides, and no document does: display names without
\* quotation marks, which run.sh passes on damaged; origins of the deployed
\* host that are public; and endpoints without a final slash, as readConfig
\* drops it from what the provider's document is compared with.
PlainNames(o) == \A client \in {o.actions, o.mcp} : client.name # "quoted"

PublicOrigins(in) ==
    in.allowedOrigins # Missing =>
        \A url \in in.allowedOrigins : url.scheme = "https" /\ ~ IsNonPublicHostname(url.host)

NoFinalSlash(in) == in.mode = "external" => \A name \in Endpoints : ~ in[name].slash

\* The discovery document of the provider the operator has named, with the
\* URLs as the operator has read them there.
Publishes(in) ==
    IF in.mode = "external" THEN [name \in Endpoints |-> in[name]] ELSE IdentityProvider(in)

\* A running service can serve what it was configured for: every client may
\* ask for its resources only at audiences of the service, each audience has
\* a client, and the provider returns to the callback of this service.
Usable(s) ==
    LET audiences == {s.config.ACTIONS_AUDIENCE, s.config.MCP_RESOURCE_URL}
        resources == UNION {{c.allowedResources[i] : i \in DOMAIN c.allowedResources} :
                            c \in {s.clients[i] : i \in DOMAIN s.clients}}
    IN  /\ Cardinality(audiences) = 2
        /\ resources = audiences
        /\ s.config.UPSTREAM_OIDC_REDIRECT_URI = [s.config.PUBLIC_ISSUER_URL EXCEPT !.path = "/oauth/callback"]

\* Deploy, seed, restart, with inputs and options as the documents ask for
\* them, also after an earlier deployment with other inputs: the service starts
\* unless a display name has a quotation mark or an origin is not public; its
\* clients can then get tokens for its audiences, and it accepts the provider's
\* document unless the operator typed an endpoint with a final slash.  A service
\* started without any configuration starts and is usable.
ConfigurationCarries ==
    /\ (done = "restarted" /\ RightInputs(inputs) /\ RightOptions(options)) =>
         /\ service.started <=> PlainNames(options) /\ PublicOrigins(inputs)
         /\ service.started =>
              /\ Usable(service)
              /\ FetchUpstreamProviderMetadata(service.config, Publishes(inputs)) <=> NoFinalSlash(inputs)
    /\ done = "local" => service.started /\ Usable(service)
=============================================================================
