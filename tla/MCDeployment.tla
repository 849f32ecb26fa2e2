---------------------------- MODULE MCDeployment ----------------------------
(* A bounded instance of Deployment, and one of Configuration: a behaviour  *)
(* takes the steps of the one or of the other.                              *)
EXTENDS Deployment, Configuration, TLC

MCTexts ==
    {"http", "https", "none", "query", "other", "public", "idp", "localhost", "sub.localhost",
     "loopback", "privateIp", "*", "openid-configuration", "/", "/mcp", "/actions", "/pool",
     "/oauth2/authorize", "/oauth2/token", "/oauth2/userInfo", "/oauth/callback", "/test/callback",
     "/a", "/b", "/c", "/x", "/authorize", "/token", "/userinfo", "ok", "bad", "plain", "quoted",
     "external", "cognito", "client_secret_post", "client_secret_basic", "openid", "profile",
     "email", "?", "optional", "required", "gpt-actions", "gpt-apps-mcp", "local-test", "a", "m"}

configured == stack # Missing \/ service # Missing

MCInit == Init /\ ConfigInit

MCNext ==
    \/ ~ configured /\ Next /\ UNCHANGED configVars
    \/ /\ mode = [loading |-> "file", upstream |-> "external"]
       /\ param = NoParameters /\ seed = SeedIdle /\ host = HostIdle
       /\ keyFile = Absent /\ container = Absent /\ now = 0
       /\ ConfigNext
       /\ UNCHANGED vars

MCSpec == MCInit /\ [][MCNext]_<<vars, configVars>>

Symmetry == Permutations(Keys) \cup Permutations(Secrets) \cup Permutations(Registrations)

\* Nothing more is looked at once a seed command and a rotation have overlapped.
\* The key file makes for many states: one rotation there, and none where only
\* the upstream secret comes from elsewhere.
Bound ==
    /\ ~ overlap
    /\ mode.loading = "file" => rotations <= 1
    /\ mode.upstream = "cognito" => rotations = 0
=============================================================================
