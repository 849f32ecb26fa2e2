CONSTANTS
    c1 = c1
    c2 = c2
    r1 = r1
    r2 = r2
    actions = actions
    mcp = mcp
    openid = openid
    email = email
    Login = {l1, l2}
    Client = {c1, c2}
    User = {u1, u2}
    Code = {k1, k2}
    UpstreamCode = {uc1, uc2}
    RedirectUri = {r1, r2}
    Resource = {actions, mcp}
    Scope = {openid, email}
    Worker = {w1, w2}
    Registration <- MCRegistration
    None = None
    CodeTtl = 1
    MaxDelay = 1
    MaxClock = 2
SPECIFICATION Spec
SYMMETRY Symmetry
INVARIANTS
    CodeOnce
    LoginOnce
    GrantIsBound
    RequiredProof
    SpentCodesAccountedFor
CHECK_DEADLOCK FALSE
