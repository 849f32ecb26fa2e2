SPECIFICATION MCSpec
CONSTANTS
    Keys = {k1, k2, k3}
    Secrets = {s1, s2}
    Absent = Absent
    Loadings = {"file", "direct"}
    Registrations = {r1, r2}
    UpstreamModes = {"external", "cognito"}
    PullMayFail = TRUE
    Ttl = 1
    MaxTime = 2
    MaxTokens = 1
    MaxRotations = 2
    Missing = Missing
    NotJson = NotJson
    Texts <- MCTexts
    MaxNumber = 2592000
    MaxDeploys = 2
SYMMETRY Symmetry
CONSTRAINT Bound
INVARIANTS
    KidNamesOneKey
    TokensHonoured
    SecretsMatchRegistry
    ChallengeSuffices
    ConfigurationCarries
PROPERTY
    SeedKeepsSecrets
