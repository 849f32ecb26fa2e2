SPECIFICATION MCSpec
CONSTANTS
    Keys = {k1, k2, k3}
    Secrets = {s1, s2, s3}
    Absent = Absent
    Loadings = {"file"}
    Registrations = {r1}
    UpstreamModes = {"external"}
    PullMayFail = FALSE
    Ttl = 2
    MaxTime = 1
    MaxTokens = 1
    MaxRotations = 1
    Missing = Missing
    NotJson = NotJson
    Texts <- MCTexts
    MaxNumber = 2592000
    MaxDeploys = 0
SYMMETRY Symmetry
INVARIANT
    PreviousTokensVerify
