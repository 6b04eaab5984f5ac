SPECIFICATION SubmitSpec
CONSTANTS
    a = a
    b = b
    c = c
    d1 = d1
    d2 = d2
    None = None
    File <- MCFile
    Facts <- MCFacts
    Remote <- MCRemote
    Threshold = 1
    MaxTyped = 1
    MaxReads = 2
    MaxSubmits = 2
    Request <- MCRequest
    Nesting <- MCNesting
    MaxNesting = 2
    Id = {1, 2}
    LimitSync = 2
    Null = Null
    LimitAsync = 3
    SsoUser = {"ann"}
    LocalUser = {"bob"}
    Slot = {d1, d2}
    MaxLogins = 1
    MaxTokens = 2
    Rotates = TRUE
    Email = {"ann"}
    Password = {"p1", "p2"}
    Weak = "weak"
    Doc = {d1, d2}
    Pages = {"register", "verify", "login", "forgot", "reset", "submit", "delete"}
    MaxAttempts = 2
    MaxIds = 2
    MaxLinks = 2
    MaxVisits = 4
SYMMETRY Alike
INVARIANT SubmissionSafe
INVARIANT ChecksAreSound
INVARIANT SsoInv
PROPERTY AccountsSafe
CHECK_DEADLOCK FALSE
