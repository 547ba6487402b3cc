\* The allowlist on, and a request with a query and one without.
SPECIFICATION Spec
CONSTANTS
    Connections = {h1}
    Calls <- QueryCalls
    Files <- StrictFiles
    Sha256 <- Hashes
    Local = "local"
    Clients = {"alice", "bob"}
    BodyLimit = 2048
    NoCall = NoCall
    NoAnswer = NoAnswer
    MaxRecent = 3
INVARIANT AskedAsAllowed
