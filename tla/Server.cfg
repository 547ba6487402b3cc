\* Two connections, and requests for every way through the router, the admin
\* handlers and the gates of evaluate.
SPECIFICATION FairSpec
CONSTANTS
    Connections = {h1, h2}
    Calls <- AllCalls
    Files <- AllFiles
    Sha256 <- Hashes
    Local = "local"
    Clients = {"alice", "bob"}
    BodyLimit = 2048
    NoCall = NoCall
    NoAnswer = NoAnswer
    MaxRecent = 3
INVARIANTS
    TypeOK
    
    UpstreamWithinLimit
    CleanNeverScored
    HeadersEnforced
PROPERTIES
    TablesGuarded
    EveryCallSettled
