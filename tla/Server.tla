-------------------------------- MODULE Server --------------------------------
(* The server of waf-cli/src/main.rs: routing, the admin handlers, the proxy   *)
(* around GargouilleWaf::evaluate, the upstream, and the start from a file.    *)
(*                                                                             *)
(* A connection is served by a task of its own.  evaluate is one step here:    *)
(* how the evaluations of several workers interleave is WafPipeline's, with    *)
(* the counters, the endpoint limits and the audit log.  What is kept of it is *)
(* the order of its gates, what they leave behind, and that it never returns   *)
(* for a listed client when the audit log is on (waf.rs:131-141), which leaves *)
(* the database mutex locked.                                                  *)
(*                                                                             *)
(* LimitedLate, HeaderPresent, SetIfAbsent and HangsWithoutLog are wrong       *)
(* versions of the definitions that follow them.                               *)
EXTENDS AdminAuth, Allowlist, FiniteSets

CONSTANTS
    Connections,
    Calls,          \* the requests that clients send
    Files,          \* the configuration files the server may be started with
    Local,          \* 127.0.0.1
    Clients,        \* the addresses of the clients; no other is used
    BodyLimit,      \* axum's limit on the bodies it extracts
    NoCall, NoAnswer,
    MaxRecent       \* bound on the requests in a window

IPs == {Local} \cup Clients

ASSUME FileAssumption    ==
    \A f \in Files :
       /\ WellTyped(f)
       /\ ToSet(Entry(f.keys, "allowlist", "allowed_paths", <<>>)) \subseteq Seq(STRING)
ASSUME CallAssumption    ==
    \A c \in Calls : /\ c.hits \in Nat /\ c.confidence \in Nat /\ c.size \in Nat
                     /\ c.path \in Seq(STRING) /\ ~HasPiece(c.path, {"?", "#"})
ASSUME BoundAssumption   == MaxRecent \in Nat /\ BodyLimit \in Nat

VARIABLES
    file,       \* what the process was started with
    conf,       \* the configuration it made of that
    db_open,    \* is there a database?
    stage,      \* connection -> the handler that has its request, or what became of it
    call,       \* connection -> the request
    answer,     \* connection -> the response
    window,     \* address -> how many requests the limiter still counts for it
    forwarded,  \* address -> how many of these went upstream
    blocklist,  \* address -> "none", "active" or "expired" row
    whitelist,  \* the addresses with a row
    mutexHeld   \* is the database mutex locked for ever?

connectionVars == <<stage, call, answer>>
processVars    == <<file, conf, db_open>>
limiterVars    == <<window, forwarded>>
tableVars      == <<blocklist, whitelist>>
vars == <<connectionVars, processVars, limiterVars, tableVars, mutexHeld>>

Limit == conf.rate_limiting.requests_per_window + conf.rate_limiting.burst_allowance

\* The address evaluate is told, whoever sent the request.
Peer(c) == Local

Commands == {"block", "unblock", "whitelist"}
Queries  == {"status", "metrics"}

\* <prefix>block/{ip} and so on, with no slash after the prefix, and {ip} one
\* segment of the path; everything else falls through to the proxy.
Route(c) ==
    LET prefix == PathPrefix(conf)
        rest   == SubSeq(c.path, Len(prefix) + 1, Len(c.path))
    IN  IF ~IsPrefix(prefix, c.path) THEN "proxy"
        ELSE CASE \E q \in Queries : rest = <<q>> -> rest[1]
               [] /\ Len(rest) = 3 /\ rest[1] \in Commands
                  /\ rest[2] = "/" /\ rest[3] # "/"  -> rest[1]
               [] OTHER                              -> "proxy"

\* What axum answers itself: no handler for the method, a body that is too large
\* to be extracted or that is not the UTF-8 a String takes.
Rejection(c) ==
    IF c.method \notin (CASE Route(c) = "proxy"      -> {"GET", "HEAD", "POST"}
                          [] Route(c) \in Commands -> {"POST"}
                          [] Route(c) \in Queries  -> {"GET", "HEAD"}) THEN 405
    ELSE IF Route(c) \notin Queries /\ c.size > BodyLimit              THEN 413
    ELSE IF Route(c) \in Commands /\ c.body = "bytes"                  THEN 400
    ELSE 0

\* Who answers: axum itself, or one of the handlers.
Handlers    == Commands \cup Queries \cup {"axum", "proxy"}
Dispatch(c) == IF Rejection(c) # 0 THEN "axum" ELSE Route(c)

(***************************** responses ***************************************)

HeaderNames == Keys("response_headers")
Absent      == "absent"
NoHeaders   == [name \in HeaderNames |-> Absent]

\* from_str takes no control characters; only HSTS may be configured away.
Settable(name) == /\ conf.response_headers[name] # "control"
                  /\ name = "strict_transport_security" =>
                        conf.response_headers[name] # ""

SetIfAbsent(headers, name) == Settable(name) /\ headers[name] = Absent
Sets(headers, name)        == Settable(name)

\* apply_security_headers: insert replaces what the upstream sent.
Secured(headers) ==
    [name \in HeaderNames |->
       IF Sets(headers, name) THEN conf.response_headers[name] ELSE headers[name]]

Response(status, cause, headers) == [status |-> status, cause |-> cause,
                                     headers |-> headers]

Respond(h, response) == /\ stage' = [stage EXCEPT ![h] = "answered"]
                        /\ answer' = [answer EXCEPT ![h] = response]
                        /\ UNCHANGED call

Hang(h) == stage' = [stage EXCEPT ![h] = "hung"] /\ UNCHANGED <<call, answer>>

(***************************** connections *************************************)

\* load() and then sanitize().
Configuration == [f \in Files |-> Sanitize(Load(f))]

Opens(c) == IF c.blocklist.enabled /\ c.blocklist.database_path # "" THEN BOOLEAN
            ELSE {FALSE}

Init == /\ file \in Files
        /\ conf = Configuration[file]
        /\ db_open \in Opens(conf)
        /\ stage = [h \in Connections |-> "idle"]
        /\ call = [h \in Connections |-> NoCall]
        /\ answer = [h \in Connections |-> NoAnswer]
        /\ window = [ip \in IPs |-> 0]
        /\ forwarded = [ip \in IPs |-> 0]
        /\ blocklist = [ip \in IPs |-> "none"]
        /\ whitelist = {}
        /\ mutexHeld = FALSE

Received(ip) == {h \in Connections : stage[h] \in Handlers /\ Peer(call[h]) = ip}

Receive(h, c) ==
    /\ stage[h] = "idle"
    /\ window[Peer(c)] + Cardinality(Received(Peer(c))) < MaxRecent
    /\ stage' = [stage EXCEPT ![h] = Dispatch(c)]
    /\ call' = [call EXCEPT ![h] = c]
    /\ UNCHANGED <<answer, processVars, limiterVars, tableVars, mutexHeld>>

Reject(h) ==
    /\ stage[h] = "axum"
    /\ Respond(h, Response(Rejection(call[h]), "rejected", NoHeaders))
    /\ UNCHANGED <<processVars, limiterVars, tableVars, mutexHeld>>

\* The response has been sent, or the client has left while its handler awaited
\* the upstream, which drops the handler.
Close(h) ==
    /\ stage[h] \in {"answered", "forwarded"}
    /\ stage' = [stage EXCEPT ![h] = "idle"]
    /\ call' = [call EXCEPT ![h] = NoCall]
    /\ answer' = [answer EXCEPT ![h] = NoAnswer]
    /\ UNCHANGED <<processVars, limiterVars, tableVars, mutexHeld>>

(***************************** admin handlers **********************************)

\* The handlers build a path of their own, without the prefix and with the body
\* of the request where {ip} stands.
Asks(c, command) == IF command \in Queries THEN <<"/", command>>
                    ELSE <<"/", command, "/", c.body>>

HeaderPresent(c, command) == c.token # NoToken
Granted(c, command) == Authenticate(conf, c.token, Asks(c, command)).authorized

Insert(ip) == [blocklist EXCEPT ![ip] = IF @ = "none" THEN "active" ELSE @]

\* What the statement of a command makes of the tables if it succeeds.
Executed(command, ip) ==
    CASE command = "block"     -> <<Insert(ip), whitelist>>
      [] command = "unblock"   -> <<[blocklist EXCEPT ![ip] = "none"], whitelist>>
      [] command = "whitelist" -> <<blocklist, whitelist \cup {ip}>>

\* block_admin_handler, unblock_admin_handler and whitelist_admin_handler.  What
\* the statement returned is not looked at, and refusals carry no headers.
AdminCommand(h, command) ==
    LET c  == call[h]
        ip == c.body
    IN  /\ stage[h] = command
        /\ IF ~Granted(c, command) THEN
             /\ Respond(h, Response(401, "unauthorized", NoHeaders))
             /\ UNCHANGED tableVars
           ELSE IF ip \notin IPs THEN   \* validate_ip
             /\ Respond(h, Response(400, "invalid_ip", NoHeaders))
             /\ UNCHANGED tableVars
           ELSE IF mutexHeld THEN
             /\ Hang(h)
             /\ UNCHANGED tableVars
           ELSE
             /\ Respond(h, Response(200, "done", Secured(NoHeaders)))
             /\ \E tables \in {tableVars} \cup IF db_open THEN {Executed(command, ip)}
                                                 ELSE {} :
                   blocklist' = tables[1] /\ whitelist' = tables[2]
        /\ UNCHANGED <<processVars, limiterVars, mutexHeld>>

\* status_handler and metrics_handler, which only read.
AdminQuery(h, query) ==
    /\ stage[h] = query
    /\ Respond(h, IF Granted(call[h], query)
                  THEN Response(200, "done", Secured(NoHeaders))
                  ELSE Response(401, "unauthorized", NoHeaders))
    /\ UNCHANGED <<processVars, limiterVars, tableVars, mutexHeld>>

(***************************** proxy_handler ***********************************)

Uri(c) == IF c.query THEN c.path \o <<"?", "query">> ELSE c.path

Allowed(c) == CheckPath(conf.allowlist.allowed,
                        ValidateAllowedPaths(conf.allowlist.allowed_paths), Uri(c))
LimitedLate(c) == conf.rate_limiting.enabled /\ window[Peer(c)] > Limit
Limited(c)     == conf.rate_limiting.enabled /\ window[Peer(c)] + 1 > Limit
Listed(c)  == conf.blocklist.enabled /\ db_open /\ blocklist[Peer(c)] = "active"

\* A call's evidence is `hits' matches of SQL injection, one of which has its
\* confidence.  Scoring has what evidence in several categories amounts to.
Score(c) == WithinBounds(c.hits * conf.scoring.sql_injection_weight, 0, 100)

Exceeds(c) == Score(c) >= conf.scoring.threat_threshold
Certain(c) == c.hits > 0 /\ c.confidence >= conf.scoring.high_confidence_threshold

\* The gate at which evaluate leaves.  The lookup may fail, and finds nothing
\* then.  The body size is checked before evaluate, with the same limit.
Gate(c, found) ==
    IF ~Allowed(c)       THEN "AllowlistDenied"
    ELSE IF Limited(c)   THEN "RateLimited"
    ELSE IF found        THEN "IpBlocklisted"
    ELSE IF Exceeds(c)   THEN "ThreatScoreExceeded"
    ELSE IF Certain(c)   THEN "DirectBlock"
    ELSE "Pass"

Oversized(c) == conf.waf.max_body_size > 0 /\ c.size > conf.waf.max_body_size

RejectOversized(h) ==
    /\ stage[h] = "proxy" /\ Oversized(call[h])
    /\ Respond(h, Response(403, "oversized", Secured(NoHeaders)))
    /\ UNCHANGED <<processVars, limiterVars, tableVars, mutexHeld>>

\* Does evaluate lock the database mutex, and does it do so twice?
Audits(gate)   == gate # "Pass" /\ conf.logging.log_blocked
LooksUp(gate)  == conf.blocklist.enabled /\ gate \notin {"AllowlistDenied", "RateLimited"}
HangsWithoutLog(gate) == gate = "IpBlocklisted"
LocksTwice(gate) == gate = "IpBlocklisted" /\ Audits(gate)

Record(c, gate) ==
    /\ window' = [window EXCEPT ![Peer(c)] =
                    IF conf.rate_limiting.enabled /\ gate # "AllowlistDenied"
                    THEN @ + 1 ELSE @]
    /\ forwarded' = [forwarded EXCEPT ![Peer(c)] =
                       IF conf.rate_limiting.enabled /\ gate = "Pass"
                       THEN @ + 1 ELSE @]

AutoBlocks(gate) == gate = "ThreatScoreExceeded" /\ conf.block.auto_unblock /\ db_open

Status(gate) == IF gate = "RateLimited" THEN 429 ELSE 403

Evaluate(h, found) ==
    LET c    == call[h]
        gate == Gate(c, found)
    IN  /\ stage[h] = "proxy" /\ ~Oversized(c)
        /\ found => Listed(c)
        /\ IF mutexHeld /\ (Audits(gate) \/ LooksUp(gate)) THEN
             /\ Hang(h)
             /\ Record(c, IF gate = "Pass" THEN "hung" ELSE gate)
             /\ UNCHANGED <<blocklist, mutexHeld>>
           ELSE IF LocksTwice(gate) THEN
             /\ Hang(h)
             /\ Record(c, gate)
             /\ mutexHeld' = TRUE
             /\ UNCHANGED blocklist
           ELSE
             /\ IF gate = "Pass"
                THEN stage' = [stage EXCEPT ![h] = "forwarded"] /\ UNCHANGED <<call, answer>>
                ELSE Respond(h, Response(Status(gate), gate, Secured(NoHeaders)))
             /\ Record(c, gate)
             /\ blocklist' \in {blocklist} \cup IF AutoBlocks(gate) THEN {Insert(Peer(c))}
                                                ELSE {}
             /\ UNCHANGED mutexHeld
        /\ UNCHANGED <<processVars, whitelist>>

\* The path the upstream is asked for: the URL is built from the query alone when
\* there is one.
UpstreamPath(c) == IF c.query THEN <<"/">> ELSE c.path

\* The upstream answers, perhaps with such headers of its own.  200 stands for
\* its status.
Relay(h, value) ==
    /\ stage[h] = "forwarded"
    /\ Respond(h, Response(200, "relayed", Secured([name \in HeaderNames |-> value])))
    /\ UNCHANGED <<processVars, limiterVars, tableVars, mutexHeld>>

\* It refuses the connection, or breaks it while its response is read.
UpstreamFails(h) ==
    /\ stage[h] = "forwarded"
    /\ Respond(h, Response(502, "bad_gateway", Secured(NoHeaders)))
    /\ UNCHANGED <<processVars, limiterVars, tableVars, mutexHeld>>

(***************************** time and restarts *******************************)

\* A request leaves its window, one that was forwarded or another.
Elapse(ip, d) ==
    /\ window[ip] > 0
    /\ forwarded[ip] - d \in 0..(window[ip] - 1)
    /\ window' = [window EXCEPT ![ip] = @ - 1]
    /\ forwarded' = [forwarded EXCEPT ![ip] = @ - d]
    /\ UNCHANGED <<processVars, connectionVars, tableVars, mutexHeld>>

\* Rows are always inserted with auto_unblock, and stay when they have expired.
BlockExpires(ip) ==
    /\ blocklist[ip] = "active"
    /\ blocklist' = [blocklist EXCEPT ![ip] = "expired"]
    /\ UNCHANGED <<processVars, connectionVars, limiterVars, whitelist, mutexHeld>>

\* The process is stopped and started again, with another file perhaps.
Serve(f) ==
    /\ file' = f
    /\ conf' = Configuration[f]
    /\ db_open' \in Opens(conf')
    /\ stage' = [h \in Connections |-> "idle"]
    /\ call' = [h \in Connections |-> NoCall]
    /\ answer' = [h \in Connections |-> NoAnswer]
    /\ window' = [ip \in IPs |-> 0]
    /\ forwarded' = [ip \in IPs |-> 0]
    /\ mutexHeld' = FALSE
    /\ UNCHANGED tableVars

Handle(h) == \/ Reject(h)
             \/ \E command \in Commands : AdminCommand(h, command)
             \/ \E query \in Queries : AdminQuery(h, query)
             \/ RejectOversized(h)
             \/ \E found \in BOOLEAN : Evaluate(h, found)

Next == \/ \E h \in Connections, c \in Calls : Receive(h, c)
        \/ \E h \in Connections : \/ Handle(h)
                                  \/ UpstreamFails(h)
                                  \/ Close(h)
        \/ \E h \in Connections, value \in {Absent, "upstream"} : Relay(h, value)
        \/ \E ip \in IPs, d \in {0, 1} : Elapse(ip, d)
        \/ \E ip \in IPs : BlockExpires(ip)
        \/ \E f \in Files : Serve(f)

Spec == Init /\ [][Next]_vars

\* tokio runs the task of every connection.  The upstream owes nothing: the call
\* to it has no timeout.
FairSpec == Spec /\ \A h \in Connections : WF_vars(Handle(h))

(***************************** the command line ********************************)

\* handle_block_ip, handle_unblock_ip, handle_whitelist_ip and handle_status: a
\* path without the prefix, the ip in it and nothing in the body.
CommandLine(client, command, ip, token) ==
    [client |-> client, method |-> IF command = "status" THEN "GET" ELSE "POST",
     path |-> IF command = "status" THEN <<"/", "status">> ELSE <<"/", command, "/", ip>>,
     query |-> command = "status", token |-> token, body |-> "", size |-> 0,
     hits |-> 0, confidence |-> 0]

(***************************** properties **************************************)

Stages == {"idle", "forwarded", "answered", "hung"} \cup Handlers

\* The weights sanitize() is to guarantee, of which Score makes use.
ConfOK == /\ \A weight \in Weights : conf.scoring[weight] \in 1..100
          /\ conf.scoring.threat_threshold \in 0..100
          /\ conf.scoring.high_confidence_threshold \in 10..100
          /\ conf.admin_auth.path_length \in 8..32

\* Every variable has its type, the configuration in use is within the bounds of
\* sanitize(), requests are counted as forwarded only where they are counted at
\* all, and a task hangs only on a mutex that is never unlocked.
TypeOK ==
    /\ file \in Files /\ db_open \in Opens(conf) /\ ConfOK
    /\ stage \in [Connections -> Stages]
    /\ DOMAIN call = Connections /\ DOMAIN answer = Connections
    /\ \A h \in Connections :
          /\ IF stage[h] = "idle" THEN call[h] = NoCall ELSE call[h] \in Calls
          /\ stage[h] # "answered" => answer[h] = NoAnswer
          /\ stage[h] = "hung" => mutexHeld
    /\ window \in [IPs -> Nat] /\ forwarded \in [IPs -> Nat]
    /\ \A ip \in IPs : forwarded[ip] <= window[ip]
    /\ blocklist \in [IPs -> {"none", "active", "expired"}]
    /\ whitelist \subseteq IPs
    /\ mutexHeld \in BOOLEAN

\* What the author of the file asked for, the whole default if it cannot be read.
Configured(section, key, otherwise) ==
    IF Parses(file) THEN Entry(file.keys, section, key, otherwise)
    ELSE WholeDefault[section][key]

\* The path is that of a well-formed entry or lies below it.
Below(path, entry) ==
    /\ ValidatePathEntry(entry)
    /\ \E n \in 0..Len(path) : /\ SubSeq(path, 1, n) = entry
                               /\ n < Len(path) => path[n + 1] = "/"

\* The allowlist of the file, if it is on, admits the path.
PathAdmitted(path) ==
    Configured("allowlist", "allowed", FALSE) =>
       \/ IsAutoWhitelisted(path)
       \/ \E entry \in ToSet(Configured("allowlist", "allowed_paths", <<>>)) :
             Below(path, entry)

\* A request that breaks no rule of the file.
Admissible(c) ==
    /\ PathAdmitted(c.path)
    /\ conf.waf.max_body_size > 0 => c.size <= conf.waf.max_body_size
    /\ Score(c) < conf.scoring.threat_threshold
    /\ c.hits > 0 => c.confidence < conf.scoring.high_confidence_threshold

\* A request that is on its way upstream broke no rule of the file: not the
\* allowlist, not the size limit, not the score threshold and not the confidence
\* that suffices alone.  Four gates in two functions have to agree on this, with
\* defaults and clamps in between (main.rs:407-440, waf.rs:72-83, config.rs).  The
\* path the upstream is asked for is one the allowlist admits as well, unless the
\* request has a query: AskedAsAllowed is about those.
UpstreamShielded ==
    \A h \in Connections : stage[h] = "forwarded" =>
        /\ Admissible(call[h])
        /\ ~call[h].query => PathAdmitted(UpstreamPath(call[h]))

\* What the README says of allowlist.allowed: only requests whose path matches an
\* entry are forwarded.  A request with a query is forwarded as one for the root,
\* which no entry need admit (main.rs:441).
AskedAsAllowed ==
    \A h \in Connections :
        stage[h] = "forwarded" => PathAdmitted(UpstreamPath(call[h]))

\* The upstream is never sent more requests within a window than the limit of the
\* file with its burst, however connections interleave (rate_limit.rs:95-101,
\* waf.rs:115).  The README promises each address a limit of its own; that the
\* window is that of 127.0.0.1 for everybody (main.rs:429) makes the limit hold, and
\* clients be refused for the requests of others.
UpstreamWithinLimit ==
    conf.rate_limiting.enabled => \A ip \in IPs : forwarded[ip] <= Limit

\* A clean request is refused for its score only if the author of the file asked
\* for a threshold of 0 or left [scoring] out, where the derived Default makes
\* it 0 (config.rs:410-507, scoring.rs:198) and not the 50 of the README.
CleanNeverScored ==
    \A h \in Connections :
        /\ stage[h] = "answered" /\ answer[h].cause = "ThreatScoreExceeded"
        /\ call[h].hits = 0
        => /\ Parses(file)
           /\ \/ "scoring" \notin DOMAIN file.keys
              \/ Entry(file.keys, "scoring", "threat_threshold", 50) = 0

\* The file speaks of the headers, or cannot be read and the whole default does.
HeadersGiven == ~Parses(file) \/ "response_headers" \in DOMAIN file.keys

\* An answer carries a header if the value is one that a header may have; an
\* empty strict_transport_security turns that header off.
Carries(h, name, value) == \/ value = "control"
                           \/ value = "" /\ name = "strict_transport_security"
                           \/ answer[h].headers[name] = value

FromHandler(h) ==
    /\ stage[h] = "answered"
    /\ answer[h].cause \notin {"rejected", "unauthorized", "invalid_ip"}

\* The headers of a file that has them are on every answer of the proxy and of
\* the commands and queries obeyed, whatever the upstream sent under their names
\* and whichever of the eight returns of proxy_handler it comes from
\* (chain.rs:19-38, main.rs:412-513).  The README promises them on all responses,
\* with defaults.  But axum's own answers and the refusals of the admin handlers
\* have none (main.rs:189-196, 227-242), and a file without [response_headers] gives
\* empty ones (config.rs:32).
HeadersEnforced ==
    \A h \in Connections, name \in HeaderNames :
        FromHandler(h) /\ HeadersGiven =>
            Carries(h, name, Configured("response_headers", name, ""))

\* A step in which the handler of a connection does its work.
Handled(h) == stage[h] \in Handlers /\ stage'[h] \in {"forwarded", "answered", "hung"}

\* An address enters the blocklist only by a command with the expected token or by
\* a request, as evaluate sees it, whose score reaches the threshold; and only such
\* a command lifts a block or touches the whitelist.  Restarts, hanging
\* tasks and failing statements change neither table (main.rs:216-312,
\* waf.rs:208-224).  The README says that a command with the token is obeyed; as the
\* handlers authenticate a path without the prefix (main.rs:226), none is.
Guarded ==
    LET commanded == \E h \in Connections :
            /\ Handled(h) /\ stage[h] \in Commands
            /\ call[h].token = ExpectedToken(conf)
        scored(ip) == \E h \in Connections :
            /\ Handled(h) /\ Peer(call[h]) = ip
            /\ Score(call[h]) >= conf.scoring.threat_threshold
    IN  /\ whitelist' # whitelist => commanded
        /\ \A ip \in IPs :
             /\ blocklist'[ip] = "active" /\ blocklist[ip] # "active" =>
                   commanded \/ scored(ip)
             /\ blocklist'[ip] = "none" /\ blocklist[ip] # "none" => commanded
TablesGuarded == [][Guarded]_vars

\* Every request is answered, goes upstream or is cut off by a restart, unless a
\* listed client met the audit log and has locked the database mutex for ever:
\* without the log, or without a database, no handler waits for another.  A request
\* at the upstream is not a handler's to settle: upstream_timeout_ms is read by
\* nothing, and it stays for as long as the upstream likes (main.rs:448).
EveryCallSettled ==
    \A h \in Connections :
        stage[h] \in Handlers ~>
            \/ stage[h] \in {"idle", "forwarded", "answered"}
            \/ mutexHeld /\ conf.logging.log_blocked /\ db_open
==============================================================================
