----------------------------- MODULE WafPipeline -----------------------------
(* GargouilleWaf::evaluate (waf-core/src/waf.rs) run by concurrent workers,    *)
(* with the operations of the admin API and restarts of the process.           *)
(*                                                                             *)
(* evaluate takes &self: what workers share is the limiter behind one mutex,   *)
(* the database behind another, and atomic counters.  A worker's step is one   *)
(* critical section or one atomic access.  A critical section in which the     *)
(* worker does nothing else but the protected call is a single step, enabled   *)
(* when the mutex is free; the blocklist lookup is the exception, because the  *)
(* guard made in its if-let lives until the end of the if-let body.            *)
(*                                                                             *)
(* RejectSilently, OverGeneralLimit, WasOverLimit, LookupIfFree,               *)
(* AfterCountOfThreat and ReleaseNothing are wrong versions of the definitions *)
(* that follow them, used to see that the properties notice.                   *)
EXTENDS Naturals, Sequences, FiniteSets, SequencesExt

CONSTANTS
    Workers,       \* the tasks that call evaluate
    Requests,      \* identities of the requests
    Profiles,      \* what evaluate finds out about a request
    IPs, Endpoints,
    General,       \* names the general window among those of the endpoints
    RateLimiting,  \* rate_limiting.enabled
    MaxPerWindow, Burst, WindowMs,
    EndpointLimit, \* rate_limiting.endpoint_limits
    BlocklistOn,   \* blocklist.enabled
    DatabaseOpens, \* the outcomes open_database may have
    AutoBlockTime, Never,
    DatabaseMayFail, \* can a statement fail (disk full, locked by the CLI)?
    AutoUnblock,   \* rate_limiting.block.auto_unblock
    LogBlocked,    \* logging.log_blocked
    AdminActs,     \* does an operator use the admin API?
    NoOne, NoJob,  \* no worker, no request
    MaxTime,       \* bound: the clock stops here
    MaxRestarts    \* bound on the restarts of the process

Threats   == {"none", "score", "direct"}
Profile   == [ip : IPs, denied : BOOLEAN, endpoints : SUBSET Endpoints,
              oversized : BOOLEAN, threat : Threats, score : Nat]

ASSUME WorkerAssumption   == IsFiniteSet(Workers)
ASSUME ProfileAssumption  == Profiles \subseteq Profile
ASSUME SwitchAssumption   == {RateLimiting, BlocklistOn, AutoUnblock, LogBlocked,
                              AdminActs, DatabaseMayFail} \subseteq BOOLEAN
ASSUME DatabaseAssumption == /\ DatabaseOpens \subseteq BOOLEAN
                             /\ ~BlocklistOn => DatabaseOpens = {FALSE}
ASSUME EndpointAssumption == /\ IsFiniteSet(Endpoints)
                             /\ EndpointLimit \in [Endpoints -> Nat]
                             /\ General \notin Endpoints
ASSUME NumberAssumption   == {MaxPerWindow, Burst, WindowMs, AutoBlockTime,
                              MaxTime, MaxRestarts} \subseteq Nat

VARIABLES
    pc,              \* worker -> where it is in evaluate
    job,             \* worker -> the request it evaluates
    todo,            \* worker -> the endpoint limits it has yet to check
    outcome,         \* worker -> the decision it is about to return
    arrived,         \* the requests that reached evaluate
    endpoint_order,  \* the iteration order of the endpoint_limits HashMap
    db_open,         \* is database Some(_)?
    db_owner,        \* the worker that holds the database mutex across steps
    restarts,
    \* the limiter
    wall, windows, endpoint_windows, blocked_ips, verdict,
    \* the database
    blocklist_ips, audit_log, user_whitelist, ok,
    \* the metrics
    total_requests, blocked_requests, allowed_requests, challenged_requests,
    threat_score_current,
    \* history: what was answered, when which limit was checked, whose audit row
    \* could not be written, whose blocklist row could not be read, and whether
    \* the client has been blocklisted ever since the request arrived
    answered, checkedAt, unwritten, unread, listed

Limiter == INSTANCE RateLimiter WITH Calls <- Requests, Durations <- {},
                                     MaxStepBack <- 0
DB      == INSTANCE Database WITH ValidIPs <- IPs, Null <- Never,
                                  WritesMayFail <- DatabaseMayFail, Scores <- Nat,
                                  MaxRows <- Cardinality(Requests)
M       == INSTANCE Metrics

workerVars  == <<pc, job, todo, outcome>>
limiterVars == <<windows, endpoint_windows, blocked_ips, verdict>>
tableVars   == <<blocklist_ips, audit_log, user_whitelist, ok>>
metricVars  == <<total_requests, blocked_requests, allowed_requests,
                 challenged_requests, threat_score_current>>
processVars == <<endpoint_order, db_open, restarts>>
historyVars == <<answered, checkedAt, unwritten, unread>>
vars == <<workerVars, arrived, processVars, db_owner, wall, limiterVars,
          tableVars, metricVars, historyVars, listed>>

Stages == {"idle", "endpoints", "general", "lookup", "scan", "count", "gauge",
           "audit", "autoblock", "answer"}
Decisions == {"Pass", "RateLimited", "AllowlistDenied", "IpBlocklisted",
              "ThreatScoreExceeded", "DirectBlock"}

Ip(w)      == job[w].profile.ip
MutexFree  == db_owner = NoOne
GoTo(w, s) == pc' = [pc EXCEPT ![w] = s]
Decide(w, d, score) == outcome' = [outcome EXCEPT ![w] = [decision |-> d, score |-> score]]

\* The allowlist's early return forgets record_blocked and the audit log.
RejectSilently(w, d, score) ==
    /\ GoTo(w, IF d = "AllowlistDenied" THEN "answer" ELSE "count")
    /\ Decide(w, d, score)

\* A rejection starts with record_blocked.
Reject(w, d, score) == GoTo(w, "count") /\ Decide(w, d, score)

\* The endpoint limits that match the request.
Matching(p) == IF RateLimiting THEN p.endpoints ELSE {}

\* The HashMap yields ep before any other of the endpoints in S.
ComesFirst(ep, S) == \E i \in DOMAIN endpoint_order :
                         /\ endpoint_order[i] = ep
                         /\ \A j \in 1..i-1 : endpoint_order[j] \notin S

\* Where evaluate goes once the rate limits are passed.
AfterLimits == IF BlocklistOn THEN "lookup" ELSE "scan"

Init == /\ pc = [w \in Workers |-> "idle"]
        /\ job = [w \in Workers |-> NoJob]
        /\ todo = [w \in Workers |-> {}]
        /\ outcome = [w \in Workers |-> NoJob]
        /\ arrived = {}
        /\ endpoint_order \in SetToSeqs(Endpoints)
        /\ db_open \in DatabaseOpens
        /\ db_owner = NoOne
        /\ restarts = 0
        /\ Limiter!Init
        /\ DB!Init
        /\ M!Init
        /\ answered = <<>>
        /\ checkedAt = [r \in Requests |-> <<>>]
        /\ unwritten = {} /\ unread = {}
        /\ listed = [w \in Workers |-> FALSE]

(***************************** evaluate ****************************************)

\* record_request, then the allowlist, which reads only the request.
Begin(w, r, p) ==
    /\ pc[w] = "idle" /\ r \notin arrived
    /\ arrived' = arrived \cup {r}
    /\ M!RecordRequest
    /\ job' = [job EXCEPT ![w] = [request |-> r, profile |-> p]]
    /\ todo' = [todo EXCEPT ![w] = Matching(p)]
    /\ \/ p.denied /\ Reject(w, "AllowlistDenied", 0)
       \/ ~p.denied /\ GoTo(w, "endpoints") /\ UNCHANGED outcome
    /\ UNCHANGED <<processVars, db_owner, wall, limiterVars, tableVars, historyVars>>

\* Of what check_endpoint returned only the count is looked at, not what the
\* limiter itself would allow.
OverGeneralLimit(ep)  == ~verdict'.allowed
OverEndpointLimit(ep) == verdict'.count > EndpointLimit[ep] + Burst

\* The next endpoint limit that matches.
CheckEndpointLimit(w) ==
    LET r == job[w].request
    IN  \E ep \in todo[w] :
        /\ pc[w] = "endpoints" /\ ComesFirst(ep, todo[w])
        /\ Limiter!CheckEndpoint(Ip(w), ep, r)
        /\ checkedAt' = [checkedAt EXCEPT ![r] = Limiter!Put(@, ep, wall)]
        /\ \/ /\ OverEndpointLimit(ep)
              /\ Reject(w, "RateLimited", 0)
              /\ UNCHANGED todo
           \/ /\ ~OverEndpointLimit(ep)
              /\ todo' = [todo EXCEPT ![w] = @ \ {ep}]
              /\ UNCHANGED <<pc, outcome>>
        /\ UNCHANGED <<job, arrived, processVars, db_owner, tableVars, metricVars,
                       answered, unwritten, unread>>

EndpointsPassed(w) ==
    /\ pc[w] = "endpoints" /\ todo[w] = {}
    /\ GoTo(w, IF RateLimiting THEN "general" ELSE AfterLimits)
    /\ UNCHANGED <<job, todo, outcome, arrived, processVars, db_owner, wall,
                   limiterVars, tableVars, metricVars, historyVars>>

\* Goes by what the limiter answered before this request was recorded.
WasOverLimit == ~verdict.allowed
OverLimit    == ~verdict'.allowed

CheckGeneralLimit(w) ==
    /\ pc[w] = "general"
    /\ Limiter!Check(Ip(w), job[w].request)
    /\ checkedAt' = [checkedAt EXCEPT ![job[w].request] =
                                         Limiter!Put(@, General, wall)]
    /\ \/ OverLimit /\ Reject(w, "RateLimited", 0)
       \/ ~OverLimit /\ GoTo(w, AfterLimits) /\ UNCHANGED outcome
    /\ UNCHANGED <<job, todo, arrived, processVars, db_owner, tableVars, metricVars,
                   answered, unwritten, unread>>

Listed(w) == db_open /\ DB!IsIpBlocked(Ip(w))

\* try_lock, and no lookup when the mutex is taken.
LookupIfFree(w) ==
    LET hit == MutexFree /\ Listed(w)
    IN  /\ pc[w] = "lookup"
        /\ \/ hit /\ db_owner' = w /\ Reject(w, "IpBlocklisted", 0)
           \/ ~hit /\ GoTo(w, "scan") /\ UNCHANGED <<db_owner, outcome>>
        /\ UNCHANGED <<job, todo, arrived, processVars, wall, limiterVars, tableVars,
                       metricVars, historyVars>>

\* On a hit the mutex stays locked while the rejection is counted, audited and
\* returned.  A query that fails finds nothing.
Lookup(w) ==
    /\ pc[w] = "lookup" /\ MutexFree
    /\ \/ /\ Listed(w)
          /\ db_owner' = w
          /\ Reject(w, "IpBlocklisted", 0)
          /\ UNCHANGED unread
       \/ /\ ~Listed(w)
          /\ GoTo(w, "scan")
          /\ UNCHANGED <<db_owner, outcome, unread>>
       \/ /\ DatabaseMayFail /\ Listed(w)
          /\ unread' = unread \cup {job[w].request}
          /\ GoTo(w, "scan")
          /\ UNCHANGED <<db_owner, outcome>>
    /\ UNCHANGED <<job, todo, arrived, processVars, wall, limiterVars, tableVars,
                   metricVars, answered, checkedAt, unwritten>>

\* The body size check and the rule engine, which share nothing; a clean request
\* is counted as allowed.
Scan(w) ==
    LET p == job[w].profile
    IN  /\ pc[w] = "scan"
        /\ \/ /\ p.oversized
              /\ Reject(w, "ThreatScoreExceeded", 0)
              /\ UNCHANGED metricVars
           \/ /\ ~p.oversized /\ p.threat # "none"
              /\ Reject(w, IF p.threat = "direct" THEN "DirectBlock"
                           ELSE "ThreatScoreExceeded", p.score)
              /\ UNCHANGED metricVars
           \/ /\ ~p.oversized /\ p.threat = "none"
              /\ M!RecordAllowed
              /\ GoTo(w, "answer") /\ Decide(w, "Pass", p.score)
        /\ UNCHANGED <<job, todo, arrived, processVars, db_owner, wall, limiterVars,
                       tableVars, historyVars>>

CountBlocked(w) ==
    /\ pc[w] = "count"
    /\ M!CountBlocked
    /\ GoTo(w, "gauge")
    /\ UNCHANGED <<job, todo, outcome, arrived, processVars, db_owner, wall,
                   limiterVars, tableVars, historyVars>>

\* The engine's threat-score blocks list the client, if so configured.
ListsClient(w) == /\ outcome[w].decision = "ThreatScoreExceeded"
                  /\ ~job[w].profile.oversized
                  /\ AutoUnblock
AfterAudit(w)  == IF ListsClient(w) THEN "autoblock" ELSE "answer"

AfterCountOfThreat(w) ==
    IF LogBlocked /\ outcome[w].score > 0 THEN "audit" ELSE AfterAudit(w)
AfterCount(w) == IF LogBlocked THEN "audit" ELSE AfterAudit(w)

StoreScore(w) ==
    /\ pc[w] = "gauge"
    /\ M!StoreScore(outcome[w].score)
    /\ GoTo(w, AfterCount(w))
    /\ UNCHANGED <<job, todo, outcome, arrived, processVars, db_owner, wall,
                   limiterVars, tableVars, historyVars>>

\* audit_log_with_score locks the database mutex, which is not reentrant.
Audit(w) ==
    /\ pc[w] = "audit" /\ MutexFree
    /\ \/ /\ db_open /\ DB!LogThreat(Ip(w), job[w].request, outcome[w].score)
          /\ UNCHANGED unwritten
       \/ /\ \/ db_open /\ DB!WriteFails
             \/ ~db_open /\ UNCHANGED <<wall, tableVars>>
          /\ unwritten' = unwritten \cup {job[w].request}
    /\ GoTo(w, AfterAudit(w))
    /\ UNCHANGED <<job, todo, outcome, arrived, processVars, db_owner, limiterVars,
                   metricVars, answered, checkedAt, unread>>

AutoBlock(w) ==
    /\ pc[w] = "autoblock" /\ MutexFree
    /\ \/ db_open /\ DB!AddToBlocklist(Ip(w), TRUE)
       \/ db_open /\ DB!WriteFails
       \/ ~db_open /\ UNCHANGED <<wall, tableVars>>
    /\ GoTo(w, "answer")
    /\ UNCHANGED <<job, todo, outcome, arrived, processVars, db_owner, limiterVars,
                   metricVars, historyVars>>

ReleaseNothing(w) == db_owner
Release(w) == IF db_owner = w THEN NoOne ELSE db_owner

\* evaluate returns, dropping the guard it may still hold.
Answer(w) ==
    LET r == job[w].request
    IN  /\ pc[w] = "answer"
        /\ answered' = [q \in DOMAIN answered \cup {r} |->
                          IF q = r THEN [decision |-> outcome[w].decision,
                                         ip       |-> Ip(w),
                                         life     |-> restarts]
                          ELSE answered[q]]
        /\ db_owner' = Release(w)
        /\ GoTo(w, "idle")
        /\ job' = [job EXCEPT ![w] = NoJob]
        /\ outcome' = [outcome EXCEPT ![w] = NoJob]
        /\ UNCHANGED <<todo, arrived, processVars, wall, limiterVars, tableVars,
                       metricVars, checkedAt, unwritten, unread>>

Step(w) == \/ CheckEndpointLimit(w) \/ EndpointsPassed(w) \/ CheckGeneralLimit(w)
           \/ Lookup(w) \/ Scan(w) \/ CountBlocked(w) \/ StoreScore(w)
           \/ Audit(w) \/ AutoBlock(w) \/ Answer(w)

(************************ operators and the environment ************************)

\* block_ip, unblock_ip and whitelist_ip lock the database for one statement.
Admin ==
    /\ AdminActs /\ MutexFree /\ db_open
    /\ \/ \E ip \in IPs : \/ DB!AddToBlocklist(ip, TRUE)
                          \/ DB!RemoveFromBlocklist(ip)
                          \/ DB!AddToWhitelist(ip)
       \/ DB!WriteFails
    /\ UNCHANGED <<workerVars, arrived, processVars, db_owner, limiterVars, metricVars,
                   historyVars>>

Tick == /\ wall < MaxTime
        /\ wall' = wall + 1
        /\ UNCHANGED <<workerVars, arrived, processVars, db_owner, limiterVars,
                       tableVars, metricVars, historyVars>>

\* The process dies and is started again: the tables are all that is left.
Restart ==
    /\ restarts < MaxRestarts
    /\ restarts' = restarts + 1
    /\ endpoint_order' \in SetToSeqs(Endpoints)
    /\ db_open' \in DatabaseOpens
    /\ db_owner' = NoOne
    /\ pc' = [w \in Workers |-> "idle"]
    /\ job' = [w \in Workers |-> NoJob]
    /\ todo' = [w \in Workers |-> {}]
    /\ outcome' = [w \in Workers |-> NoJob]
    /\ windows' = Limiter!EmptyMap
    /\ endpoint_windows' = Limiter!EmptyMap
    /\ blocked_ips' = Limiter!EmptyMap
    /\ verdict' = Limiter!Counted(0)
    /\ total_requests' = 0 /\ blocked_requests' = 0 /\ allowed_requests' = 0
    /\ challenged_requests' = 0 /\ threat_score_current' = 0
    /\ UNCHANGED <<arrived, wall, tableVars, historyVars>>

\* Has the client of the request been on the blocklist since it arrived?
TrackListed ==
    listed' = [w \in Workers |->
                 /\ pc'[w] # "idle"
                 /\ pc[w] # "idle" => listed[w]
                 /\ DB!IsIpBlocked(Ip(w))']

Next == /\ \/ \E w \in Workers : Step(w)
           \/ \E w \in Workers, r \in Requests, p \in Profiles : Begin(w, r, p)
           \/ Admin
           \/ Tick
           \/ Restart
        /\ TrackListed

Spec == Init /\ [][Next]_vars

\* Every worker is scheduled.  std::sync::Mutex is not fair, but with finitely
\* many requests a waiter is passed over only finitely often.
Fairness == \A w \in Workers : WF_vars(Step(w) /\ TrackListed)
FairSpec == Spec /\ Fairness

(***************************** properties **************************************)

Job     == [request : Requests, profile : Profiles]
Outcome == [decision : Decisions, score : Nat]

\* The types of the workers' state and of the history.
TypeOK == /\ pc \in [Workers -> Stages]
          /\ job \in [Workers -> Job \cup {NoJob}]
          /\ todo \in [Workers -> SUBSET Endpoints]
          /\ outcome \in [Workers -> Outcome \cup {NoJob}]
          /\ arrived \subseteq Requests
          /\ endpoint_order \in Seq(Endpoints)
          /\ db_open \in BOOLEAN
          /\ db_owner \in Workers \cup {NoOne}
          /\ restarts \in Nat
          /\ Limiter!TypeOK
          /\ DB!TypeOK
          /\ M!TypeOK
          /\ DOMAIN answered \cup unwritten \cup unread \subseteq arrived
          /\ listed \in [Workers -> BOOLEAN]

\* A request that is counted in total_requests but not yet in the counter of
\* its outcome.
Uncounted == {w \in Workers : pc[w] \in {"endpoints", "general", "lookup", "scan",
                                         "count"}}

\* Every request is counted once in total_requests and once under its outcome
\* (waf.rs:67, 77, 104, 121, 135, 148, 186-192), whatever path it takes through
\* evaluate and however the workers' fetch_adds interleave.
RequestsConserved ==
    total_requests = blocked_requests + allowed_requests + challenged_requests
                     + Cardinality(Uncounted)

RowsOf(r) == {i \in DOMAIN audit_log : audit_log[i].request = r}

\* With log_blocked on, a request that was not let through has exactly one row
\* in audit_log by the time its client gets the answer, unless the database did
\* not take it, and one that was let through has none (waf.rs:305-326),
\* whichever gate stopped it.
AuditExact ==
    LogBlocked =>
        \A r \in DOMAIN answered :
            Cardinality(RowsOf(r)) =
                IF answered[r].decision = "Pass" \/ r \in unwritten THEN 0 ELSE 1

\* Once block_ip or an automatic block has put a client on the blocklist, no
\* request of it that arrives later is forwarded while the block lasts
\* (waf.rs:130-139), whatever the other workers do and across restarts, unless
\* the database could not be opened or the query itself failed.
ListedNeverPasses ==
    (BlocklistOn /\ db_open) =>
        \A w \in Workers :
            pc[w] = "answer" /\ outcome[w].decision = "Pass" /\ listed[w] =>
                job[w].request \in unread

PassedIn(life, ip) == {r \in DOMAIN answered : /\ answered[r].decision = "Pass"
                                               /\ answered[r].life = life
                                               /\ answered[r].ip = ip}
Within(S, k, t) == {r \in S : /\ k \in DOMAIN checkedAt[r]
                              /\ checkedAt[r][k] <= t
                              /\ t <= checkedAt[r][k] + WindowMs}

\* Of one client's requests, at most requests_per_window + burst_allowance are
\* forwarded per window (waf.rs:114-126), and concurrent workers cannot share a
\* place in the window.  The windows are in memory: a restart starts afresh.
PassesWithinLimit ==
    RateLimiting =>
        \A life \in 0..restarts, ip \in IPs, t \in 0..MaxTime :
            Cardinality(Within(PassedIn(life, ip), General, t)) <= MaxPerWindow + Burst

\* The same for each endpoint with a limit of its own (waf.rs:86-111): among the
\* forwarded requests that matched it, at most limit + burst_allowance.
EndpointPassesWithinLimit ==
    RateLimiting =>
        \A life \in 0..restarts, ip \in IPs, ep \in Endpoints, t \in 0..MaxTime :
            Cardinality(Within(PassedIn(life, ip), ep, t)) <= EndpointLimit[ep] + Burst

\* "Decision flow" (README.md:276-300): every request that reaches evaluate gets
\* its decision.
EveryRequestAnswered == \A w \in Workers : pc[w] # "idle" ~> pc[w] = "idle"
==============================================================================
