# Gargouille in TLA+

A specification of Gargouille, a web application firewall that runs as a reverse
proxy: the modules that model it, the TLC configurations that check them on small
instances, and machine-checked proofs of what matters most.

Paths below are relative to the repository; `waf.rs` stands for
`waf-core/src/waf.rs` and likewise for the other files of that crate, and `main.rs`
for `waf-cli/src/main.rs`.

## 1. The system

A request comes in over HTTP. The router gives it to an admin handler or to the
proxy. The proxy asks `GargouilleWaf::evaluate`, which decides in a fixed sequence of
gates, any of which may end it, and forwards the request to the upstream or answers
with an error.

| Component | State | Operations | What makes it hard | What makes it correct |
|---|---|---|---|---|
| HTTP server and proxy (`main.rs`, `middleware/chain.rs`) | the configuration it was started from, the upstream client, the shared firewall | `serve`, five admin handlers, `proxy_handler`, `apply_security_headers` | one client address for everybody; eight returns that each must set the headers; no timeout towards the upstream; restarts with another file | no request the file forbids goes upstream; only a command with the token changes the tables by command; every handler gets done |
| Evaluation pipeline (`waf.rs`) | limiter and database, each behind a `std::sync::Mutex`; atomic counters; the endpoint limits, a `HashMap` | `evaluate`, `block_ip`, `unblock_ip`, `whitelist_ip` | runs concurrently with itself; three separate critical sections on one non-reentrant mutex; seven early returns; errors swallowed on purpose | every request is counted once and audited once; listed clients are stopped; limits hold for what is forwarded; every request gets an answer |
| Rate limiter (`rate_limit.rs`) | windows of timestamps per client and per (client, endpoint), blocked clients with expiries | `check`, `check_endpoint`, `block_ip`, `block_ip_with_expiry`, `unblock_ip`, `cleanup` | wall clock that may be set back; lazy expiry; boundaries at exactly one window | a window of real time never sees more than the limit; nothing is forgotten early; a block lasts its time; cleanup shows in no answer until the clock is set back |
| SQLite store (`database.rs`) | `blocklist_ips`, `audit_log`, `user_whitelist`, on disk | insert, delete, lookups, reports | statements may fail; expired rows stay; survives restarts | a block is not cut short; an add blocks |
| Metrics (`metrics.rs`) | `AtomicU64`s | record a request, a block, a pass | relaxed atomics, two accesses per block | the counters add up |
| Request parser (`parser.rs`) | none | `searchable_text`, URL decoding | headers and cookies in the order of hash maps | the order never changes the score |
| Detectors (`rules/*.rs`) | compiled regular expressions | `scan` | nine tables of rules, two rules with a condition of their own | |
| Bot detection (`rules/bot_detection.rs`) | the same | `scan`, then `deduplicate` | a match may remove others, before or after it | more headers and cookies never save a request blocked for its score; a request with nothing in it passes |
| Scoring engine (`scoring.rs`) and rule engine (`engine.rs`) | none beyond the configuration | `evaluate`, twice | cut, cap, threshold and override interact | evidence on top never unblocks; repetition is worth nothing; pass-all is honoured |
| Configuration (`config.rs`) | the values everything else is constant in | `load`, `validate`, `sanitize` | a missing section gets the derived zeros, a missing key the documented default, a file that does not parse the whole default | whatever the file, the values in use are in their ranges |
| Allowlist (`allowlist_service.rs`, `allowlist_schema.rs`) | allowed prefixes | `check_path`, validation of entries | prefix boundaries, query and fragment, admin exemptions | only the listed subtrees pass |
| Admin authentication (`admin_auth/`) | token and path prefix, both derived from the configured secret | `authenticate`, the command validator | the prefix it demands is not in the path the handlers give it | only the token opens the tables |
| Command line (`main.rs`) | none: it calls the server | `block`, `unblock`, `whitelist`, `status`, `check-config` | posts to paths the router does not know | |
| Library facade (`lib.rs`) | none | re-exports | | |

How they interact. A task per connection runs a handler. `evaluate` takes `&self`, and
the server calls it from as many tasks as the runtime has. It counts the request, asks
the allowlist, locks the limiter for every matching endpoint limit and once more for
the general one, locks the database for the blocklist lookup, checks the body size,
runs the rule engine (parser, detectors, scoring; it shares nothing), and on the way
out locks the database again for the audit row and possibly a third time for an
automatic block. The admin handlers change the same database. Time enters as
`Utc::now()` in the limiter and `datetime('now')` in SQLite. All interaction inside
the process is by the two mutexes, the atomics and the database file; towards the
outside there are the client and the upstream, which may fail or never answer.

The behaviours that are hard to test are listed one by one, with their source line,
under `hazards` in `PROJECT.json`.

## 2. Modules

| Module | Models | Remarks |
|---|---|---|
| `RateLimiter` | `rate_limit.rs` | one action per method; `Tick` and `StepBack` are the clock |
| `RateLimiterHistory` | the same, with history | remembers all requests, those admitted, and real time; states the limiter's properties |
| `SlidingWindow` | the limiter's promise | abstract: answers from *all* recorded requests; no pruning, no lazy expiry, no cleanup |
| `Database` | `database.rs` | one action per statement that writes; any of them may fail |
| `Metrics` | `metrics.rs` | one action per atomic access |
| `WafPipeline` | `waf.rs` | composes the three by `INSTANCE`; workers, operators, restarts |
| `Parser` | `parser.rs` | operators: which texts are searched, in which order |
| `Detectors` | `rules/` but bot detection | operators: nine tables of rules and their scan |
| `BotDetection` | `rules/bot_detection.rs` | operators: tests of each text, the anomaly, the suppression of duplicates |
| `Scoring` | `scoring.rs`, the override in `engine.rs` | one evaluation: categories one by one, then the threshold, then the override |
| `ScoringPair` | two evaluations side by side | two instances of `Scoring` in lockstep, to compare their outcomes |
| `Inspection` | `RuleEngine::evaluate` | composes the five above: from the request to the verdict |
| `Config` | `config.rs`, `config/default.toml` | operators: `Load`, `Sanitize`, `Validate` |
| `Allowlist` | `allowlist_*.rs` | operators on paths |
| `AdminAuth` | `admin_auth/` | operators: secret, token, prefix, `Authenticate` |
| `Server` | `main.rs`, `chain.rs` | composes the three above with connections, the upstream, the tables and restarts |
| `MCRateLimiter`, `MCWafPipeline`, `MCInspection`, `MCServer` | | values of constants, requests, files, symmetry sets |
| `RateLimiter_proofs`, `Database_proofs`, `WafPipeline_proofs`, `WafPipelineLimits_proofs`, `Scoring_proofs`, `Inspection_proofs`, `Server_proofs` | | theorems; those on `Config` are in `Server_proofs` |
| `Lists_proofs` | | lemmas on sequences, by induction over their length |

### RateLimiter

The variables are the fields of the struct: `windows`, `endpoint_windows` and
`blocked_ips` are partial functions (a key exists once it was inserted, as in the
`HashMap`), `verdict` is what the last check returned. Every method takes
`&mut self` under the caller's mutex and is one action. A `Vec<u128>` of
timestamps is a set of entries `[at, call]`: its order is never used, and the
identity of the call keeps requests of one millisecond apart, so that `len()` is
the cardinality. `Age` is `saturating_sub`, which is what makes a clock that was
set back harmless. `check` and `check_endpoint` differ in the code (only the first
removes an expired block; a block empties only the general window, so what is said of
the traces of a block is said of `check` alone) and in the model. `due` of the history
is until when, in real time, the last block of a client should last.

`Calls` is finite, and a call is used once: this bounds the number of requests.

### Database

`blocklist_ips` maps an address to its `expires_at`; `INSERT OR IGNORE` against the
unique column is `Inserts`. `IPs` holds one string that is not an address, which
the methods skip with `Ok(())`. `ok` is the result. SQLite commits each statement,
so a restart loses nothing.

### WafPipeline

`pc[w]` is where worker `w` is in `evaluate`. A worker's step is one critical
section or one atomic access; in between the others may run. What the pure parts of
`evaluate` find out about a request (path denied by the allowlist, endpoint limits
that match, body too large, score and direct block) is its *profile*, chosen when it
arrives. The steps, in order:

| Stage | Action | Code |
|---|---|---|
| `idle` | `Begin`: `record_request`, allowlist | `waf.rs:63-84` |
| `endpoints` | `CheckEndpointLimit`, `EndpointsPassed` | `waf.rs:86-111` |
| `general` | `CheckGeneralLimit` | `waf.rs:113-126` |
| `lookup` | `Lookup`; on a hit the mutex stays locked | `waf.rs:128-140` |
| `scan` | `Scan`: body size, rule engine | `waf.rs:142-198` |
| `count`, `gauge` | `CountBlocked`, `StoreScore`: the two halves of `record_blocked` | `metrics.rs` |
| `audit` | `Audit`: locks the database | `waf.rs:305-326` |
| `autoblock` | `AutoBlock`: locks it again | `waf.rs:209-224` |
| `answer` | `Answer`: returns, dropping the guard | |

`todo[w]` is the set of the endpoint limits that the worker has yet to check. The next
one is the member that `ComesFirst` in `endpoint_order`, the iteration order of the
hash map, which every process chooses anew. A rejection leaves the windows of the
limits after it without the request.

`db_owner` is the worker that holds the database mutex across steps. Only the lookup
does that: the guard is a temporary of an `if let` and lives to the end of its body.
All other critical sections are single steps, enabled when the mutex is free. The
limiter's mutex is never held across steps and needs no variable.

`Admin` is the operator, through the admin API. `Restart` is a
crash at any moment followed by a new process: the tables stay, everything else is
as after start-up, the requests under way are lost. The database may not open
(`DatabaseOpens`), a statement may fail (`DatabaseMayFail`), and a lookup that fails
reads as "not listed", as in the code.

`answered`, `checkedAt`, `unwritten`, `unread` and `listed` are history and are read
by no action.

### Inspection: Parser, Detectors, BotDetection, Scoring

The path is request, texts, reports, verdict. A text of the request is a `Value`: which
patterns it matches as it stands, which only once it is decoded, its shape (empty, NUL
bytes, control characters, a single character, plain) and which header names it
begins with. A header has the value that is searched, which joins all that were sent
under its name, and the `first` of them, which is what `get_header` gives. Names are
in lower case, since the server makes them so (`main.rs:399`): comparisons that ignore
case are equalities. `SearchableText` puts the texts in order; `Scan` and `ScanForBots` turn
them into threats; `Report` keeps the confidences, in percent, which is all that
scoring looks at. `AddCategory` is `add_category!`, `Judge` the cap and the
comparison, `Override` the direct-block override. `Weight` is what the engine uses: the
configured weights as `sanitize()` clamps them, and 10 for the bot detector, whose
configured weight nothing hands over (`scoring.rs:132`).

`ScoringPair` runs two evaluations in lockstep, so that the comparison of two runs is
an invariant of one. Its own `Init` takes any two sets of reports, and its properties
speak of those of which the second extends the first; `Inspection` computes both
from requests. The second request has at least the headers and cookies of the first
(`Extends`), or the same ones (`Reorders`), and either iterates them in any order: what
is new may come before what is not. The server hands over no cookies
(`main.rs:426`), so that a Cookie header is a header there; a `cookies` map that is not
empty comes from users of the library.

Of a header and a cookie there is one each per name (`NamesDiffer`), as in the maps of
the code, and a text that begins with a header's name is neither empty nor a single
character. The proofs need both: a second User-Agent would be a second odd one.

Three details are in the model because the code has them: the texts leave out `Host`,
so the missing-host anomaly is found whenever there are two headers; a text passes for a
User-Agent when it *begins* with that name; and a pattern that does not compile is
replaced by one that matches the empty text (`MatchesScanner`).

### Config

A file is which sections its author wrote, with which of their keys, or garbled.
`KeyType` is the structs; `Named` the `default_*` functions, `Written` what
`WafConfig::default()` gives beyond them. `KeyDefault` is a key that is missing in its
section, `SectionDefault` one whose section is missing too: only `admin_auth` has a
`Default` of its own, the others derive zeros. A nested table, `[waf.allowlist]` or
`[rate_limiting.block]`, makes its parent present (`Given`). `Sanitize` is what the server does with
the result; `CheckConfig` what the command prints.

### Allowlist and AdminAuth

A path is a sequence of pieces, `"/"` among them, such that one string begins with
another exactly when its pieces do: `/apis` is `<<"/", "api", "s">>`. Hashes are an
injective function of the secret.

### Server

`stage[h]` is which handler has the request of connection `h`, or what became of it:
`forwarded` while the upstream is asked, `answered`, or `hung` on the database mutex.
`Route` is the router, with the prefix and the command in one segment: the route
patterns have no slash between them. `Rejection` is what axum answers itself.

`Evaluate` is one step here. How evaluations interleave is `WafPipeline`'s business;
kept are the order of the gates (`Gate`), what they leave in the window and the
tables, and that a listed client's request never returns when the audit log is on,
which leaves `mutexHeld`. `Peer(c) = Local` is `main.rs:429`. A call carries the
matches it amounts to (`hits`, `confidence`), of one category: what several
amount to is `Inspection`'s.

`UpstreamPath` is what the upstream is asked for: the path that was evaluated, but the
root for a request with a query (`main.rs:441`).

`Relay` and `UpstreamFails` are the upstream, `Close` the end of a connection, also
that of a client that leaves while its request is at the upstream. `Serve(f)` is a
restart at any moment, with any of the files. `CommandLine` is the request the
command-line tool sends.

### Definitions that are wrong on purpose

Some definitions are preceded by a wrong version: `AgeWrapping` before `Age`,
`LookupIfFree` before `Lookup`, and so on; the head of each module lists them.
Nothing uses them. Each is a bug somebody could write, and putting it in the place of
the right one makes TLC report the property named under `mutants` in `PROJECT.json`.
They show that no property holds for lack of anything to say.

## 3. What is checked

`tlc -config <cfg> <module>`; states are distinct states.

| Run | Module, configuration | Properties | States |
|---|---|---|---|
| `limiter` | `MCRateLimiter`, `RateLimiter.cfg` | `HTypeOK`, `SlidingWindowBound`, `BlockLeavesNoTrace`, `AdmittedStillCounted`, `BlockServed`, `CleanupTransparent` | 221 k |
| `limiter_ideal` | `MCRateLimiter`, `RateLimiterIdeal.cfg` | `ImplementsIdeal` | 1.0 M |
| `database` | `Database`, `Database.cfg` | `TypeOK`, `BlockNeverShortened` | 8 k |
| `pipeline` | `MCWafPipeline`, `Pipeline.cfg` | `TypeOK`, `RequestsConserved`, `AuditExact`, `ListedNeverPasses` | 949 k |
| `pipeline_limits` | `MCWafPipeline`, `PipelineLimits.cfg` | `PassesWithinLimit`, `EndpointPassesWithinLimit` | 398 k |
| `pipeline_live` | `MCWafPipeline`, `PipelineLive.cfg` | `EveryRequestAnswered`, no deadlock | 188 k |
| `scoring` | `MCInspection`, `Inspection.cfg` | `TypeOK`, `PassAllHonoured`, `MoreEvidenceNeverUnblocks`, `MoreTextNeverUnblocks`, `RepetitionIsFree`, `ScoreIgnoresOrder`, `QuietRequestPasses` | 806 k |
| `server` | `MCServer`, `Server.cfg` | `TypeOK`, `UpstreamShielded`, `UpstreamWithinLimit`, `CleanNeverScored`, `HeadersEnforced`, `TablesGuarded`, `EveryCallSettled`, no deadlock | 196 k |

Four more runs check what a comment or the README says, and find it violated; see
section 5.

What they show:

- **limiter.** Over four requests, blocks with and without an end, unblocks, cleanups
  and a clock set back by corrections: `check` admits at most the limit per window of
  *real* time, no admitted request drops out before its window has passed, a block
  lasts its whole duration of real time and starts the client afresh. `cleanup()` shows
  in no answer as long as the clock reads no less than it did then. If it is set back
  further, it may: what had expired, a block included, would have come back to life.
  All that a cleanup then does is admit where the limiter would have refused.
- **limiter_ideal.** With a clock that is never set back, the limiter implements
  `SlidingWindow`: pruning, lazy expiry and cleanup are invisible. `seen` and
  `epSeen` of the history are mapped to the abstract ones, a block that has expired
  but was not removed is mapped to no block.
- **database.** No statement but the removal of its address shortens a block that is in
  force, in any order of automatic and permanent blocks and whatever statements fail,
  and no string that is not an address gets a row.
- **pipeline.** All ways through `evaluate`, an operator, failures and a restart: the
  counters add up after every step; exactly one audit row per request that was
  stopped, none for one that passed; a request of a client that has been listed ever
  since it arrived does not pass.
- **pipeline_limits.** Three requests race for two places in the general window and
  one in that of each of two endpoints, one of which matches whatever the other
  matches, in either order of the hash map and with a restart: no more are forwarded.
- **pipeline_live.** With the audit log off, every request is answered and nothing
  deadlocks.
- **scoring.** Pairs of requests through parser, detectors and scoring. One that is
  blocked for its score is still blocked with a further header or further cookies,
  wherever these are iterated and although a scanner among them removes weaker signs;
  the iteration order can change which three threats count but not the score; a fourth
  hit is worth nothing; a request with nothing in it passes, in spite of the anomaly it
  is always given. The first holds up to a confidence threshold of 90, which is what a
  scanner in a referer is worth, and the last above 45, which is what the anomaly is;
  without those two conditions TLC finds either violated at thresholds of 91 and of 45,
  so the bounds are exact. The default is 90. A request blocked for one match alone is
  another matter: three weaker matches that are iterated earlier displace it (section 5).
- **server.** The server as started from each of four files: no request goes upstream
  that the file forbids, and none without a query as a path the allowlist forbids; no
  more go there within a window than the file's limit; a clean request is refused for
  its score only with a threshold of 0, written or left out with its section; the
  headers of a file that has them are on every answer that a handler gives a request it
  did not refuse as unauthorized or malformed; and only a command with the token, or a
  request that scores, changes the tables; and no handler waits for ever unless a listed
  client met the audit log. The README promises more of the limit, of the threshold and
  of the headers: see section 5.

### Bounds

- `MaxTime` stops the clock. Windows and blocks are one or two ticks long and time
  runs to three ticks (two in `pipeline_limits`, five for the database), so that a
  window or a block begins, ends exactly at a tick, and is over. In `pipeline`, where
  no property depends on the length of a window, a window is a single instant and
  `MaxTime` is 1: an automatic block is in force and then has expired.
- `Calls` and `Requests` bound the requests: one more than a window holds, at least,
  and in `limiter` two more, to see a rejected request count. Two workers and two
  requests are the smallest instance in which one holds the mutex the other needs;
  with three requests a worker comes back for a second one while the other is still
  at work on its first.
- `MaxStepBack` bounds one clock correction, not their number.
- `MaxRestarts` is 1: one restart in the middle of every step. A second adds nothing
  that was not there after the first, since nothing but the tables survives. In
  `server` restarts are not bounded.
- `MaxRows` bounds the audit log of `Database` alone; the pipeline adds at most one
  row per request.
- One client address where a property is per client and clients share nothing; two in
  `limiter_ideal` and `database`, where they might. In `pipeline` one address is also
  what the shipped server has (`main.rs:429`).
- `scoring`: all eleven categories with their default weights; thresholds 0, 30 (three
  bot threats), 50 (the default) and 101 (pass-all). Up to three headers, and one or
  three cookies more, since three count, or one header more, in each order, so that
  the three that count can be others; each sign of
  the bot detector with and without the one that suppresses it.
- `server`: two connections, since a handler waits for at most one other; four files,
  one for each source of a value (written, missing key, missing section, whole
  default); twelve calls, one for each way through router, handlers and gates.
  `MaxRecent` is 3, one more than the limit of `Shipped`: it bounds the requests of
  an address that are counted or under way. The larger limits, 21 of `Strict` and 120 of
  the whole default, are not reached; the theorem covers them.
- Symmetry: requests and workers are interchangeable, and declared so only where no
  liveness is checked.

`CHECK_DEADLOCK FALSE` appears where the system may stop. The pipeline does when a
worker locks the database mutex twice (section 5), and when all requests are done and
time is used up; the evaluation of a request ends when it is done. `pipeline_live`
checks for deadlock: the operator's steps are always enabled when nobody is stuck. So
does `server`, which can always be restarted.

### Fairness

`WafPipeline!FairSpec` has weak fairness for each worker's steps: the runtime polls every task.
It assumes nothing of operators, the clock or arrivals. A worker that waits for the
database mutex is enabled only while it is free, and `std::sync::Mutex` is not fair,
so weak fairness alone would not do in general. But a passing worker holds the mutex
across steps only after a lookup that hit, and at most once per request: with
finitely many requests a waiter is passed over finitely often. An operator's statement
is one step and leaves the mutex free.

`Server!FairSpec` has weak fairness for `Handle(h)`, the work of a handler, which is
always enabled once a handler has the request: one that would wait for ever takes the
step to `hung`. Nothing is assumed of the upstream, because the call to it has no
timeout, nor of clients; a request at the upstream counts as settled, and
may stay there (section 5).

## 4. What is proved

For every value of the constants that satisfies the modules' assumptions; the
assumptions say what kind of thing each constant is, and those of `Inspection` also that
its categories are those of the detectors and that the second request of a pair is the
first with perhaps further headers and cookies, in any order. `tlapm` checks all of it.

| Module | Theorem | Says |
|---|---|---|
| `RateLimiter_proofs` | `LimiterTypes` | `Spec => []TypeOK` |
| | `AdmissionInvariant` | `HSpec => []HInv` |
| | `HistoryTypesHold` | `HSpec => []HTypeOK` |
| | `AdmissionBound` | `HSpec => []SlidingWindowBound` |
| | `NothingForgottenEarly` | `HSpec => []AdmittedStillCounted` |
| | `BlocksLeaveNoTrace` | `HSpec => []BlockLeavesNoTrace` |
| | `BlocksAreServed` | `HSpec => []BlockServed` |
| | `CleanupIsTransparent` | `Spec => CleanupTransparent` |
| | `LimiterImplementsIdeal` | `HSpec => ImplementsIdeal`, if `MaxStepBack = 0` |
| `Database_proofs` | `DatabaseTypes` | `Spec => []TypeOK` |
| | `BlocksAreKept` | `Spec => BlockNeverShortened` |
| `WafPipeline_proofs` | `Conservation` | `Spec => []RequestsConserved` |
| | `BlocklistHolds` | `Spec => []ListedNeverPasses` |
| | `PipelineTypes` | `Spec => []TypeOK` |
| | `AuditIsExact` | `Spec => []AuditExact` |
| `WafPipelineLimits_proofs` | `GeneralLimitHolds` | `Spec => []PassesWithinLimit` |
| | `EndpointLimitsHold` | `Spec => []EndpointPassesWithinLimit` |
| `Scoring_proofs` | `ScoringTypes` | `Spec => []TypeOK` |
| | `PassAllPolicy` | `Spec => []PassAllHonoured` |
| | `EvidenceNeverUnblocks` | `PairSpec => []MoreEvidenceNeverUnblocks` |
| | `RepetitionIsWorthNothing` | `PairSpec => []RepetitionIsFree` |
| | `PairIsTwoEvaluations` | `PairSpec => Spec /\ Second!Spec` |
| `Inspection_proofs` | `FurtherTextNeverUnblocks` | `InspectionSpec => []MoreTextNeverUnblocks` |
| | `OrderIsIgnored` | `InspectionSpec => []ScoreIgnoresOrder` |
| | `NothingFoundPasses` | `InspectionSpec => []QuietRequestPasses` |
| | `InspectionIsScoring` | `InspectionSpec => PairSpec` |
| | `EveryRequestInspected` | what the detectors report of any request is what `Scoring` takes as a report |
| `Server_proofs` | `SanitizedWithinRange` | every loaded file is within its ranges once sanitized |
| | `CheckConfigSilent` | `check-config` warns neither of weights nor of the path length |
| | `ServerTypes` | `Spec => []TypeOK` |
| | `UpstreamIsShielded` | `Spec => []UpstreamShielded` |
| | `UpstreamIsLimited` | `Spec => []UpstreamWithinLimit` |
| | `CleanRequestsPass` | `Spec => []CleanNeverScored` |
| | `HeadersAreEnforced` | `Spec => []HeadersEnforced` |
| | `TablesAreGuarded` | `Spec => TablesGuarded` |

**The limiter's bound.** `SlidingWindowBound` counts admitted requests in real time,
the code counts stamps of a wall clock that may have been set back. `HInv` ties the
two: `ClockNeverAhead` says that the wall clock never advances further than real time
does, so a stamp never looks older than it is; hence a request admitted less than a
window ago is in the pruned window (`AdmittedStillCounted`). At a check that admits,
the window that was counted therefore contains everything admitted in any real window
that ends now, and its cardinality is at most the limit. `CallsWereMade` keeps the new
request apart from the old ones, `WindowsFinite` is what the theorems on cardinality
need. The bound itself is part of the invariant because earlier windows are not
recounted. A block empties the window and the record of what was admitted together.

**Blocks.** `BlocksOutstanding` is the same thought for blocks: one that still has to
last is in the map, and by the wall clock it has no less time left than it has in real
time. So neither a check nor a cleanup finds it expired.

**The refinement.** `Prunes` relates a window to the full record: part of it, and all
of it that still counts. It is kept by every step when the clock never goes back; the
two counts are then those of one set. A cleanup, and the removal of an expired block,
are stutters. The hypothesis `MaxStepBack = 0` is needed: a clock set back makes a
pruned request count again in the ideal.

**Conservation.** Each step either moves no worker into or out of the stages before
the counter of the outcome, or moves one and changes one counter; `Uncounted` is a
finite set that gains or loses that worker. The proof goes by the kinds of steps, for
any number of workers.

**The blocklist.** The invariant says that a worker past the lookup whose client has
been listed since it arrived is on its way to a rejection, or has misread the list
(`unread`). `StepIsLocal` and `ListedStays` show that the other workers, the operator,
the clock and a restart do not disturb it.

**The pipeline's types and its audit log.** `TypeInv` adds to the types that a worker
that is not idle has a request that arrived, and a decision from the first rejection
on. `Apart` says that no two workers have the same request. With it, a step of one
worker leaves the rows of every other request alone (`StepTouchesOwnRow`), and
`LoggedSoFar` counts the rows of a request under way: none up to the audit step, and
after it one, unless the request passes, is `unwritten`, or there is nothing to log.
`DecisionStands` says that no step after a gate changes the decision. Answering turns
the one into the other.

**The pipeline's limits.** What is bounded is forwarded requests, what is counted is
recorded ones, and between the two lie gates and other workers. `Admitted(ip)` is what
was forwarded in this life of the process or still may be. `Remembered` says that
such a request is in the window it was checked against for as long as the window
lasts; so at a check, the requests in the time window inject into the entries just
counted, and there are no more of them than the limit allows. Later steps only remove
requests from `Admitted` or move them to `answered`. `Bounded` is part of the invariant
because earlier time windows are not recounted, and `PastBounded` keeps the bound of a
life that a restart ended. One argument serves the general window and those of the
endpoints, in any order of the map.

**The store.** `RowStays`: a row that is there stays as it is under every statement but
the removal of its address, since an insert that meets it is ignored. A block that is
in force therefore is not only not shortened, it is not changed.

**Scoring.** `PairInv` says that the second evaluation has collected at least the
first one's points and threats, and exactly those when it only had repetitions to
add. `LongerReport` and `FullReport` say so for one report; the products with at most
three hits are written out for the solver (`HitsAreMonotone`). `PairIsTwoEvaluations`
says that running the two in lockstep restricts neither.

**Lists.** What is said of texts, threats and reports is said of sequences of any
length. The induction theorems of the library take an operator as a parameter, which
no backend can instantiate, but a *set* can take its place: `NatInduct` and `SeqInduct`
say that a set of numbers, or of sequences, that holds the first and is closed under
the next holds all, from the well-foundedness of the natural numbers (`WFMin`). From
them `Lists_proofs` derives what `FlattenSeq` does: `Bind(f, s)`, the concatenation of
what a function `f` gives for each element of `s`, distributes over concatenation, and
its length is a sum that does not ask for the order. Searching, filtering and scanning
are all of this form.

**Inspection.** `InspectionInv` adds to the types that the two sets of reports are
those on the two requests (`Linked`), and three conditional facts on what has been
collected.

- *Further headers and cookies.* They may be iterated before the others, so a report on
  the second request need not begin like the first. What can be compared is numbers:
  whatever is counted of the texts, the extended request has no less of it
  (`MoreIsCounted`), since a header or cookie is counted once, wherever it is. So no rule
  table has fewer hits (`MoreHits`), and neither has the bot detector, unless a scanner is
  news (`MoreBots`): a scanner suppresses indicators in headers, and what was found
  before is found again (`ScannerStays`). A new one is worth at least 90. Either it is
  among the three threats that count and reaches the confidence threshold, or three
  threats come before it, which are as many as can count (`NewScanner`). `Ahead` says
  that of two reports the second is certain enough or counts for as many
  (`ExtendedIsAhead`), and `Standing` carries it through the evaluation: the second is
  bound to be blocked by the override, or scores as high as the first.
- *Order.* Two requests with the same headers and cookies extend one another
  (`Reorders`), so each has no less than the other, and their reports are of equal length
  (`ReportsOfOrder`). Equal lengths are equal scores.
- *Quiet requests.* No rule hits a quiet text (`NoHits`), and the bot detector gives
  the whole request at most the missing host, at 45. `QuietStanding` adds up what that
  is worth: nothing up to the category's turn in the order, its weight after it.

`EveryRequestInspected` closes a gap that would make the rest hollow: `InspectionInit`
asks that the reports be of the type the scoring engine is specified for, and this
says that those of any request are.

**The server.** The base is `TypeOK` with `Started`: the configuration in use is
`Sanitize(Load(f))` of one of the files. `ConfigurationSound` takes what the server
needs of it from `SanitizedWithinRange`; `AsConfigured` says that the values the author
wrote are those in use. `Outcome(h)` is what a step may make of one connection: it is
left as it was, or goes upstream with an admissible request, or gets an answer that
has its headers and its cause. A step of a handler concerns one connection
(`OneConnection`), so one lemma per handler suffices.
`PassIsAdmissible` joins the gates to the file; on the way, `MatchIsBelow` shows that
the string comparison of the allowlist says "below the entry" on pieces; the path
asked of the upstream is the one evaluated where there is no query. For the limit it
suffices that of the requests counted for an address no fewer are in its window than
went upstream, and that `Limited` refuses the one that would exceed it.

Only model-checked: `EveryRequestAnswered` and `EveryCallSettled`, since liveness under
fairness is out of the prover's reach, and the properties of section 5, which do not
hold. Every other property of the runs is a theorem.

## 5. Where code and documentation differ

Each of the first four has a run whose counterexample shows it.

- `pipeline_listed_answered`: with `log_blocked` on, a request of a blocklisted client
  is never answered. The guard of the lookup (`waf.rs:131`) is alive when the audit
  helper locks the same mutex (`waf.rs:314`).
- `database_add`: adding an address whose earlier block has expired does nothing and
  returns `Ok`, since the expired row is still there (`database.rs:109`).
- `scoring_single_match`: "Any single match at >= this confidence forces a direct
  block" (`README.md:115`), but the override sees only the first three threats of a
  category. In the counterexample a bot indicator in path, query and content type, 75
  percent each, comes before a scanner's User-Agent at 95 percent, and at the default
  thresholds the request passes.
- `server_query`: "only requests whose path matches an entry in `allowed_paths` are
  forwarded" (`README.md:105`), "preserving method, query string, body" (`README.md:41`),
  but the URL of the upstream is built from the query alone (`main.rs:441`): a request
  for `/api/x` with a query is forwarded as one for the root, which no entry admits.

These the model has as well. They are the conditions under which properties of the
`server` run hold, and the comments of those properties name them:

- "`POST <prefix>block/{ip}`" with the `X-Admin-Token` header (`README.md:35,40`) is
  answered 401 whatever the token. The handler authenticates a path of its own, without
  the prefix (`main.rs:226`), and `authenticate` demands the prefix. `status`,
  `metrics`, `unblock` and `whitelist` do the same. So the first half of `TablesGuarded`,
  that only the token commands, holds because no command is obeyed; the mutant
  `HeaderPresent` is a handler that obeys.
- "Allowed requests per IP per window" (`README.md:124`), but every request is evaluated
  as one of 127.0.0.1 (`main.rs:429`): the limit that `UpstreamWithinLimit` is about is one
  for all clients, and one of them is refused for the requests of the others.
- The security headers are "applied to all responses via middleware" (`README.md:170`),
  but handlers set them one by one. What the router answers itself (405, 413, 400) and
  the refusals of the admin handlers (401, 400) have none, and `HeadersEnforced` is about
  the rest.
- "Missing keys fall back to sensible defaults" (`README.md:77`), `DENY` and so on for the
  headers (`README.md:174`), 50 for the threshold (`README.md:114`). Without
  `[response_headers]` the headers are empty (`config.rs:32`), and without `[scoring]` the
  threshold is 0, which a request with nothing in it reaches (`scoring.rs:198`).
  `HeadersEnforced` and `CleanNeverScored` leave such files out.
- `upstream_timeout_ms` is the "reqwest timeout for upstream forwarding" (`README.md:98`),
  but nothing reads it (`main.rs:448`), and a request stays at an upstream that does not
  answer. For `EveryCallSettled` it is settled.

## 6. What is not modelled

- Regular expressions, URL and hex decoding, and everything else that is done
  character by character: which pattern a text matches is an input.
- Code that only tests call: `AllowlistService::update_entries` and `get_entries`,
  `AdminCommandExecutor`, `parse_query_params`, `parse_cookies`, `is_content_type`,
  `default_action`, `set_bot_detection_weight`.
- What nothing reads: the per-category counters of `Metrics`, the sections `geo_ip`,
  `tls_inspector` and `bot_protection` beyond their loading.
- What only reads or prints: `stats()`, the database's reports, `get_log_token_value`,
  the output of the commands, command-line parsing.
- Of what the upstream is asked, all but the path: method, headers and body.
- Overflow: `window_seconds * 1000` and the sums of weights are taken as exact. The
  weights are clamped to 100 by the server, so their sum is at most 3300; a window of
  more than 10^16 seconds is not a configuration anybody has. A library user who skips
  `sanitize()` is not covered.
- Poisoned mutexes: every lock is unwrapped, so a panic in a critical section would
  fail all later requests; nothing in a critical section panics.
- SHA-256 (an injective function of the secret), TOML and JSON syntax (a file parses or
  does not), HTTP itself.
- `lib.rs`, which only re-exports.

## 7. Plan

Done: limiter and its refinement, store, metrics, pipeline; parser, detectors, bot
detection and scoring composed; configuration, allowlist, admin authentication and the
server that composes them; the theorems of section 4, which state every invariant and
action property that a passing run checks.

Left, should the code grow there:

1. A refinement from `WafPipeline` to `Server`'s one-step `Evaluate`: it needs a
   pipeline whose configuration is a variable.
2. Several categories of evidence in `Server`, by taking `Inspection`'s verdict for
   `Score`: a larger instance and no new interaction. `InspectionIsScoring` is the half
   of it that is proved.
