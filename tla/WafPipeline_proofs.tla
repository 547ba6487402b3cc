-------------------------- MODULE WafPipeline_proofs --------------------------
(* Proofs about evaluate, for any number of workers, requests and profiles,    *)
(* with or without the database, the limiter, the audit log and the admin API: *)
(* the counters, the blocklist, the types of evaluate and its shared state,    *)
(* and the completeness of the audit log.                                      *)
EXTENDS WafPipeline, FiniteSetTheorems, SequenceTheorems, TLAPS

(*************************** where the workers are *****************************)

\* The metrics' counters are natural numbers and every worker is somewhere.
CountersType == /\ pc \in [Workers -> Stages]
                /\ total_requests \in Nat
                /\ blocked_requests \in Nat
                /\ allowed_requests \in Nat
                /\ challenged_requests \in Nat

Pending == {"endpoints", "general", "lookup", "scan", "count"}

\* A step of evaluate moves one worker and touches the counters in one of four
\* ways.
Moves(w, s) == s \in Stages /\ pc' = [pc EXCEPT ![w] = s]

SameCounts == UNCHANGED <<total_requests, blocked_requests, allowed_requests,
                          challenged_requests>>

\* The worker stays on its side of its outcome's fetch_add.
Passes(w) == \E s \in Stages : /\ Moves(w, s)
                               /\ pc[w] \in Pending <=> s \in Pending
                               /\ SameCounts

Enters(w) == \E s \in Pending :
                 /\ Moves(w, s)
                 /\ pc[w] = "idle"
                 /\ total_requests' = total_requests + 1
                 /\ UNCHANGED <<blocked_requests, allowed_requests, challenged_requests>>

Leaves(w) == \E s \in Stages \ Pending :
                 /\ Moves(w, s)
                 /\ pc[w] \in Pending
                 /\ UNCHANGED <<total_requests, challenged_requests>>
                 /\ \/ /\ blocked_requests' = blocked_requests + 1
                       /\ UNCHANGED allowed_requests
                    \/ /\ allowed_requests' = allowed_requests + 1
                       /\ UNCHANGED blocked_requests

\* The first step of evaluate brings in a worker that is not counted yet.
LEMMA BeginEnters ==
    ASSUME NEW w \in Workers, NEW r \in Requests, NEW p \in Profiles, Begin(w, r, p)
    PROVE  Enters(w)
<1>1. \E s \in {"count", "endpoints"} : pc' = [pc EXCEPT ![w] = s]
  BY DEF Begin, Reject, GoTo
<1> QED BY <1>1 DEF Begin, Enters, Moves, Pending, Stages, M!RecordRequest

\* Every other step leaves the worker on its side or counts its outcome.
LEMMA StepPassesOrLeaves ==
    ASSUME pc \in [Workers -> Stages], NEW w \in Workers, Step(w)
    PROVE  Passes(w) \/ Leaves(w)
<1>1. CASE CheckEndpointLimit(w)
  <2>1. \E s \in {"count", "endpoints"} : pc' = [pc EXCEPT ![w] = s]
    BY <1>1 DEF CheckEndpointLimit, Reject, GoTo
  <2> QED BY <1>1, <2>1
          DEF CheckEndpointLimit, Passes, Moves, Pending, Stages, SameCounts, metricVars
<1>2. CASE EndpointsPassed(w)
  BY <1>2 DEF EndpointsPassed, GoTo, AfterLimits, Passes, Moves, Pending, Stages,
              SameCounts, metricVars
<1>3. CASE CheckGeneralLimit(w)
  <2>1. \E s \in {"count", "lookup", "scan"} : pc' = [pc EXCEPT ![w] = s]
    BY <1>3 DEF CheckGeneralLimit, Reject, GoTo, AfterLimits
  <2> QED BY <1>3, <2>1
          DEF CheckGeneralLimit, Passes, Moves, Pending, Stages, SameCounts, metricVars
<1>4. CASE Lookup(w)
  BY <1>4 DEF Lookup, Reject, GoTo, Passes, Moves, Pending, Stages, SameCounts, metricVars
<1>5. CASE Scan(w)
  <2>1. CASE M!RecordAllowed /\ GoTo(w, "answer")
    BY <1>5, <2>1 DEF Scan, M!RecordAllowed, GoTo, Leaves, Moves, Pending, Stages
  <2>2. CASE GoTo(w, "count") /\ UNCHANGED metricVars
    BY <1>5, <2>2 DEF Scan, GoTo, Passes, Moves, Pending, Stages, SameCounts, metricVars
  <2> QED BY <1>5, <2>1, <2>2 DEF Scan, Reject
<1>6. CASE CountBlocked(w)
  BY <1>6 DEF CountBlocked, M!CountBlocked, GoTo, Leaves, Moves, Pending, Stages
<1>7. CASE StoreScore(w)
  BY <1>7 DEF StoreScore, M!StoreScore, GoTo, AfterCount, AfterAudit, Passes, Moves, Pending,
              Stages, SameCounts
<1>8. CASE Audit(w)
  BY <1>8 DEF Audit, GoTo, AfterCount, AfterAudit, Passes, Moves, Pending, Stages, SameCounts,
              metricVars
<1>9. CASE AutoBlock(w)
  BY <1>9 DEF AutoBlock, GoTo, Passes, Moves, Pending, Stages, SameCounts, metricVars
<1>10. CASE Answer(w)
  BY <1>10 DEF Answer, GoTo, Passes, Moves, Pending, Stages, SameCounts, metricVars
<1> QED BY <1>1, <1>2, <1>3, <1>4, <1>5, <1>6, <1>7, <1>8, <1>9, <1>10 DEF Step

\* The other steps move no worker and count nothing, except that a restart
\* takes every worker and every counter back to its start.
LEMMA EnvironmentMovesNobody ==
    ASSUME Admin \/ Tick \/ UNCHANGED vars
    PROVE  pc' = pc /\ SameCounts
BY DEF Admin, Tick, vars, workerVars, metricVars, SameCounts

\* After a restart no worker is busy and the counters are 0.
LEMMA RestartClears ==
    ASSUME Restart
    PROVE  /\ pc' = [w \in Workers |-> "idle"]
           /\ total_requests' = 0 /\ blocked_requests' = 0 /\ allowed_requests' = 0
           /\ challenged_requests' = 0
BY DEF Restart

(*************************** conservation **************************************)

\* The uncounted workers are finitely many.
LEMMA UncountedFinite ==
    IsFiniteSet(Uncounted) /\ Cardinality(Uncounted) \in Nat
<1>1. Uncounted \in SUBSET Workers
  BY DEF Uncounted
<1> QED BY <1>1, WorkerAssumption, FS_Subset, FS_CardinalityType

\* A worker that enters or leaves the uncounted ones changes their number by 1.
LEMMA UncountedMoves ==
    ASSUME pc \in [Workers -> Stages], NEW w \in Workers, NEW s \in Stages, Moves(w, s)
    PROVE  Cardinality(Uncounted') =
             IF pc[w] \in Pending
             THEN IF s \in Pending THEN Cardinality(Uncounted) ELSE Cardinality(Uncounted) - 1
             ELSE IF s \in Pending THEN Cardinality(Uncounted) + 1 ELSE Cardinality(Uncounted)
<1>1. Uncounted' = IF s \in Pending THEN Uncounted \cup {w} ELSE Uncounted \ {w}
  BY DEF Moves, Uncounted, Pending
<1>2. w \in Uncounted <=> pc[w] \in Pending
  BY DEF Uncounted, Pending
<1>3. CASE s \in Pending
  BY <1>1, <1>2, <1>3, UncountedFinite, FS_AddElement
<1>4. CASE s \notin Pending
  BY <1>1, <1>2, <1>4, UncountedFinite, FS_RemoveElement
<1> QED BY <1>3, <1>4

\* However the workers interleave, restarts included, each request is counted
\* once in total_requests and once under its outcome.
THEOREM Conservation == Spec => []RequestsConserved
<1> DEFINE Inv == CountersType /\ RequestsConserved
<1>1. Init => Inv
  <2> SUFFICES ASSUME Init PROVE Inv
    OBVIOUS
  <2>1. Uncounted = {}
    BY DEF Init, Uncounted
  <2>2. Cardinality(Uncounted) = 0
    BY <2>1, FS_EmptySet
  <2> QED BY <2>2 DEF Init, M!Init, CountersType, RequestsConserved, Stages
<1>2. Inv /\ [Next]_vars => Inv'
  <2> SUFFICES ASSUME CountersType, RequestsConserved, [Next]_vars PROVE Inv'
    OBVIOUS
  <2>0. Cardinality(Uncounted) \in Nat
    BY UncountedFinite
  <2>1. ASSUME NEW w \in Workers, Passes(w) PROVE Inv'
    <3>1. PICK s \in Stages : /\ Moves(w, s)
                              /\ pc[w] \in Pending <=> s \in Pending
                              /\ SameCounts
      BY <2>1 DEF Passes
    <3>2. Cardinality(Uncounted') = Cardinality(Uncounted)
      BY <3>1, UncountedMoves DEF CountersType
    <3> QED BY <3>1, <3>2 DEF SameCounts, CountersType, RequestsConserved, Moves
  <2>2. ASSUME NEW w \in Workers, Enters(w) PROVE Inv'
    <3>1. PICK s \in Pending : /\ Moves(w, s)
                               /\ pc[w] = "idle"
                               /\ total_requests' = total_requests + 1
                               /\ UNCHANGED <<blocked_requests, allowed_requests,
                                              challenged_requests>>
      BY <2>2 DEF Enters
    <3>2. Cardinality(Uncounted') = Cardinality(Uncounted) + 1
      BY <3>1, UncountedMoves DEF CountersType, Pending, Moves
    <3> QED BY <2>0, <3>1, <3>2 DEF CountersType, RequestsConserved, Moves
  <2>3. ASSUME NEW w \in Workers, Leaves(w) PROVE Inv'
    <3>1. PICK s \in Stages \ Pending :
              /\ Moves(w, s)
              /\ pc[w] \in Pending
              /\ UNCHANGED <<total_requests, challenged_requests>>
              /\ \/ /\ blocked_requests' = blocked_requests + 1
                    /\ UNCHANGED allowed_requests
                 \/ /\ allowed_requests' = allowed_requests + 1
                    /\ UNCHANGED blocked_requests
      BY <2>3 DEF Leaves
    <3>2. Cardinality(Uncounted') = Cardinality(Uncounted) - 1
      BY <3>1, UncountedMoves DEF CountersType
    <3> QED BY <2>0, <3>1, <3>2 DEF CountersType, RequestsConserved, Moves
  <2>4. CASE Admin \/ Tick \/ UNCHANGED vars
    <3>1. pc' = pc /\ SameCounts
      BY <2>4, EnvironmentMovesNobody
    <3>2. Uncounted' = Uncounted
      BY <3>1 DEF Uncounted
    <3> QED BY <3>1, <3>2 DEF SameCounts, CountersType, RequestsConserved
  <2>5. CASE Restart
    <3>1. Uncounted' = {}
      BY <2>5, RestartClears DEF Uncounted
    <3>2. Cardinality(Uncounted') = 0
      BY <3>1, FS_EmptySet
    <3> QED BY <2>5, <3>2, RestartClears DEF CountersType, RequestsConserved, Stages
  <2>6. ASSUME NEW w \in Workers, Step(w) PROVE Inv'
    BY <2>1, <2>3, <2>6, StepPassesOrLeaves DEF CountersType
  <2>7. ASSUME NEW w \in Workers, NEW r \in Requests, NEW p \in Profiles, Begin(w, r, p)
        PROVE  Inv'
    BY <2>2, <2>7, BeginEnters
  <2> QED BY <2>4, <2>5, <2>6, <2>7 DEF Next
<1> QED BY <1>1, <1>2, PTL DEF Spec

(*************************** blocklisted clients *******************************)

\* A worker whose client has been listed since the request arrived has not got
\* past the lookup, or was caught by some gate, or its lookup failed.
Caught(w) == /\ pc[w] \in {"count", "gauge", "audit", "autoblock", "answer"}
             /\ outcome[w].decision # "Pass"
Misread(w) == job[w].request \in unread
HasOutcomes == outcome = [v \in Workers |-> outcome[v]]
HasJobs     == job = [v \in Workers |-> job[v]]
ListedInv ==
    /\ pc \in [Workers -> Stages]
    /\ HasOutcomes
    /\ HasJobs
    /\ db_open => \A w \in Workers : listed[w] =>
          /\ DB!IsIpBlocked(Ip(w))
          /\ pc[w] \in {"endpoints", "general", "lookup"} \/ Caught(w) \/ Misread(w)

\* What TrackListed says of one worker.
LEMMA ListedStays ==
    ASSUME TrackListed, NEW w \in Workers, listed'[w]
    PROVE  /\ pc'[w] # "idle"
           /\ pc[w] # "idle" => listed[w]
           /\ DB!IsIpBlocked(Ip(w))'
BY DEF TrackListed

\* A worker that rejects is caught.
LEMMA RejectCatches ==
    ASSUME pc \in [Workers -> Stages], HasOutcomes,
           NEW w \in Workers, NEW d \in Decisions \ {"Pass"}, NEW n, Reject(w, d, n)
    PROVE  /\ pc' \in [Workers -> Stages]
           /\ HasOutcomes'
           /\ Caught(w)'
<1>1. outcome'[w] = [decision |-> d, score |-> n]
  BY DEF Reject, Decide, HasOutcomes
<1>2. pc' = [pc EXCEPT ![w] = "count"] /\ HasOutcomes'
  BY DEF Reject, GoTo, Decide, HasOutcomes
<1> QED BY <1>1, <1>2 DEF Caught, Stages

\* A step of a worker leaves the others where they are.
LEMMA StepIsLocal ==
    ASSUME pc \in [Workers -> Stages], HasOutcomes, HasJobs,
           NEW w \in Workers,
           Step(w) \/ \E r \in Requests, p \in Profiles : Begin(w, r, p)
    PROVE  \A v \in Workers \ {w} : /\ pc'[v] = pc[v]
                                    /\ outcome'[v] = outcome[v]
                                    /\ job'[v] = job[v]
BY DEF Step, Begin, CheckEndpointLimit, EndpointsPassed, CheckGeneralLimit, Lookup,
       Scan, CountBlocked, StoreScore, Audit, AutoBlock, Answer, Reject, GoTo, Decide,
       HasOutcomes, HasJobs

\* A failed lookup is remembered, and a worker keeps its job until it is done.
LEMMA JobsStay ==
    ASSUME pc \in [Workers -> Stages], HasJobs, NEW w \in Workers,
           Step(w) \/ \E r \in Requests, p \in Profiles : Begin(w, r, p)
    PROVE  /\ HasJobs'
           /\ unread \subseteq unread'
           /\ pc[w] # "idle" /\ pc'[w] # "idle" => job' = job
<1>1. ASSUME NEW r \in Requests, NEW p \in Profiles, Begin(w, r, p)
      PROVE  pc[w] = "idle" /\ HasJobs' /\ unread' = unread
  BY <1>1 DEF Begin, HasJobs, historyVars
<1>2. CASE Answer(w)
  BY <1>2 DEF Answer, GoTo, HasJobs
<1>3. CASE Step(w) /\ ~Answer(w)
  <2>1. job' = job
    BY <1>3 DEF Step, CheckEndpointLimit, EndpointsPassed, CheckGeneralLimit, Lookup,
                Scan, CountBlocked, StoreScore, Audit, AutoBlock
  <2>2. unread \subseteq unread'
    BY <1>3 DEF Step, CheckEndpointLimit, EndpointsPassed, CheckGeneralLimit, Lookup,
                Scan, CountBlocked, StoreScore, Audit, AutoBlock, historyVars
  <2> QED BY <2>1, <2>2 DEF HasJobs
<1> QED BY <1>1, <1>2, <1>3

\* What a step of evaluate does to the worker that takes it, when the blocklist
\* is enabled.
Progress(w) == /\ pc' \in [Workers -> Stages]
               /\ HasOutcomes'
               /\ UNCHANGED db_open
               /\ \/ pc'[w] \in {"idle", "endpoints", "general", "lookup"}
                  \/ Caught(w)'
                  \/ pc[w] = "lookup" /\ (Listed(w) => Misread(w)')
                  \/ pc[w] = "scan"
                  \/ /\ ~Caught(w)
                     /\ pc[w] \in {"count", "gauge", "audit", "autoblock", "answer"}

\* Every step of evaluate makes progress in this sense.
LEMMA StepProgress ==
    ASSUME BlocklistOn, ListedInv, NEW w \in Workers,
           Step(w) \/ \E r \in Requests, p \in Profiles : Begin(w, r, p)
    PROVE  Progress(w)
<1> USE DEF ListedInv
<1>1. ASSUME NEW r \in Requests, NEW p \in Profiles, Begin(w, r, p)
      PROVE  Progress(w)
  <2>1. CASE Reject(w, "AllowlistDenied", 0)
    BY <1>1, <2>1, RejectCatches DEF Begin, Progress, Decisions, processVars
  <2>2. CASE GoTo(w, "endpoints") /\ UNCHANGED outcome
    BY <1>1, <2>2 DEF Begin, Progress, GoTo, HasOutcomes, Stages, processVars
  <2> QED BY <1>1, <2>1, <2>2 DEF Begin
<1>2. CASE CheckEndpointLimit(w)
  <2>1. CASE Reject(w, "RateLimited", 0)
    BY <1>2, <2>1, RejectCatches DEF CheckEndpointLimit, Progress, Decisions, processVars
  <2>2. CASE UNCHANGED <<pc, outcome>>
    BY <1>2, <2>2 DEF CheckEndpointLimit, Progress, HasOutcomes, processVars
  <2> QED BY <1>2, <2>1, <2>2 DEF CheckEndpointLimit
<1>3. CASE EndpointsPassed(w)
  BY <1>3 DEF EndpointsPassed, GoTo, AfterLimits, Progress, HasOutcomes, Stages,
              processVars
<1>4. CASE CheckGeneralLimit(w)
  <2>1. CASE Reject(w, "RateLimited", 0)
    BY <1>4, <2>1, RejectCatches DEF CheckGeneralLimit, Progress, Decisions, processVars
  <2>2. CASE GoTo(w, AfterLimits) /\ UNCHANGED outcome
    BY <1>4, <2>2 DEF CheckGeneralLimit, GoTo, AfterLimits, Progress, HasOutcomes,
                      Stages, processVars
  <2> QED BY <1>4, <2>1, <2>2 DEF CheckGeneralLimit
<1>5. CASE Lookup(w)
  <2>1. CASE Reject(w, "IpBlocklisted", 0)
    BY <1>5, <2>1, RejectCatches DEF Lookup, Progress, Decisions, processVars
  <2>2. CASE (Listed(w) => Misread(w)') /\ GoTo(w, "scan") /\ UNCHANGED outcome
    BY <1>5, <2>2 DEF Lookup, GoTo, Progress, HasOutcomes, Stages, processVars
  <2> QED BY <1>5, <2>1, <2>2 DEF Lookup, Misread
<1>6. CASE Scan(w)
  <2>1. pc' \in [Workers -> Stages] /\ HasOutcomes' /\ pc[w] = "scan"
    BY <1>6 DEF Scan, Reject, GoTo, Decide, HasOutcomes, Stages
  <2> QED BY <1>6, <2>1 DEF Scan, Progress, processVars
<1>7. CASE CountBlocked(w) \/ StoreScore(w) \/ Audit(w) \/ AutoBlock(w)
  <2>1. /\ pc[w] \in {"count", "gauge", "audit", "autoblock"}
        /\ \E s \in {"gauge", "audit", "autoblock", "answer"} :
              pc' = [pc EXCEPT ![w] = s]
        /\ outcome' = outcome
        /\ UNCHANGED db_open
    BY <1>7 DEF CountBlocked, StoreScore, Audit, AutoBlock, GoTo, AfterCount, AfterAudit, processVars
  <2> QED BY <2>1 DEF Progress, HasOutcomes, Caught, Stages
<1>8. CASE Answer(w)
  BY <1>8 DEF Answer, GoTo, Progress, HasOutcomes, Stages, processVars
<1> QED BY <1>1, <1>2, <1>3, <1>4, <1>5, <1>6, <1>7, <1>8 DEF Step

\* No request that arrives while its client is on the blocklist is forwarded,
\* whatever the other workers and the operators do meanwhile and across restarts,
\* unless the database is not open or its lookup failed.
THEOREM BlocklistHolds == Spec => []ListedNeverPasses
<1>1. CASE ~BlocklistOn
  <2>1. ListedNeverPasses
    BY <1>1 DEF ListedNeverPasses
  <2> QED BY <2>1, PTL
<1>2. CASE BlocklistOn
  <2>1. Init => ListedInv
    BY <1>2 DEF Init, ListedInv, HasOutcomes, HasJobs, Stages
  <2>2. ListedInv /\ [Next]_vars => ListedInv'
    <3> SUFFICES ASSUME ListedInv, [Next]_vars PROVE ListedInv'
      OBVIOUS
    <3>1. ASSUME NEW w \in Workers, TrackListed,
                 Step(w) \/ \E r \in Requests, p \in Profiles : Begin(w, r, p)
          PROVE  ListedInv'
      <4>1. Progress(w)
        BY <1>2, <3>1, StepProgress
      <4>2. \A v \in Workers \ {w} : /\ pc'[v] = pc[v]
                                    /\ outcome'[v] = outcome[v]
                                    /\ job'[v] = job[v]
        BY <3>1, StepIsLocal DEF ListedInv
      <4>0. /\ HasJobs'
            /\ unread \subseteq unread'
            /\ pc[w] # "idle" /\ pc'[w] # "idle" => job' = job
        BY <3>1, JobsStay DEF ListedInv
      <4> SUFFICES ASSUME db_open, NEW v \in Workers, listed'[v]
                   PROVE  /\ DB!IsIpBlocked(Ip(v))'
                          /\ \/ pc'[v] \in {"endpoints", "general", "lookup"}
                             \/ Caught(v)'
                             \/ Misread(v)'
        BY <4>0, <4>1 DEF ListedInv, Progress
      <4>3. /\ pc'[v] # "idle"
            /\ pc[v] # "idle" => listed[v]
            /\ DB!IsIpBlocked(Ip(v))'
        BY <3>1, ListedStays
      <4>4. pc[v] # "idle" => /\ DB!IsIpBlocked(Ip(v))
                              /\ \/ pc[v] \in {"endpoints", "general", "lookup"}
                                 \/ Caught(v)
                                 \/ Misread(v)
        BY <4>3 DEF ListedInv
      <4>5. CASE v = w
        <5>1. CASE pc[w] = "idle"
          BY <4>1, <4>3, <4>5, <5>1 DEF Progress
        <5>2. CASE pc[w] # "idle"
          <6>1. Misread(w) => Misread(w)'
            BY <4>0, <4>3, <4>5, <5>2 DEF Misread
          <6> QED BY <4>1, <4>3, <4>4, <4>5, <5>2, <6>1 DEF Progress, Caught, Listed
        <5> QED BY <5>1, <5>2
      <4>6. CASE v # w
        <5>1. Misread(v) => Misread(v)'
          BY <4>0, <4>2, <4>6 DEF Misread
        <5> QED BY <4>2, <4>3, <4>4, <4>6, <5>1 DEF Caught
      <4> QED BY <4>5, <4>6
    <3>2. CASE TrackListed /\ (Admin \/ Tick)
      <4>1. UNCHANGED <<pc, outcome, job, db_open, unread>>
        BY <3>2 DEF Admin, Tick, workerVars, processVars, historyVars
      <4> SUFFICES ASSUME db_open, NEW v \in Workers, listed'[v]
                   PROVE  /\ DB!IsIpBlocked(Ip(v))'
                          /\ \/ pc[v] \in {"endpoints", "general", "lookup"}
                             \/ Caught(v)
                             \/ Misread(v)
        BY <4>1 DEF ListedInv, HasOutcomes, HasJobs, Caught, Misread
      <4>2. pc[v] # "idle" /\ listed[v] /\ DB!IsIpBlocked(Ip(v))'
        BY <3>2, <4>1, ListedStays
      <4> QED BY <4>2 DEF ListedInv
    <3>3. CASE TrackListed /\ Restart
      <4>1. /\ \A v \in Workers : pc'[v] = "idle"
            /\ pc' \in [Workers -> Stages] /\ HasOutcomes' /\ HasJobs'
        BY <1>2, <3>3 DEF Restart, HasOutcomes, HasJobs, Stages
      <4>2. \A v \in Workers : ~listed'[v]
        BY <3>3, <4>1, ListedStays
      <4> QED BY <4>1, <4>2 DEF ListedInv
    <3>4. CASE UNCHANGED vars
      BY <3>4 DEF vars, workerVars, processVars, tableVars, historyVars, ListedInv,
                  HasOutcomes, HasJobs, Caught, Misread, DB!IsIpBlocked, DB!Unexpired, Ip
    <3> QED BY <3>1, <3>2, <3>3, <3>4 DEF Next
  <2>3. ListedInv => ListedNeverPasses
    BY DEF ListedInv, ListedNeverPasses, Caught, Misread
  <2> QED BY <2>1, <2>2, <2>3, PTL DEF Spec
<1> QED BY <1>1, <1>2

(************************ the limiter's own steps ******************************)

\* The instance has its own copy of Cardinality, which is the same operator.
LEMMA SameCardinality == \A S : Limiter!Cardinality(S) = Cardinality(S)
BY DEF Limiter!Cardinality, Cardinality

\* The types of the limiter's fields, with windows that can be counted.
LimiterOK == /\ Limiter!TypeOK
             /\ \A ip \in DOMAIN windows : IsFiniteSet(windows[ip])
             /\ \A k \in DOMAIN endpoint_windows : IsFiniteSet(endpoint_windows[k])

\* record() keeps a window a finite set of entries.
LEMMA WindowStaysFinite ==
    ASSUME NEW w \in SUBSET Limiter!Entry, IsFiniteSet(w), NEW t \in Nat, NEW r \in Requests
    PROVE  /\ Limiter!Recorded(w, t, r) \in SUBSET Limiter!Entry
           /\ IsFiniteSet(Limiter!Recorded(w, t, r))
           /\ Limiter!Counted(Cardinality(Limiter!Recorded(w, t, r))) \in Limiter!Verdicts
<1> DEFINE u == Limiter!Recorded(w, t, r)
<1>1. Limiter!Retained(w, t) \subseteq w
  BY DEF Limiter!Retained
<1>2. u \in SUBSET Limiter!Entry
  BY <1>1 DEF Limiter!Recorded, Limiter!Entry
<1>3. IsFiniteSet(u)
  BY <1>1, FS_Subset, FS_AddElement DEF Limiter!Recorded
<1>4. Cardinality(u) \in Nat
  BY <1>3, FS_CardinalityType
<1> HIDE DEF u
<1>5. Limiter!Counted(Cardinality(u)) \in Limiter!Verdicts
  BY <1>4, NumberAssumption DEF Limiter!Counted, Limiter!Limit, Limiter!Verdicts
<1> QED BY <1>2, <1>3, <1>5 DEF u

\* Replacing the window of a key keeps the windows finite sets of entries.
LEMMA PutWindow ==
    ASSUME NEW K, NEW map, Limiter!IsMap(map, K, SUBSET Limiter!Entry),
           \A q \in DOMAIN map : IsFiniteSet(map[q]),
           NEW k \in K, NEW w \in SUBSET Limiter!Entry, IsFiniteSet(w)
    PROVE  /\ Limiter!IsMap(Limiter!Put(map, k, w), K, SUBSET Limiter!Entry)
           /\ \A q \in DOMAIN Limiter!Put(map, k, w) : IsFiniteSet(Limiter!Put(map, k, w)[q])
BY DEF Limiter!IsMap, Limiter!Put

\* A general check keeps the limiter's fields of their types.
LEMMA CheckKeepsTypes ==
    ASSUME LimiterOK, NEW ip \in IPs, NEW r \in Requests, Limiter!Check(ip, r)
    PROVE  LimiterOK'
<1> DEFINE w == Limiter!Recorded(Limiter!WindowAt(windows, ip), wall, r)
<1>1. /\ Limiter!WindowAt(windows, ip) \in SUBSET Limiter!Entry
      /\ IsFiniteSet(Limiter!WindowAt(windows, ip))
      /\ wall \in Nat
  BY FS_EmptySet
     DEF LimiterOK, Limiter!TypeOK, Limiter!WindowAt, Limiter!IsMap
<1>2. /\ w \in SUBSET Limiter!Entry
      /\ IsFiniteSet(w)
      /\ Limiter!Counted(Cardinality(w)) \in Limiter!Verdicts
  BY <1>1, WindowStaysFinite
<1>3. CASE Limiter!CheckRefused(ip)
  <2>1. verdict' \in Limiter!Verdicts
    BY <1>3 DEF Limiter!CheckRefused, Limiter!Refused, Limiter!Verdicts
  <2> QED BY <1>3, <2>1 DEF Limiter!CheckRefused, Limiter!Check, LimiterOK, Limiter!TypeOK
<1>4. CASE Limiter!CheckRecorded(ip, r)
  <2>1. /\ windows' = Limiter!Put(windows, ip, w)
        /\ verdict' = Limiter!Counted(Cardinality(w))
        /\ blocked_ips' = Limiter!Keep(blocked_ips, DOMAIN blocked_ips \ {ip})
        /\ UNCHANGED <<wall, endpoint_windows>>
    BY <1>4, SameCardinality DEF Limiter!CheckRecorded, Limiter!Check
  <2> HIDE DEF w
  <2>2. Limiter!IsMap(windows', IPs, SUBSET Limiter!Entry)
        /\ \A q \in DOMAIN windows' : IsFiniteSet(windows'[q])
    BY <1>2, <2>1, PutWindow DEF LimiterOK, Limiter!TypeOK
  <2>3. Limiter!IsMap(blocked_ips', IPs, Limiter!Expiry)
    BY <2>1 DEF LimiterOK, Limiter!TypeOK, Limiter!IsMap, Limiter!Keep
  <2> QED BY <1>1, <1>2, <2>1, <2>2, <2>3
          DEF LimiterOK, Limiter!TypeOK
<1> QED BY <1>3, <1>4 DEF Limiter!Check

\* The same for check_endpoint.
LEMMA CheckEndpointKeepsTypes ==
    ASSUME LimiterOK, NEW ip \in IPs, NEW ep \in Endpoints, NEW r \in Requests,
           Limiter!CheckEndpoint(ip, ep, r)
    PROVE  LimiterOK'
<1> DEFINE k == <<ip, ep>>
           w == Limiter!Recorded(Limiter!WindowAt(endpoint_windows, k), wall, r)
<1>1. /\ Limiter!WindowAt(endpoint_windows, k) \in SUBSET Limiter!Entry
      /\ IsFiniteSet(Limiter!WindowAt(endpoint_windows, k))
      /\ wall \in Nat
      /\ k \in IPs \X Endpoints
  BY FS_EmptySet
     DEF LimiterOK, Limiter!TypeOK, Limiter!WindowAt, Limiter!IsMap
<1>2. /\ w \in SUBSET Limiter!Entry
      /\ IsFiniteSet(w)
      /\ Limiter!Counted(Cardinality(w)) \in Limiter!Verdicts
  BY <1>1, WindowStaysFinite
<1>3. CASE Limiter!EndpointRefused(ip)
  <2>1. verdict' \in Limiter!Verdicts
    BY <1>3 DEF Limiter!EndpointRefused, Limiter!Refused, Limiter!Verdicts
  <2> QED BY <1>3, <2>1 DEF Limiter!EndpointRefused, Limiter!CheckEndpoint, LimiterOK,
                            Limiter!TypeOK
<1>4. CASE Limiter!EndpointRecorded(ip, ep, r)
  <2>1. /\ endpoint_windows' = Limiter!Put(endpoint_windows, k, w)
        /\ verdict' = Limiter!Counted(Cardinality(w))
        /\ UNCHANGED <<wall, windows, blocked_ips>>
    BY <1>4, SameCardinality DEF Limiter!EndpointRecorded, Limiter!CheckEndpoint
  <2> HIDE DEF w, k
  <2>2. Limiter!IsMap(endpoint_windows', IPs \X Endpoints, SUBSET Limiter!Entry)
        /\ \A q \in DOMAIN endpoint_windows' : IsFiniteSet(endpoint_windows'[q])
    BY <1>1, <1>2, <2>1, PutWindow DEF LimiterOK, Limiter!TypeOK
  <2> QED BY <1>1, <1>2, <2>1, <2>2 DEF LimiterOK, Limiter!TypeOK
<1> QED BY <1>3, <1>4 DEF Limiter!CheckEndpoint

(************************ the workers ******************************************)

\* A busy worker has a request that arrived, and one that is past the gates has
\* a decision.
Deciding    == {"count", "gauge", "audit", "autoblock", "answer"}
Employed(w) == /\ pc[w] # "idle" => job[w] \in Job /\ job[w].request \in arrived
               /\ pc[w] \in Deciding => outcome[w] \in Outcome

WorkersOK == /\ pc \in [Workers -> Stages]
             /\ job \in [Workers -> Job \cup {NoJob}]
             /\ todo \in [Workers -> SUBSET Endpoints]
             /\ outcome \in [Workers -> Outcome \cup {NoJob}]
             /\ arrived \subseteq Requests
             /\ \A w \in Workers : Employed(w)

\* What is known of the request a busy worker evaluates.
LEMMA JobFacts ==
    ASSUME WorkersOK, NEW w \in Workers, pc[w] # "idle"
    PROVE  /\ Ip(w) \in IPs
           /\ job[w].request \in Requests
           /\ job[w].request \in arrived
           /\ job[w].profile.score \in Nat
<1>1. job[w] \in Job /\ job[w].request \in arrived
  BY DEF WorkersOK, Employed
<1>2. job[w].profile \in Profile
  BY <1>1, ProfileAssumption DEF Job
<1> QED BY <1>1, <1>2 DEF Job, Profile, Ip

\* A busy worker that moves on to a stage before the gates' verdict, or to one
\* that already has its decision.
LEMMA WorkerMoves ==
    ASSUME WorkersOK, NEW w \in Workers, NEW s \in Stages, pc[w] # "idle", s # "idle",
           GoTo(w, s), UNCHANGED <<job, arrived>>,
           todo' \in [Workers -> SUBSET Endpoints],
           \/ outcome' = outcome /\ (s \notin Deciding \/ pc[w] \in Deciding)
           \/ \E d \in Decisions, n \in Nat : Decide(w, d, n)
    PROVE  WorkersOK'
<1>1. pc' \in [Workers -> Stages]
  BY DEF WorkersOK, GoTo
<1>2. /\ outcome' \in [Workers -> Outcome \cup {NoJob}]
      /\ \A v \in Workers \ {w} : outcome'[v] = outcome[v]
      /\ s \in Deciding => outcome'[w] \in Outcome
  <2>1. CASE outcome' = outcome /\ (s \notin Deciding \/ pc[w] \in Deciding)
    BY <2>1 DEF WorkersOK, Employed
  <2>2. ASSUME NEW d \in Decisions, NEW n \in Nat, Decide(w, d, n)
        PROVE  /\ outcome' \in [Workers -> Outcome \cup {NoJob}]
               /\ \A v \in Workers \ {w} : outcome'[v] = outcome[v]
               /\ outcome'[w] \in Outcome
    <3>1. [decision |-> d, score |-> n] \in Outcome
      BY DEF Outcome
    <3> QED BY <2>2, <3>1 DEF WorkersOK, Decide
  <2> QED BY <2>1, <2>2
<1>3. ASSUME NEW v \in Workers PROVE Employed(v)'
  <2>1. CASE v = w
    BY <1>2, <2>1 DEF WorkersOK, Employed, GoTo
  <2>2. CASE v # w
    BY <1>2, <2>2 DEF WorkersOK, Employed, GoTo
  <2> QED BY <2>1, <2>2
<1> QED BY <1>1, <1>2, <1>3 DEF WorkersOK

\* Every step of evaluate keeps the workers' state of its types.
LEMMA WorkersStep ==
    ASSUME WorkersOK, NEW w \in Workers, Step(w)
    PROVE  WorkersOK'
<1> USE DEF WorkersOK
<1>1. CASE CheckEndpointLimit(w)
  <2>1. PICK ep \in todo[w] :
           \/ Reject(w, "RateLimited", 0) /\ UNCHANGED todo
           \/ todo' = [todo EXCEPT ![w] = @ \ {ep}] /\ UNCHANGED <<pc, outcome>>
    BY <1>1 DEF CheckEndpointLimit
  <2>2. /\ pc[w] = "endpoints"
        /\ UNCHANGED <<job, arrived>>
    BY <1>1 DEF CheckEndpointLimit
  <2>3. todo' \in [Workers -> SUBSET Endpoints]
    BY <2>1
  <2>4. CASE Reject(w, "RateLimited", 0)
    BY <2>2, <2>3, <2>4, WorkerMoves DEF Reject, Stages, Decisions
  <2>5. CASE UNCHANGED <<pc, outcome>>
    BY <2>2, <2>3, <2>5 DEF Employed
  <2> QED BY <2>1, <2>4, <2>5
<1>2. CASE EndpointsPassed(w)
  BY <1>2, WorkerMoves
     DEF EndpointsPassed, AfterLimits, Stages, Deciding
<1>3. CASE CheckGeneralLimit(w)
  <2>1. CASE Reject(w, "RateLimited", 0)
    BY <1>3, <2>1, WorkerMoves DEF CheckGeneralLimit, Reject, Stages, Decisions
  <2>2. CASE GoTo(w, AfterLimits) /\ UNCHANGED outcome
    BY <1>3, <2>2, WorkerMoves DEF CheckGeneralLimit, AfterLimits, Stages, Deciding
  <2> QED BY <1>3, <2>1, <2>2 DEF CheckGeneralLimit
<1>4. CASE Lookup(w)
  <2>1. CASE Reject(w, "IpBlocklisted", 0)
    BY <1>4, <2>1, WorkerMoves DEF Lookup, Reject, Stages, Decisions
  <2>2. CASE GoTo(w, "scan") /\ UNCHANGED outcome
    BY <1>4, <2>2, WorkerMoves DEF Lookup, Stages, Deciding
  <2> QED BY <1>4, <2>1, <2>2 DEF Lookup
<1>5. CASE Scan(w)
  <2>0. pc[w] = "scan" /\ UNCHANGED <<job, arrived, todo>>
    BY <1>5 DEF Scan
  <2>1. job[w].profile.score \in Nat
    BY <2>0, JobFacts
  <2>2. \E s \in {"count", "answer"}, d \in Decisions, n \in Nat :
           GoTo(w, s) /\ Decide(w, d, n)
    BY <1>5, <2>1 DEF Scan, Reject, Decisions
  <2> QED BY <2>0, <2>2, WorkerMoves DEF Stages
<1>6. CASE CountBlocked(w) \/ StoreScore(w) \/ Audit(w) \/ AutoBlock(w)
  <2>1. /\ pc[w] \in Deciding
        /\ \E s \in {"gauge", "audit", "autoblock", "answer"} : GoTo(w, s)
        /\ UNCHANGED <<job, arrived, todo, outcome>>
    BY <1>6 DEF CountBlocked, StoreScore, Audit, AutoBlock, AfterCount, AfterAudit, Deciding
  <2> QED BY <2>1, WorkerMoves DEF Stages, Deciding
<1>7. CASE Answer(w)
  <2>1. /\ pc' = [pc EXCEPT ![w] = "idle"]
        /\ job' = [job EXCEPT ![w] = NoJob]
        /\ outcome' = [outcome EXCEPT ![w] = NoJob]
        /\ UNCHANGED <<todo, arrived>>
    BY <1>7 DEF Answer, GoTo
  <2>2. \A v \in Workers : Employed(v)'
    BY <2>1 DEF Employed, Deciding
  <2> QED BY <2>1, <2>2 DEF Stages
<1> QED BY <1>1, <1>2, <1>3, <1>4, <1>5, <1>6, <1>7 DEF Step

\* A worker that takes up a request is employed.
LEMMA WorkersBegin ==
    ASSUME WorkersOK, NEW w \in Workers, NEW r \in Requests, NEW p \in Profiles,
           Begin(w, r, p)
    PROVE  WorkersOK'
<1>1. /\ arrived' = arrived \cup {r}
      /\ job' = [job EXCEPT ![w] = [request |-> r, profile |-> p]]
      /\ todo' = [todo EXCEPT ![w] = Matching(p)]
  BY DEF Begin
<1>2. [request |-> r, profile |-> p] \in Job
  BY DEF Job
<1>3. Matching(p) \in SUBSET Endpoints
  BY ProfileAssumption DEF Matching, Profile
<1>4. job' \in [Workers -> Job \cup {NoJob}] /\ job'[w].request = r
  BY <1>1, <1>2 DEF WorkersOK
<1>5. CASE Reject(w, "AllowlistDenied", 0)
  <2>1. [decision |-> "AllowlistDenied", score |-> 0] \in Outcome
    BY DEF Outcome, Decisions
  <2>2. /\ pc' = [pc EXCEPT ![w] = "count"]
        /\ outcome' = [outcome EXCEPT ![w] = [decision |-> "AllowlistDenied", score |-> 0]]
    BY <1>5 DEF Reject, GoTo, Decide
  <2>3. \A v \in Workers : Employed(v)'
    BY <1>1, <1>2, <1>4, <2>1, <2>2 DEF WorkersOK, Employed
  <2> QED BY <1>1, <1>3, <1>4, <2>1, <2>2, <2>3 DEF WorkersOK, Stages
<1>6. CASE GoTo(w, "endpoints") /\ UNCHANGED outcome
  <2>1. pc' = [pc EXCEPT ![w] = "endpoints"] /\ outcome' = outcome
    BY <1>6 DEF GoTo
  <2>2. \A v \in Workers : Employed(v)'
    BY <1>1, <1>2, <1>4, <2>1 DEF WorkersOK, Employed, Deciding
  <2> QED BY <1>1, <1>3, <1>4, <2>1, <2>2 DEF WorkersOK, Stages
<1> QED BY <1>5, <1>6 DEF Begin

(************************ what the workers share *******************************)

\* The tables keep their types whatever statement runs.
LEMMA TablesKeepTypes ==
    ASSUME DB!TypeOK,
           \/ \E ip \in IPs : DB!AddToBlocklist(ip, TRUE)
           \/ \E ip \in IPs : DB!RemoveFromBlocklist(ip) \/ DB!AddToWhitelist(ip)
           \/ \E ip \in IPs, r \in Requests, n \in Nat : DB!LogThreat(ip, r, n)
           \/ DB!WriteFails
    PROVE  DB!TypeOK' /\ wall' = wall
<1>1. ASSUME NEW ip \in IPs, DB!AddToBlocklist(ip, TRUE)
      PROVE  DB!TypeOK' /\ wall' = wall
  <2>1. DB!Expires(TRUE) \in Nat
    BY NumberAssumption DEF DB!Expires, DB!TypeOK
  <2>2. /\ DOMAIN blocklist_ips' \subseteq IPs
        /\ blocklist_ips' \in [DOMAIN blocklist_ips' -> Nat \cup {Never}]
    <3>1. CASE DB!Inserts(ip)
      <4>1. blocklist_ips' = [k \in DOMAIN blocklist_ips \cup {ip} |->
                                IF k = ip THEN DB!Expires(TRUE) ELSE blocklist_ips[k]]
        BY <1>1, <3>1 DEF DB!AddToBlocklist
      <4> QED BY <2>1, <4>1 DEF DB!TypeOK
    <3>2. CASE ~DB!Inserts(ip)
      BY <1>1, <3>2 DEF DB!AddToBlocklist, DB!TypeOK
    <3> QED BY <3>1, <3>2
  <2> QED BY <1>1, <2>2 DEF DB!AddToBlocklist, DB!TypeOK
<1>2. ASSUME NEW ip \in IPs, DB!RemoveFromBlocklist(ip)
      PROVE  DB!TypeOK' /\ wall' = wall
  BY <1>2 DEF DB!RemoveFromBlocklist, DB!TypeOK
<1>3. ASSUME NEW ip \in IPs, DB!AddToWhitelist(ip)
      PROVE  DB!TypeOK' /\ wall' = wall
  BY <1>3 DEF DB!AddToWhitelist, DB!TypeOK
<1>4. ASSUME NEW ip \in IPs, NEW r \in Requests, NEW n \in Nat, DB!LogThreat(ip, r, n)
      PROVE  DB!TypeOK' /\ wall' = wall
  <2>1. [ip |-> ip, request |-> r, score |-> n] \in DB!Row
    BY DEF DB!Row
  <2>2. audit_log' \in Seq(DB!Row)
    BY <1>4, <2>1, AppendProperties DEF DB!LogThreat, DB!TypeOK
  <2> QED BY <1>4, <2>2 DEF DB!LogThreat, DB!TypeOK
<1>5. CASE DB!WriteFails
  BY <1>5 DEF DB!WriteFails, DB!TypeOK
<1> QED BY <1>1, <1>2, <1>3, <1>4, <1>5

ProcessOK == /\ endpoint_order \in Seq(Endpoints)
             /\ db_open \in BOOLEAN
             /\ db_owner \in Workers \cup {NoOne}
             /\ restarts \in Nat

HistoryOK == DOMAIN answered \cup unwritten \cup unread \subseteq arrived

SharedOK == ProcessOK /\ LimiterOK /\ DB!TypeOK /\ M!TypeOK /\ HistoryOK

\* Every order in which the map may yield its keys is a sequence of endpoints.
LEMMA OrderType ==
    ASSUME NEW s \in SetToSeqs(Endpoints)
    PROVE  s \in Seq(Endpoints)
<1>1. Cardinality(Endpoints) \in Nat
  BY EndpointAssumption, FS_CardinalityType
<1>2. s \in [1..Cardinality(Endpoints) -> Endpoints]
  BY DEF SetToSeqs
<1> QED BY <1>1, <1>2

\* Every step of evaluate keeps the shared state of its types.
LEMMA SharedStep ==
    ASSUME WorkersOK, SharedOK, NEW w \in Workers, Step(w)
    PROVE  SharedOK'
<1> USE DEF SharedOK
<1>0. pc[w] # "idle"
  BY DEF Step, CheckEndpointLimit, EndpointsPassed, CheckGeneralLimit, Lookup, Scan,
         CountBlocked, StoreScore, Audit, AutoBlock, Answer
<1>1. /\ Ip(w) \in IPs
      /\ job[w].request \in Requests
      /\ job[w].request \in arrived
      /\ job[w].profile.score \in Nat
  BY <1>0, JobFacts
<1>2. CASE CheckEndpointLimit(w)
  <2>1. PICK ep \in todo[w] : Limiter!CheckEndpoint(Ip(w), ep, job[w].request)
    BY <1>2 DEF CheckEndpointLimit
  <2>2. ep \in Endpoints
    BY <2>1 DEF WorkersOK
  <2>3. LimiterOK'
    BY <1>1, <2>1, <2>2, CheckEndpointKeepsTypes
  <2>4. /\ UNCHANGED <<processVars, db_owner, tableVars, metricVars, arrived, wall,
                       answered, unwritten, unread>>
    BY <1>2, <2>1 DEF CheckEndpointLimit, Limiter!CheckEndpoint
  <2> QED BY <2>3, <2>4 DEF ProcessOK, HistoryOK, M!TypeOK, DB!TypeOK, processVars, tableVars,
                            metricVars
<1>3. CASE CheckGeneralLimit(w)
  <2>1. LimiterOK'
    BY <1>1, <1>3, CheckKeepsTypes DEF CheckGeneralLimit
  <2>2. /\ UNCHANGED <<processVars, db_owner, tableVars, metricVars, arrived, wall,
                       answered, unwritten, unread>>
    BY <1>3 DEF CheckGeneralLimit, Limiter!Check
  <2> QED BY <2>1, <2>2 DEF ProcessOK, HistoryOK, M!TypeOK, DB!TypeOK, processVars, tableVars,
                            metricVars
<1>4. CASE EndpointsPassed(w) \/ Lookup(w)
  <2>1. /\ UNCHANGED <<processVars, tableVars, metricVars, limiterVars, arrived, wall,
                       answered, unwritten>>
        /\ db_owner' \in {db_owner, w}
        /\ unread' \subseteq unread \cup {job[w].request}
    BY <1>4 DEF EndpointsPassed, Lookup, historyVars
  <2> QED BY <1>1, <2>1 DEF ProcessOK, HistoryOK, M!TypeOK, DB!TypeOK, processVars, tableVars,
                       metricVars, limiterVars, LimiterOK, Limiter!TypeOK
<1>5. CASE Scan(w) \/ CountBlocked(w) \/ StoreScore(w)
  <2>1. /\ UNCHANGED <<processVars, db_owner, tableVars, limiterVars, arrived, wall,
                       answered, unwritten, unread>>
    BY <1>5 DEF Scan, CountBlocked, StoreScore, historyVars
  <2>2. M!TypeOK'
    <3>1. CASE Scan(w)
      BY <3>1 DEF Scan, M!RecordAllowed, M!TypeOK, metricVars
    <3>2. CASE CountBlocked(w)
      BY <3>2 DEF CountBlocked, M!CountBlocked, M!TypeOK
    <3>3. CASE StoreScore(w)
      <4>1. outcome[w].score \in Nat
        BY <3>3 DEF StoreScore, WorkersOK, Employed, Deciding, Outcome
      <4> QED BY <3>3, <4>1 DEF StoreScore, M!StoreScore, M!TypeOK
    <3> QED BY <1>5, <3>1, <3>2, <3>3
  <2> QED BY <2>1, <2>2 DEF ProcessOK, HistoryOK, DB!TypeOK, processVars, tableVars,
                            limiterVars, LimiterOK, Limiter!TypeOK
<1>6. CASE Audit(w) \/ AutoBlock(w)
  <2>0. outcome[w].score \in Nat
    BY <1>6 DEF Audit, AutoBlock, WorkersOK, Employed, Deciding, Outcome
  <2>1. /\ UNCHANGED <<processVars, db_owner, metricVars, limiterVars, arrived,
                       answered, unread>>
        /\ unwritten' \subseteq unwritten \cup {job[w].request}
    BY <1>6 DEF Audit, AutoBlock, historyVars
  <2>2. \/ UNCHANGED <<wall, tableVars>>
        \/ \E ip \in IPs : DB!AddToBlocklist(ip, TRUE)
        \/ \E ip \in IPs, r \in Requests, n \in Nat : DB!LogThreat(ip, r, n)
        \/ DB!WriteFails
    BY <1>1, <1>6, <2>0 DEF Audit, AutoBlock
  <2>3. DB!TypeOK' /\ wall' = wall
    <3>1. CASE UNCHANGED <<wall, tableVars>>
      BY <3>1 DEF tableVars, DB!TypeOK
    <3> QED BY <2>2, <3>1, TablesKeepTypes
  <2> QED BY <1>1, <2>1, <2>3 DEF ProcessOK, HistoryOK, M!TypeOK, processVars, metricVars,
                                  limiterVars, LimiterOK, Limiter!TypeOK
<1>7. CASE Answer(w)
  <2>1. /\ UNCHANGED <<processVars, tableVars, metricVars, limiterVars, arrived, wall,
                       unwritten, unread>>
        /\ db_owner' \in {db_owner, NoOne}
        /\ DOMAIN answered' = DOMAIN answered \cup {job[w].request}
    BY <1>7 DEF Answer, Release
  <2> QED BY <1>1, <2>1 DEF ProcessOK, HistoryOK, M!TypeOK, DB!TypeOK, processVars, tableVars,
                            metricVars, limiterVars, LimiterOK, Limiter!TypeOK
<1> QED BY <1>2, <1>3, <1>4, <1>5, <1>6, <1>7 DEF Step

(************************ type correctness *************************************)

TypeInv == WorkersOK /\ SharedOK

\* Every step of the system keeps every type.
LEMMA TypesStep ==
    ASSUME TypeInv, [Next]_vars
    PROVE  TypeInv'
<1> USE DEF TypeInv
<1>1. ASSUME NEW w \in Workers, Step(w) PROVE TypeInv'
  BY <1>1, WorkersStep, SharedStep
<1>2. ASSUME NEW w \in Workers, NEW r \in Requests, NEW p \in Profiles, Begin(w, r, p)
      PROVE  TypeInv'
  <2>1. WorkersOK'
    BY <1>2, WorkersBegin
  <2>2. /\ UNCHANGED <<processVars, db_owner, wall, limiterVars, tableVars, historyVars>>
        /\ arrived' = arrived \cup {r}
        /\ M!RecordRequest
    BY <1>2 DEF Begin
  <2>3. M!TypeOK'
    BY <2>2 DEF SharedOK, M!TypeOK, M!RecordRequest
  <2>4. ProcessOK' /\ LimiterOK' /\ DB!TypeOK' /\ HistoryOK'
    BY <2>2 DEF SharedOK, ProcessOK, processVars, LimiterOK, Limiter!TypeOK, limiterVars,
                DB!TypeOK, tableVars, HistoryOK, historyVars
  <2> QED BY <2>1, <2>3, <2>4 DEF SharedOK
<1>3. CASE Admin
  <2>1. /\ UNCHANGED <<workerVars, arrived, processVars, db_owner, limiterVars, metricVars,
                       historyVars>>
        /\ \/ \E ip \in IPs : DB!AddToBlocklist(ip, TRUE)
           \/ \E ip \in IPs : DB!RemoveFromBlocklist(ip) \/ DB!AddToWhitelist(ip)
           \/ DB!WriteFails
    BY <1>3 DEF Admin
  <2>2. DB!TypeOK' /\ wall' = wall
    BY <2>1, TablesKeepTypes DEF SharedOK
  <2>3. WorkersOK'
    BY <2>1 DEF workerVars, WorkersOK, Employed
  <2> QED BY <2>1, <2>2, <2>3 DEF SharedOK, ProcessOK, processVars, LimiterOK,
                                  Limiter!TypeOK, limiterVars, M!TypeOK, metricVars,
                                  HistoryOK, historyVars
<1>4. CASE Tick
  <2>1. /\ UNCHANGED <<workerVars, arrived, processVars, db_owner, limiterVars, tableVars,
                       metricVars, historyVars>>
        /\ wall' \in Nat
    BY <1>4 DEF Tick, SharedOK, DB!TypeOK
  <2>2. WorkersOK'
    BY <2>1 DEF workerVars, WorkersOK, Employed
  <2> QED BY <2>1, <2>2 DEF SharedOK, ProcessOK, processVars, LimiterOK, Limiter!TypeOK,
                            limiterVars, DB!TypeOK, tableVars, M!TypeOK, metricVars,
                            HistoryOK, historyVars
<1>5. CASE Restart
  <2>1. WorkersOK'
    BY <1>5 DEF Restart, WorkersOK, Employed, Stages, Deciding
  <2>2. ProcessOK'
    BY <1>5, OrderType, DatabaseAssumption DEF Restart, SharedOK, ProcessOK
  <2>3. Limiter!Counted(0) \in Limiter!Verdicts
    BY NumberAssumption DEF Limiter!Counted, Limiter!Limit, Limiter!Verdicts
  <2>4. LimiterOK'
    BY <1>5, <2>3 DEF Restart, SharedOK, LimiterOK, Limiter!TypeOK, Limiter!IsMap,
                      Limiter!EmptyMap
  <2> QED BY <1>5, <2>1, <2>2, <2>4 DEF Restart, SharedOK, DB!TypeOK, tableVars, M!TypeOK,
                                        HistoryOK, historyVars
<1>6. CASE UNCHANGED vars
  <2>1. WorkersOK'
    BY <1>6 DEF vars, workerVars, WorkersOK, Employed
  <2> QED BY <1>6, <2>1 DEF vars, SharedOK, ProcessOK, processVars, LimiterOK,
                            Limiter!TypeOK, limiterVars, DB!TypeOK, tableVars, M!TypeOK,
                            metricVars, HistoryOK, historyVars
<1> QED BY <1>1, <1>2, <1>3, <1>4, <1>5, <1>6 DEF Next

\* The system starts with everything of its type.
LEMMA TypesStart == Init => TypeInv
<1> SUFFICES ASSUME Init PROVE TypeInv
  OBVIOUS
<1>1. WorkersOK
  BY DEF Init, WorkersOK, Employed, Stages, Deciding
<1>2. ProcessOK
  BY OrderType, DatabaseAssumption DEF Init, ProcessOK
<1>3. Limiter!Counted(0) \in Limiter!Verdicts
  BY NumberAssumption DEF Limiter!Counted, Limiter!Limit, Limiter!Verdicts
<1>4. LimiterOK
  BY <1>3 DEF Init, Limiter!Init, LimiterOK, Limiter!TypeOK, Limiter!IsMap, Limiter!EmptyMap
<1>5. DB!TypeOK /\ M!TypeOK /\ HistoryOK
  BY EmptySeq DEF Init, DB!Init, DB!TypeOK, M!Init, M!TypeOK, HistoryOK
<1> QED BY <1>1, <1>2, <1>4, <1>5 DEF TypeInv, SharedOK

\* The types behind every other invariant, for every configuration.
LEMMA TypesInvariant == Spec => []TypeInv
BY TypesStart, TypesStep, PTL DEF Spec

\* The workers' state, the limiter, the tables, the counters and the history
\* have their types in every reachable state, restarts and failing statements
\* included.
THEOREM PipelineTypes == Spec => []TypeOK
<1>1. Init => listed \in [Workers -> BOOLEAN]
  BY DEF Init
<1>2. listed \in [Workers -> BOOLEAN] /\ [Next]_vars => (listed \in [Workers -> BOOLEAN])'
  BY DEF Next, TrackListed, vars
<1>3. TypeInv /\ listed \in [Workers -> BOOLEAN] => TypeOK
  BY DEF TypeInv, WorkersOK, SharedOK, ProcessOK, LimiterOK, HistoryOK, TypeOK
<1> QED BY <1>1, <1>2, <1>3, TypesInvariant, PTL DEF Spec

(************************ no two workers share a request ***********************)

\* The request a worker evaluates is its own, and not answered yet.
OwnRequest(w) ==
    pc[w] # "idle" =>
        /\ job[w].request \notin DOMAIN answered
        /\ \A v \in Workers \ {w} : pc[v] # "idle" => job[v].request # job[w].request

Apart == \A w \in Workers : OwnRequest(w)

\* A worker's step changes its own job, if any, and answers no other request.
LEMMA JobStep ==
    ASSUME TypeInv, NEW w \in Workers, Step(w)
    PROVE  /\ pc[w] # "idle"
           /\ \A v \in Workers \ {w} : pc'[v] = pc[v] /\ job'[v] = job[v]
           /\ arrived' = arrived
           /\ \/ Answer(w) /\ pc'[w] = "idle"
                 /\ DOMAIN answered' = DOMAIN answered \cup {job[w].request}
                 /\ \A r \in DOMAIN answered \ {job[w].request} : answered'[r] = answered[r]
              \/ ~Answer(w) /\ job' = job /\ answered' = answered
<1>1. pc[w] # "idle" /\ arrived' = arrived
  BY DEF Step, CheckEndpointLimit, EndpointsPassed, CheckGeneralLimit, Lookup, Scan,
         CountBlocked, StoreScore, Audit, AutoBlock, Answer
<1>2. \A v \in Workers \ {w} : pc'[v] = pc[v] /\ job'[v] = job[v]
  BY StepIsLocal DEF TypeInv, WorkersOK, HasOutcomes, HasJobs
<1>3. CASE Answer(w)
  BY <1>1, <1>2, <1>3 DEF Answer, GoTo, TypeInv, WorkersOK
<1>4. CASE ~Answer(w)
  <2>1. job' = job /\ answered' = answered
    BY <1>4 DEF Step, CheckEndpointLimit, EndpointsPassed, CheckGeneralLimit, Lookup,
                Scan, CountBlocked, StoreScore, Audit, AutoBlock, historyVars
  <2> QED BY <1>1, <1>2, <1>4, <2>1
<1> QED BY <1>3, <1>4

\* A worker that begins takes a request that nobody has had before.
LEMMA BeginStep ==
    ASSUME TypeInv, NEW w \in Workers, NEW r \in Requests, NEW p \in Profiles,
           Begin(w, r, p)
    PROVE  /\ \A v \in Workers \ {w} : pc'[v] = pc[v] /\ job'[v] = job[v]
           /\ \A v \in Workers \ {w} : outcome'[v] = outcome[v]
           /\ \A v \in Workers : pc[v] # "idle" => job[v].request # r
           /\ pc[w] = "idle" /\ job'[w].request = r
           /\ r \notin arrived /\ r \notin DOMAIN answered
           /\ arrived' = arrived \cup {r} /\ answered' = answered
<1>1. \A v \in Workers \ {w} : pc'[v] = pc[v] /\ job'[v] = job[v] /\ outcome'[v] = outcome[v]
  BY StepIsLocal DEF TypeInv, WorkersOK, HasOutcomes, HasJobs
<1>2. /\ pc[w] = "idle" /\ r \notin arrived
      /\ job'[w].request = r
      /\ arrived' = arrived \cup {r} /\ answered' = answered
  BY DEF Begin, historyVars, TypeInv, WorkersOK
<1>3. r \notin DOMAIN answered
  BY <1>2 DEF TypeInv, SharedOK, HistoryOK
<1>4. \A v \in Workers : pc[v] # "idle" => job[v].request # r
  BY <1>2, JobFacts DEF TypeInv
<1> QED BY <1>1, <1>2, <1>3, <1>4

\* No step lets two workers have one request, or one that was answered.
LEMMA ApartStep ==
    ASSUME TypeInv, Apart, [Next]_vars
    PROVE  Apart'
<1>1. ASSUME NEW w \in Workers, Step(w) PROVE Apart'
  <2> SUFFICES ASSUME NEW v \in Workers, pc'[v] # "idle"
               PROVE  /\ job'[v].request \notin DOMAIN answered'
                      /\ \A u \in Workers \ {v} :
                            pc'[u] # "idle" => job'[u].request # job'[v].request
    BY DEF Apart, OwnRequest
  <2>1. /\ \A u \in Workers : pc'[u] # "idle" => pc[u] # "idle" /\ job'[u] = job[u]
        /\ \/ answered' = answered
           \/ v # w /\ DOMAIN answered' = DOMAIN answered \cup {job[w].request}
        /\ pc[w] # "idle"
    BY <1>1, JobStep
  <2> QED BY <2>1 DEF Apart, OwnRequest
<1>2. ASSUME NEW w \in Workers, NEW r \in Requests, NEW p \in Profiles, Begin(w, r, p)
      PROVE  Apart'
  <2>1. /\ \A v \in Workers \ {w} : pc'[v] = pc[v] /\ job'[v] = job[v]
        /\ \A v \in Workers : pc[v] # "idle" => job[v].request # r
        /\ job'[w].request = r /\ r \notin DOMAIN answered
        /\ answered' = answered
    BY <1>2, BeginStep
  <2> QED BY <2>1 DEF Apart, OwnRequest
<1>3. CASE Admin \/ Tick \/ UNCHANGED vars
  BY <1>3 DEF Admin, Tick, vars, workerVars, historyVars, Apart, OwnRequest
<1>4. CASE Restart
  BY <1>4 DEF Restart, Apart, OwnRequest
<1> QED BY <1>1, <1>2, <1>3, <1>4 DEF Next

\* The types, and each request its own worker, in every reachable state.
LEMMA ApartInvariant == Spec => [](TypeInv /\ Apart)
<1>1. Init => Apart
  BY DEF Init, Apart, OwnRequest
<1> QED BY <1>1, ApartStep, TypesStart, TypesStep, PTL DEF Spec

(************************ what the gates decide ********************************)

\* A gate lets the request on, rejects it, or, the last one, lets it pass.
LEMMA GateStep ==
    ASSUME TypeInv, NEW w \in Workers, Step(w), pc[w] \in Pending \ {"count"}
    PROVE  \/ pc'[w] \in Pending \ {"count"}
           \/ pc'[w] = "count" /\ outcome'[w].decision # "Pass"
           \/ pc'[w] = "answer" /\ outcome'[w].decision = "Pass"
<1>1. /\ pc \in [Workers -> Stages]
      /\ outcome = [v \in Workers |-> outcome[v]]
  BY DEF TypeInv, WorkersOK
<1>2. ASSUME NEW d \in Decisions \ {"Pass"}, NEW n, Reject(w, d, n)
      PROVE  pc'[w] = "count" /\ outcome'[w].decision # "Pass"
  BY <1>1, <1>2 DEF Reject, GoTo, Decide
<1>3. ASSUME NEW s \in Pending \ {"count"}, GoTo(w, s) PROVE pc'[w] \in Pending \ {"count"}
  BY <1>1, <1>3 DEF GoTo
<1>4. AfterLimits \in Pending \ {"count"}
  BY DEF AfterLimits, Pending
<1>5. CASE CheckEndpointLimit(w)
  BY <1>2, <1>5 DEF CheckEndpointLimit, Decisions
<1>6. CASE EndpointsPassed(w)
  BY <1>3, <1>4, <1>6 DEF EndpointsPassed, Pending
<1>7. CASE CheckGeneralLimit(w)
  BY <1>2, <1>3, <1>4, <1>7 DEF CheckGeneralLimit, Decisions
<1>8. CASE Lookup(w)
  BY <1>2, <1>3, <1>8 DEF Lookup, Decisions, Pending
<1>9. CASE Scan(w)
  <2>1. CASE \E d \in Decisions \ {"Pass"}, n \in {0, job[w].profile.score} : Reject(w, d, n)
    BY <1>2, <2>1
  <2>2. CASE GoTo(w, "answer") /\ Decide(w, "Pass", job[w].profile.score)
    BY <1>1, <2>2 DEF GoTo, Decide
  <2> QED BY <1>9, <2>1, <2>2 DEF Scan, Decisions
<1> QED BY <1>5, <1>6, <1>7, <1>8, <1>9
        DEF Step, Pending, CountBlocked, StoreScore, Audit, AutoBlock, Answer

\* After a rejection the decision stands.
LEMMA DecisionStands ==
    ASSUME TypeInv, NEW w \in Workers, Step(w), pc[w] \in Deciding \ {"answer"}
    PROVE  outcome' = outcome /\ pc'[w] \in Deciding
<1>1. /\ outcome' = outcome
      /\ \E s \in Deciding : GoTo(w, s)
  BY DEF Step, Deciding, CheckEndpointLimit, EndpointsPassed, CheckGeneralLimit, Lookup,
         Scan, CountBlocked, StoreScore, Audit, AutoBlock, Answer, AfterCount, AfterAudit
<1> QED BY <1>1 DEF GoTo, TypeInv, WorkersOK

(************************ the audit log ****************************************)

\* No row, and no row that failed to be written.
Unlogged(r) == RowsOf(r) = {} /\ r \notin unwritten

\* As many rows as the answer to r calls for.
Settled(r, decision) ==
    Cardinality(RowsOf(r)) = IF decision = "Pass" \/ r \in unwritten THEN 0 ELSE 1

\* How far the worker has got with the audit row of its request.
LoggedSoFar(w) ==
    pc[w] # "idle" =>
      LET r == job[w].request
      IN  /\ pc[w] \notin {"autoblock", "answer"} => Unlogged(r)
          /\ pc[w] \in Deciding \ {"answer"} => outcome[w].decision # "Pass"
          /\ pc[w] \in {"autoblock", "answer"} => Settled(r, outcome[w].decision)

AuditInv == /\ TypeInv
            /\ Apart
            /\ AuditExact
            /\ \A r \in Requests \ arrived : Unlogged(r)
            /\ \A w \in Workers : LoggedSoFar(w)

\* What a step of w does to the log, and to the other workers: it touches the
\* request of w only.
Local(w) ==
    /\ \A v \in Workers \ {w} : /\ pc'[v] = pc[v]
                                /\ outcome'[v] = outcome[v]
                                /\ job'[v] = job[v]
    /\ \A r \in Requests : r # job[w].request =>
          /\ RowsOf(r)' = RowsOf(r)
          /\ r \in unwritten' <=> r \in unwritten
          /\ r \in DOMAIN answered' <=> r \in DOMAIN answered
          /\ r \in DOMAIN answered => answered'[r] = answered[r]
    /\ arrived' = arrived

\* Appending a row for r adds one to the rows of r.
LEMMA OneMoreRow ==
    ASSUME TypeInv, NEW ip, NEW r \in Requests, NEW n, DB!LogThreat(ip, r, n)
    PROVE  /\ \A q \in Requests \ {r} : RowsOf(q)' = RowsOf(q)
           /\ RowsOf(r) = {} => Cardinality(RowsOf(r)') = 1
<1>1. /\ audit_log' = Append(audit_log, [ip |-> ip, request |-> r, score |-> n])
      /\ audit_log \in Seq(DB!Row)
  BY DEF DB!LogThreat, TypeInv, SharedOK, DB!TypeOK
<1>2. /\ Len(audit_log) \in Nat
      /\ DOMAIN audit_log = 1..Len(audit_log)
      /\ DOMAIN audit_log' = 1..Len(audit_log) + 1
      /\ \A i \in 1..Len(audit_log) : audit_log'[i] = audit_log[i]
      /\ audit_log'[Len(audit_log) + 1].request = r
  BY <1>1
<1>3. \A q \in Requests \ {r} : RowsOf(q)' = RowsOf(q)
  BY <1>2 DEF RowsOf
<1>4. RowsOf(r) = {} => RowsOf(r)' = {Len(audit_log) + 1}
  BY <1>2 DEF RowsOf
<1> QED BY <1>3, <1>4, FS_Singleton

\* Every step of evaluate is local in this sense.
LEMMA StepTouchesOwnRow ==
    ASSUME TypeInv, NEW w \in Workers, Step(w)
    PROVE  Local(w)
<1>1. /\ pc[w] # "idle" /\ arrived' = arrived
      /\ \A v \in Workers \ {w} : /\ pc'[v] = pc[v]
                                  /\ outcome'[v] = outcome[v]
                                  /\ job'[v] = job[v]
  BY JobStep, StepIsLocal DEF TypeInv, WorkersOK, HasOutcomes, HasJobs
<1>2. job[w].request \in Requests
  BY <1>1, JobFacts DEF TypeInv
<1>3. CASE Audit(w)
  <2>1. UNCHANGED answered /\ unwritten \subseteq unwritten'
        /\ unwritten' \subseteq unwritten \cup {job[w].request}
    BY <1>3 DEF Audit
  <2>2. \/ DB!LogThreat(Ip(w), job[w].request, outcome[w].score)
        \/ UNCHANGED audit_log
    BY <1>3 DEF Audit, DB!WriteFails, tableVars
  <2>3. \A r \in Requests : r # job[w].request => RowsOf(r)' = RowsOf(r)
    BY <1>2, <2>2, OneMoreRow DEF RowsOf
  <2> QED BY <1>1, <2>1, <2>3 DEF Local
<1>4. CASE ~Audit(w)
  <2>1. UNCHANGED <<audit_log, unwritten>>
    BY <1>4 DEF Step, CheckEndpointLimit, EndpointsPassed, CheckGeneralLimit, Lookup, Scan,
                CountBlocked, StoreScore, AutoBlock, Answer, tableVars, historyVars,
                DB!AddToBlocklist, DB!WriteFails
  <2>2. \A r \in Requests : r # job[w].request =>
           /\ r \in DOMAIN answered' <=> r \in DOMAIN answered
           /\ r \in DOMAIN answered => answered'[r] = answered[r]
    BY JobStep
  <2> QED BY <1>1, <2>1, <2>2 DEF Local, RowsOf
<1> QED BY <1>3, <1>4

\* What a step of w that does not answer does to its own request.
LEMMA OwnRowStep ==
    ASSUME LogBlocked, TypeInv, NEW w \in Workers, LoggedSoFar(w), Step(w), ~Answer(w),
           NEW r \in Requests, r = job[w].request
    PROVE  /\ job'[w] = job[w] /\ answered' = answered
           /\ pc'[w] \notin {"autoblock", "answer"} => Unlogged(r)'
           /\ pc'[w] \in Deciding \ {"answer"} => outcome'[w].decision # "Pass"
           /\ pc'[w] \in {"autoblock", "answer"} => Settled(r, outcome[w].decision)'
<1>0. /\ pc[w] # "idle"
      /\ job' = job /\ answered' = answered
  BY JobStep
<1>2. /\ pc \in [Workers -> Stages]
      /\ outcome = [v \in Workers |-> outcome[v]]
  BY DEF TypeInv, WorkersOK
<1>4. CASE pc[w] \in Pending \ {"count"}
  <2>1. UNCHANGED <<audit_log, unwritten>> /\ pc[w] \notin Deciding
    BY <1>4 DEF Pending, Deciding, Step, CheckEndpointLimit, EndpointsPassed,
                CheckGeneralLimit, Lookup, Scan, CountBlocked, StoreScore, Audit,
                AutoBlock, tableVars, historyVars
  <2>2. Unlogged(r) /\ Unlogged(r)'
    BY <1>4, <2>1 DEF Pending, LoggedSoFar, Unlogged, RowsOf, Deciding
  <2>3. \/ pc'[w] \notin Deciding
        \/ pc'[w] = "count" /\ outcome'[w].decision # "Pass"
        \/ pc'[w] = "answer" /\ outcome'[w].decision = "Pass"
    BY <1>4, GateStep DEF Pending, Deciding
  <2>4. pc'[w] = "answer" /\ outcome'[w].decision = "Pass" =>
            Settled(r, outcome[w].decision)'
    <3>1. Cardinality(RowsOf(r)') = 0
      BY <2>2, FS_EmptySet DEF Unlogged
    <3> QED BY <3>1 DEF Settled
  <2> QED BY <1>0, <2>2, <2>3, <2>4 DEF Deciding
<1>5. CASE CountBlocked(w) \/ StoreScore(w)
  <2>1. /\ pc[w] \in {"count", "gauge"} /\ pc'[w] \in {"gauge", "audit"}
        /\ UNCHANGED <<audit_log, unwritten, outcome>>
    BY <1>2, <1>5 DEF CountBlocked, StoreScore, GoTo, AfterCount, tableVars, historyVars
  <2> QED BY <1>0, <2>1 DEF LoggedSoFar, Unlogged, RowsOf, Deciding
<1>6. CASE Audit(w)
  <2>1. /\ pc[w] = "audit" /\ pc'[w] \in {"autoblock", "answer"}
        /\ outcome' = outcome
    BY <1>2, <1>6 DEF Audit, GoTo, AfterAudit
  <2>2. Unlogged(r) /\ outcome[w].decision # "Pass"
    BY <1>0, <2>1 DEF LoggedSoFar, Deciding
  <2>3. Settled(r, outcome[w].decision)'
    <3>1. CASE DB!LogThreat(Ip(w), r, outcome[w].score) /\ UNCHANGED unwritten
      <4>1. Cardinality(RowsOf(r)') = 1
        BY <2>2, <3>1, OneMoreRow DEF Unlogged
      <4> QED BY <2>1, <2>2, <3>1, <4>1 DEF Settled, Unlogged
    <3>2. CASE UNCHANGED audit_log /\ unwritten' = unwritten \cup {r}
      <4>1. Cardinality(RowsOf(r)') = 0 /\ r \in unwritten'
        BY <2>2, <3>2, FS_EmptySet DEF Unlogged, RowsOf
      <4> QED BY <4>1 DEF Settled
    <3> QED BY <1>6, <3>1, <3>2 DEF Audit, DB!WriteFails, tableVars
  <2> QED BY <1>0, <2>1, <2>2, <2>3 DEF Deciding, Settled
<1>7. CASE AutoBlock(w)
  <2>1. /\ pc[w] = "autoblock" /\ pc'[w] = "answer"
        /\ UNCHANGED <<audit_log, unwritten, outcome>>
    BY <1>2, <1>7 DEF AutoBlock, GoTo, tableVars, historyVars, DB!AddToBlocklist,
                      DB!WriteFails
  <2> QED BY <1>0, <2>1 DEF LoggedSoFar, Settled, RowsOf
<1> QED BY <1>4, <1>5, <1>6, <1>7
        DEF Step, Pending, CheckEndpointLimit, EndpointsPassed, CheckGeneralLimit, Lookup,
            Scan

\* A step of evaluate keeps the invariant of the audit log.
LEMMA AuditStep ==
    ASSUME LogBlocked, AuditInv, TypeInv', Apart', NEW w \in Workers, Step(w)
    PROVE  AuditInv'
<1>0. /\ pc[w] # "idle"
      /\ TypeInv /\ LoggedSoFar(w) /\ OwnRequest(w)
  BY JobStep DEF AuditInv, Apart
<1>1. PICK r \in Requests : r = job[w].request
  BY <1>0, JobFacts DEF TypeInv
<1>2. /\ Local(w)
      /\ r \in arrived
      /\ arrived \subseteq Requests
  BY <1>0, <1>1, StepTouchesOwnRow, JobFacts DEF TypeInv, WorkersOK
<1>3. \A q \in Requests \ arrived' : Unlogged(q)'
  BY <1>1, <1>2 DEF AuditInv, Local, Unlogged
<1>4. ASSUME NEW v \in Workers \ {w}, pc'[v] # "idle" PROVE LoggedSoFar(v)'
  <2>1. /\ pc[v] # "idle"
        /\ LoggedSoFar(v)
    BY <1>2, <1>4 DEF AuditInv, Local
  <2>2. PICK q \in Requests : q = job[v].request
    BY <1>0, <2>1, JobFacts DEF TypeInv
  <2>3. q # r
    BY <1>0, <1>1, <2>1, <2>2 DEF OwnRequest
  <2>4. /\ pc'[v] = pc[v] /\ outcome'[v] = outcome[v] /\ job'[v].request = q
        /\ RowsOf(q)' = RowsOf(q)
        /\ q \in unwritten' <=> q \in unwritten
    BY <1>1, <1>2, <2>2, <2>3 DEF Local
  <2> QED BY <2>1, <2>2, <2>4 DEF LoggedSoFar, Unlogged, Settled
<1>5. CASE Answer(w)
  <2>1. pc'[w] = "idle"
    BY <1>0, <1>5, JobStep
  <2>2. /\ DOMAIN answered' = DOMAIN answered \cup {r}
        /\ answered'[r].decision = outcome[w].decision
        /\ RowsOf(r)' = RowsOf(r) /\ unwritten' = unwritten
        /\ pc[w] = "answer"
    BY <1>1, <1>5 DEF Answer, RowsOf, tableVars
  <2>3. Settled(r, outcome[w].decision)
    BY <1>0, <1>1, <2>2 DEF LoggedSoFar
  <2>4. AuditExact'
    <3> SUFFICES ASSUME NEW q \in DOMAIN answered'
                 PROVE  Cardinality(RowsOf(q)') =
                          IF answered'[q].decision = "Pass" \/ q \in unwritten' THEN 0 ELSE 1
      BY DEF AuditExact
    <3>1. CASE q = r
      BY <2>2, <2>3, <3>1 DEF Settled
    <3>2. CASE q # r
      <4>1. q \in DOMAIN answered /\ q \in Requests
        BY <1>0, <1>2, <2>2, <3>2 DEF TypeInv, SharedOK, HistoryOK
      <4> QED BY <1>1, <1>2, <2>2, <3>2, <4>1 DEF AuditInv, AuditExact, Local
    <3> QED BY <3>1, <3>2
  <2>5. \A v \in Workers : LoggedSoFar(v)'
    BY <1>4, <2>1 DEF LoggedSoFar
  <2> QED BY <1>3, <2>4, <2>5 DEF AuditInv
<1>6. CASE ~Answer(w)
  <2>1. /\ job'[w] = job[w] /\ answered' = answered
        /\ pc'[w] \notin {"autoblock", "answer"} => Unlogged(r)'
        /\ pc'[w] \in Deciding \ {"answer"} => outcome'[w].decision # "Pass"
        /\ pc'[w] \in {"autoblock", "answer"} => Settled(r, outcome[w].decision)'
    BY <1>0, <1>1, <1>6, OwnRowStep
  <2>2. \A v \in Workers : LoggedSoFar(v)'
    BY <1>1, <1>4, <2>1 DEF LoggedSoFar
  <2>3. AuditExact'
    <3>1. r \notin DOMAIN answered /\ DOMAIN answered \subseteq Requests
      BY <1>0, <1>1, <1>2 DEF OwnRequest, TypeInv, SharedOK, HistoryOK
    <3> QED BY <1>1, <1>2, <2>1, <3>1 DEF AuditInv, AuditExact, Local
  <2> QED BY <1>3, <2>2, <2>3 DEF AuditInv
<1> QED BY <1>5, <1>6

\* A request that arrives has left nothing in the log before.
LEMMA AuditBegin ==
    ASSUME LogBlocked, AuditInv, TypeInv', Apart',
           NEW w \in Workers, NEW r \in Requests, NEW p \in Profiles, Begin(w, r, p)
    PROVE  AuditInv'
<1>1. /\ TypeInv
      /\ UNCHANGED <<audit_log, unwritten, answered>>
      /\ r \notin arrived /\ arrived' = arrived \cup {r}
  BY DEF AuditInv, Begin, tableVars, historyVars
<1>2. \A q \in Requests : RowsOf(q)' = RowsOf(q)
  BY <1>1 DEF RowsOf
<1>3. /\ job'[w].request = r
      /\ pc'[w] \in {"count", "endpoints"}
      /\ pc'[w] \in Deciding => outcome'[w].decision # "Pass"
  <2>1. job'[w].request = r
    BY <1>1, BeginStep
  <2>2. CASE Reject(w, "AllowlistDenied", 0)
    BY <1>1, <2>1, <2>2 DEF Reject, GoTo, Decide, TypeInv, WorkersOK
  <2>3. CASE GoTo(w, "endpoints")
    BY <1>1, <2>1, <2>3 DEF GoTo, Deciding, TypeInv, WorkersOK
  <2> QED BY <2>2, <2>3 DEF Begin
<1>4. Unlogged(r)'
  BY <1>1, <1>2 DEF AuditInv, Unlogged
<1>5. LoggedSoFar(w)'
  BY <1>3, <1>4 DEF LoggedSoFar
<1>6. ASSUME NEW v \in Workers \ {w}, pc'[v] # "idle" PROVE LoggedSoFar(v)'
  <2>1. pc'[v] = pc[v] /\ job'[v] = job[v] /\ outcome'[v] = outcome[v]
    BY <1>1, BeginStep
  <2>2. PICK q \in Requests : q = job[v].request
    BY <1>1, <1>6, <2>1, JobFacts DEF TypeInv
  <2>3. RowsOf(q)' = RowsOf(q)
    BY <1>2
  <2> QED BY <1>1, <1>6, <2>1, <2>2, <2>3 DEF AuditInv, LoggedSoFar, Unlogged, Settled
<1>7. \A q \in Requests \ arrived' : Unlogged(q)'
  BY <1>1, <1>2 DEF AuditInv, Unlogged
<1>8. AuditExact'
  BY <1>1 DEF AuditInv, AuditExact, RowsOf
<1> QED BY <1>5, <1>6, <1>7, <1>8 DEF AuditInv, LoggedSoFar

\* With log_blocked on, when a client gets its answer the audit log holds exactly
\* one row about the request if it was not let through and the database took the
\* row, and none otherwise, however the workers interleave and across restarts.
THEOREM AuditIsExact == Spec => []AuditExact
<1>1. CASE ~LogBlocked
  <2>1. AuditExact
    BY <1>1 DEF AuditExact
  <2> QED BY <2>1, PTL
<1>2. CASE LogBlocked
  <2>1. Init /\ TypeInv /\ Apart => AuditInv
    BY DEF Init, DB!Init, AuditInv, AuditExact, LoggedSoFar, Unlogged, RowsOf
  <2>2. AuditInv /\ TypeInv' /\ Apart' /\ [Next]_vars => AuditInv'
    <3> SUFFICES ASSUME AuditInv, TypeInv', Apart', [Next]_vars PROVE AuditInv'
      OBVIOUS
    <3>1. ASSUME NEW w \in Workers, Step(w) PROVE AuditInv'
      BY <1>2, <3>1, AuditStep
    <3>2. ASSUME NEW w \in Workers, NEW r \in Requests, NEW p \in Profiles, Begin(w, r, p)
          PROVE  AuditInv'
      BY <1>2, <3>2, AuditBegin
    <3>3. CASE Admin \/ Tick \/ UNCHANGED vars
      <4>1. UNCHANGED <<pc, job, outcome, arrived, audit_log, unwritten, answered>>
        BY <3>3 DEF Admin, Tick, vars, workerVars, tableVars, historyVars,
                    DB!AddToBlocklist, DB!RemoveFromBlocklist, DB!AddToWhitelist,
                    DB!WriteFails
      <4> QED BY <4>1 DEF AuditInv, AuditExact, LoggedSoFar, Unlogged, Settled, RowsOf
    <3>4. CASE Restart
      <4>1. /\ UNCHANGED <<arrived, audit_log, unwritten, answered>>
            /\ \A w \in Workers : pc'[w] = "idle"
        BY <3>4 DEF Restart, tableVars, historyVars
      <4> QED BY <4>1 DEF AuditInv, AuditExact, LoggedSoFar, Unlogged, RowsOf
    <3> QED BY <3>1, <3>2, <3>3, <3>4 DEF Next
  <2>3. AuditInv => AuditExact
    BY DEF AuditInv
  <2> QED BY <2>1, <2>2, <2>3, ApartInvariant, PTL DEF Spec
<1> QED BY <1>1, <1>2
==============================================================================
