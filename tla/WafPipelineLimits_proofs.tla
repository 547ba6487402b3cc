----------------------- MODULE WafPipelineLimits_proofs -----------------------
(* Proof that evaluate keeps the general limit and those of the endpoints, for *)
(* any number of workers and requests, any limits and any window.              *)
EXTENDS WafPipeline_proofs

\* The windows evaluate checks: the general one and one per endpoint.
Keys == Endpoints \cup {General}

EntriesOf(ip, k) == IF k = General THEN Limiter!WindowAt(windows, ip)
                    ELSE Limiter!WindowAt(endpoint_windows, <<ip, k>>)

Allowance(k) == Burst + IF k = General THEN MaxPerWindow ELSE EndpointLimit[k]

\* A worker whose request no gate has stopped so far.
Hopeful(w) == \/ pc[w] \in {"endpoints", "general", "lookup", "scan"}
              \/ pc[w] = "answer" /\ outcome[w].decision = "Pass"

\* The requests of ip that were forwarded since the last restart or still may be.
Admitted(ip) == PassedIn(restarts, ip)
                \cup {job[w].request : w \in {v \in Workers : Hopeful(v) /\ Ip(v) = ip}}

Stamp(r, k) == [at |-> checkedAt[r][k], call |-> r]

\* An admitted request stays in the window it was checked against for as long
\* as the window lasts.
Remembered(ip, k) ==
    \A r \in Admitted(ip) : k \in DOMAIN checkedAt[r] =>
        /\ checkedAt[r][k] <= wall
        /\ wall <= checkedAt[r][k] + WindowMs => Stamp(r, k) \in EntriesOf(ip, k)

Bounded(ip, k) ==
    \A t \in Nat : Cardinality(Within(Admitted(ip), k, t)) <= Allowance(k)

PastBounded ==
    \A life \in 0..restarts, ip \in IPs, k \in Keys, t \in Nat :
        Cardinality(Within(PassedIn(life, ip), k, t)) <= Allowance(k)

\* The types of the history: what was checked belongs to requests that arrived,
\* and nothing was answered in a life to come.
PastOK == /\ DOMAIN checkedAt = Requests
          /\ \A r \in Requests : checkedAt[r] \in [DOMAIN checkedAt[r] -> Nat]
          /\ \A r \in Requests \ arrived : DOMAIN checkedAt[r] = {}
          /\ \A r \in DOMAIN answered : answered[r].life \in 0..restarts
          /\ IsFiniteSet(arrived)
          /\ DOMAIN blocked_ips = {}

\* A rejection is final.
Refusing(w) == pc[w] \in Deciding \ {"answer"} => outcome[w].decision # "Pass"

LimitInv == /\ TypeInv /\ Apart
            /\ PastOK
            /\ \A w \in Workers : Refusing(w)
            /\ \A ip \in IPs, k \in Keys : Remembered(ip, k) /\ Bounded(ip, k)
            /\ PastBounded

(************************ sets of requests *************************************)

\* What may be forwarded has arrived.
LEMMA AdmittedArrived ==
    ASSUME TypeInv, NEW ip
    PROVE  /\ Admitted(ip) \subseteq arrived
           /\ \A life : PassedIn(life, ip) \subseteq arrived
<1>1. \A life : PassedIn(life, ip) \subseteq arrived
  BY DEF PassedIn, TypeInv, SharedOK, HistoryOK
<1>2. \A w \in Workers : Hopeful(w) => job[w].request \in arrived
  <2> SUFFICES ASSUME NEW w \in Workers, Hopeful(w) PROVE pc[w] # "idle"
    BY JobFacts DEF TypeInv
  <2> QED BY DEF Hopeful
<1> QED BY <1>1, <1>2 DEF Admitted

\* A subset of what arrived is not larger than a bound on what contains it.
LEMMA SmallerWithin ==
    ASSUME NEW A, IsFiniteSet(A), NEW S \in SUBSET A, NEW T \in SUBSET S,
           NEW n \in Nat, Cardinality(S) <= n
    PROVE  Cardinality(T) <= n
<1>1. IsFiniteSet(S)
  BY FS_Subset
<1>2. Cardinality(T) <= Cardinality(S) /\ Cardinality(T) \in Nat /\ Cardinality(S) \in Nat
  BY <1>1, FS_Subset, FS_CardinalityType
<1> QED BY <1>2

\* The allowance of every key is a number.
LEMMA AllowanceType ==
    ASSUME NEW k \in Keys
    PROVE  Allowance(k) \in Nat
BY NumberAssumption, EndpointAssumption DEF Allowance, Keys

(************************ steps that admit nobody ******************************)

\* Nobody new is counted under k, nothing is re-stamped, and the window of k
\* loses only what is too old.
Quiet(ip, k) ==
    /\ wall' \in Nat /\ wall <= wall'
    /\ \A r \in Admitted(ip)' : k \in DOMAIN checkedAt'[r] =>
          /\ r \in Admitted(ip)
          /\ k \in DOMAIN checkedAt[r]
          /\ checkedAt'[r][k] = checkedAt[r][k]
    /\ \A e \in EntriesOf(ip, k) : wall' <= e.at + WindowMs => e \in EntriesOf(ip, k)'

\* Such a step keeps both the memory and the bound.
LEMMA QuietStep ==
    ASSUME LimitInv, NEW ip \in IPs, NEW k \in Keys, Quiet(ip, k)
    PROVE  Remembered(ip, k)' /\ Bounded(ip, k)'
<1>1. Admitted(ip) \subseteq arrived /\ arrived \subseteq Requests /\ IsFiniteSet(arrived)
  BY AdmittedArrived DEF LimitInv, PastOK, TypeInv, WorkersOK
<1>2. /\ wall \in Nat /\ WindowMs \in Nat
      /\ \A r \in Admitted(ip) : k \in DOMAIN checkedAt[r] => checkedAt[r][k] \in Nat
  BY <1>1, NumberAssumption DEF LimitInv, PastOK, TypeInv, SharedOK, DB!TypeOK
<1>3. Remembered(ip, k)'
  <2> SUFFICES ASSUME NEW r \in Admitted(ip)', k \in DOMAIN checkedAt'[r]
               PROVE  /\ checkedAt'[r][k] <= wall'
                      /\ wall' <= checkedAt'[r][k] + WindowMs =>
                            Stamp(r, k)' \in EntriesOf(ip, k)'
    BY DEF Remembered
  <2>1. /\ r \in Admitted(ip) /\ k \in DOMAIN checkedAt[r]
        /\ checkedAt'[r][k] = checkedAt[r][k]
        /\ wall' \in Nat /\ wall <= wall'
    BY DEF Quiet
  <2>2. /\ checkedAt[r][k] \in Nat
        /\ checkedAt[r][k] <= wall
        /\ wall <= checkedAt[r][k] + WindowMs => Stamp(r, k) \in EntriesOf(ip, k)
    BY <1>2, <2>1 DEF LimitInv, Remembered
  <2>3. Stamp(r, k)' = Stamp(r, k) /\ Stamp(r, k).at = checkedAt[r][k]
    BY <2>1 DEF Stamp
  <2>4. ASSUME wall' <= checkedAt[r][k] + WindowMs PROVE Stamp(r, k) \in EntriesOf(ip, k)'
    <3>1. Stamp(r, k) \in EntriesOf(ip, k)
      BY <1>2, <2>1, <2>2, <2>4
    <3> QED BY <2>3, <2>4, <3>1 DEF Quiet
  <2> QED BY <1>2, <2>1, <2>2, <2>3, <2>4
<1>4. Bounded(ip, k)'
  <2> SUFFICES ASSUME NEW t \in Nat
               PROVE  Cardinality(Within(Admitted(ip), k, t)') <= Allowance(k)
    BY DEF Bounded, Allowance
  <2>1. Within(Admitted(ip), k, t)' \subseteq Within(Admitted(ip), k, t)
    BY DEF Within, Quiet
  <2>2. Within(Admitted(ip), k, t) \subseteq arrived
    BY <1>1 DEF Within
  <2>3. Cardinality(Within(Admitted(ip), k, t)) <= Allowance(k)
    BY DEF LimitInv, Bounded
  <2> QED BY <1>1, <2>1, <2>2, <2>3, SmallerWithin, AllowanceType
<1> QED BY <1>3, <1>4

(************************ the step that admits *********************************)

\* A request checked against k, after which at most the allowance is in its
\* window.
Admits(ip, k, r) ==
    LET new == [at |-> wall, call |-> r]
    IN  /\ wall' = wall
        /\ Admitted(ip)' = Admitted(ip)
        /\ r \in Requests
        /\ checkedAt' = [checkedAt EXCEPT ![r] = Limiter!Put(@, k, wall)]
        /\ EntriesOf(ip, k)' = Limiter!Recorded(EntriesOf(ip, k), wall, r)
        /\ Cardinality(EntriesOf(ip, k)') <= Allowance(k)

\* Such a step keeps both as well: all that is admitted within one window of the
\* new request is in the window that was just counted.
LEMMA AdmitStep ==
    ASSUME LimitInv, NEW ip \in IPs, NEW k \in Keys, NEW r, Admits(ip, k, r),
           IsFiniteSet(EntriesOf(ip, k)')
    PROVE  Remembered(ip, k)' /\ Bounded(ip, k)'
<1>0. Admitted(ip) \subseteq arrived /\ arrived \subseteq Requests /\ IsFiniteSet(arrived)
  BY AdmittedArrived DEF LimitInv, PastOK, TypeInv, WorkersOK
<1>1. /\ wall \in Nat /\ WindowMs \in Nat /\ wall' = wall
      /\ Admitted(ip)' = Admitted(ip)
      /\ \A q \in Admitted(ip) : k \in DOMAIN checkedAt[q] => checkedAt[q][k] \in Nat
  BY <1>0, NumberAssumption DEF LimitInv, PastOK, TypeInv, SharedOK, DB!TypeOK, Admits
<1>2. /\ k \in DOMAIN checkedAt'[r] /\ checkedAt'[r][k] = wall
      /\ \A q \in Requests \ {r} : checkedAt'[q] = checkedAt[q]
  BY DEF Admits, Limiter!Put, LimitInv, PastOK
<1>3. [at |-> wall, call |-> r] \in EntriesOf(ip, k)'
  BY DEF Admits, Limiter!Recorded
<1>4. ASSUME NEW q \in Admitted(ip) \ {r}, k \in DOMAIN checkedAt[q],
             wall <= checkedAt[q][k] + WindowMs
      PROVE  Stamp(q, k) \in EntriesOf(ip, k)'
  <2>1. Stamp(q, k) \in EntriesOf(ip, k)
    BY <1>4 DEF LimitInv, Remembered
  <2>2. Limiter!Age(wall, Stamp(q, k).at) <= WindowMs
    BY <1>1, <1>4 DEF Limiter!Age, Stamp
  <2> QED BY <2>1, <2>2 DEF Admits, Limiter!Recorded, Limiter!Retained
<1>5. Remembered(ip, k)'
  <2> SUFFICES ASSUME NEW q \in Admitted(ip), k \in DOMAIN checkedAt'[q]
               PROVE  /\ checkedAt'[q][k] <= wall
                      /\ wall <= checkedAt'[q][k] + WindowMs =>
                            Stamp(q, k)' \in EntriesOf(ip, k)'
    BY <1>1 DEF Remembered
  <2>1. CASE q = r
    BY <1>1, <1>2, <1>3, <2>1 DEF Stamp
  <2>2. CASE q # r
    <3>1. checkedAt'[q] = checkedAt[q] /\ Stamp(q, k)' = Stamp(q, k)
      BY <1>0, <1>2, <2>2 DEF Stamp
    <3> QED BY <1>4, <2>2, <3>1 DEF LimitInv, Remembered
  <2> QED BY <2>1, <2>2
<1>6. Bounded(ip, k)'
  <2> SUFFICES ASSUME NEW t \in Nat
               PROVE  Cardinality(Within(Admitted(ip), k, t)') <= Allowance(k)
    BY DEF Bounded, Allowance
  <2> DEFINE W == Within(Admitted(ip), k, t)'
  <2>1. CASE r \notin W
    <3>1. W \subseteq Within(Admitted(ip), k, t)
      BY <1>0, <1>1, <1>2, <2>1 DEF Within
    <3>2. Within(Admitted(ip), k, t) \subseteq arrived
      BY <1>0 DEF Within
    <3>3. Cardinality(Within(Admitted(ip), k, t)) <= Allowance(k)
      BY DEF LimitInv, Bounded
    <3> QED BY <1>0, <3>1, <3>2, <3>3, SmallerWithin, AllowanceType
  <2>2. CASE r \in W
    <3> DEFINE E == EntriesOf(ip, k)'
               f == [q \in W |-> Stamp(q, k)']
    <3>1. wall <= t
      BY <1>2, <2>2 DEF Within
    <3>2. \A q \in W : Stamp(q, k)' \in E
      <4> SUFFICES ASSUME NEW q \in W PROVE Stamp(q, k)' \in E
        OBVIOUS
      <4>1. CASE q = r
        BY <1>2, <1>3, <4>1 DEF Stamp
      <4>2. CASE q # r
        <5>1. /\ q \in Admitted(ip) /\ checkedAt'[q] = checkedAt[q]
              /\ k \in DOMAIN checkedAt[q]
              /\ t <= checkedAt[q][k] + WindowMs
          BY <1>0, <1>1, <1>2, <4>2 DEF Within
        <5>2. wall <= checkedAt[q][k] + WindowMs
          BY <1>1, <3>1, <5>1
        <5> QED BY <1>4, <4>2, <5>1, <5>2 DEF Stamp
      <4> QED BY <4>1, <4>2
    <3>3. f \in Injection(W, E)
      <4>1. \A q \in W : Stamp(q, k)'.call = q
        BY DEF Stamp
      <4> QED BY <3>2, <4>1 DEF Injection, IsInjective
    <3> HIDE DEF E, f, W
    <3>4. Cardinality(W) <= Cardinality(E) /\ IsFiniteSet(W)
      BY <3>3, FS_Injection DEF E
    <3>5. Cardinality(E) <= Allowance(k) /\ Cardinality(E) \in Nat
      BY FS_CardinalityType DEF Admits, E
    <3>6. Cardinality(W) <= Allowance(k)
      BY <3>4, <3>5, AllowanceType, FS_CardinalityType
    <3> QED BY <3>6 DEF W
  <2> QED BY <2>1, <2>2
<1> QED BY <1>5, <1>6

(************************ who is admitted **************************************)

\* A step of evaluate revives nobody: a worker that has lost hope keeps
\* rejecting, and its request is nobody else's.
LEMMA HopeStep ==
    ASSUME LimitInv, NEW w \in Workers, Step(w)
    PROVE  /\ Hopeful(w)' => Hopeful(w)
           /\ Refusing(w)'
<1>1. TypeInv /\ Refusing(w)
  BY DEF LimitInv
<1>2. CASE pc[w] \in Pending \ {"count"}
  BY <1>1, <1>2, GateStep DEF Pending, Hopeful, Refusing, Deciding
<1>3. CASE pc[w] \in Deciding \ {"answer"}
  BY <1>1, <1>3, DecisionStands DEF Hopeful, Refusing, Deciding
<1>4. CASE pc[w] = "answer"
  <2>1. Answer(w)
    BY <1>4 DEF Step, CheckEndpointLimit, EndpointsPassed, CheckGeneralLimit, Lookup, Scan,
                CountBlocked, StoreScore, Audit, AutoBlock
  <2>2. pc'[w] = "idle"
    BY <1>1, <2>1, JobStep
  <2> QED BY <2>2 DEF Hopeful, Refusing, Deciding
<1>5. pc[w] # "idle" /\ pc[w] \in Stages
  BY <1>1, JobStep DEF TypeInv, WorkersOK
<1> QED BY <1>2, <1>3, <1>4, <1>5 DEF Stages, Pending, Deciding

\* So a step that does not answer admits nobody, and takes out a request that it
\* rejects.
LEMMA AdmittedStep ==
    ASSUME LimitInv, NEW w \in Workers, Step(w), ~Answer(w), UNCHANGED restarts,
           NEW ip
    PROVE  /\ Admitted(ip)' \subseteq Admitted(ip)
           /\ ~Hopeful(w)' => job[w].request \notin Admitted(ip)'
           /\ Hopeful(w)' => Admitted(ip)' = Admitted(ip)
           /\ job[w].request \in Admitted(ip)' => ip = Ip(w)
<1>1. /\ pc[w] # "idle" /\ job' = job /\ answered' = answered
      /\ \A v \in Workers \ {w} : pc'[v] = pc[v] /\ outcome'[v] = outcome[v]
      /\ OwnRequest(w) /\ (Hopeful(w)' => Hopeful(w))
  BY JobStep, StepIsLocal, HopeStep
     DEF LimitInv, TypeInv, WorkersOK, HasOutcomes, HasJobs, Apart
<1>2. PassedIn(restarts, ip)' = PassedIn(restarts, ip)
      /\ job[w].request \notin PassedIn(restarts, ip)
  BY <1>1 DEF PassedIn, OwnRequest
<1>3. \A v \in Workers : Ip(v)' = Ip(v)
  BY <1>1 DEF Ip
<1>4. \A v \in Workers \ {w} : Hopeful(v)' <=> Hopeful(v)
  BY <1>1 DEF Hopeful
<1>5. Admitted(ip)' \subseteq Admitted(ip)
  BY <1>1, <1>2, <1>3, <1>4 DEF Admitted
<1>6. \A v \in Workers \ {w} : Hopeful(v)' => job[v].request # job[w].request
  BY <1>1 DEF Hopeful, OwnRequest
<1>7. Hopeful(w)' => Admitted(ip)' = Admitted(ip)
  BY <1>1, <1>2, <1>3, <1>4 DEF Admitted
<1>8. /\ ~Hopeful(w)' => job[w].request \notin Admitted(ip)'
      /\ job[w].request \in Admitted(ip)' => ip = Ip(w)
  <2> SUFFICES ASSUME job[w].request \in Admitted(ip)' PROVE Hopeful(w)' /\ ip = Ip(w)
    OBVIOUS
  <2>1. PICK v \in Workers : Hopeful(v)' /\ Ip(v)' = ip /\ job'[v].request = job[w].request
    BY <1>2 DEF Admitted
  <2>2. v = w
    BY <1>1, <1>6, <2>1
  <2> QED BY <1>3, <2>1, <2>2
<1> QED BY <1>5, <1>7, <1>8

(************************ the checks *******************************************)

\* A worker checks its request against k0: if its window then holds more than
\* the allowance it rejects, and otherwise the request stays admitted.
Checks(w, ip0, k0, r) ==
    /\ pc[w] # "idle" /\ r = job[w].request /\ ip0 = Ip(w)
    /\ UNCHANGED <<wall, restarts>>
    /\ checkedAt' = [checkedAt EXCEPT ![r] = Limiter!Put(@, k0, wall)]
    /\ EntriesOf(ip0, k0)' = Limiter!Recorded(EntriesOf(ip0, k0), wall, r)
    /\ \A ip \in IPs, k \in Keys :
          <<ip, k>> # <<ip0, k0>> => EntriesOf(ip, k)' = EntriesOf(ip, k)
    /\ \/ ~Hopeful(w)'
       \/ Cardinality(EntriesOf(ip0, k0)') <= Allowance(k0)

\* Every window is a finite set of entries.
LEMMA EntriesFinite ==
    ASSUME TypeInv, NEW ip \in IPs, NEW k \in Keys
    PROVE  /\ EntriesOf(ip, k) \subseteq Limiter!Entry
           /\ IsFiniteSet(EntriesOf(ip, k))
<1>1. LimiterOK
  BY DEF TypeInv, SharedOK
<1>2. CASE k = General
  BY <1>1, <1>2, FS_EmptySet
     DEF LimiterOK, Limiter!TypeOK, Limiter!IsMap, Limiter!WindowAt, EntriesOf
<1>3. CASE k # General
  <2>1. <<ip, k>> \in IPs \X Endpoints
    BY <1>3 DEF Keys
  <2> QED BY <1>1, <1>3, <2>1, FS_EmptySet
          DEF LimiterOK, Limiter!TypeOK, Limiter!IsMap, Limiter!WindowAt, EntriesOf
<1> QED BY <1>2, <1>3

\* A check keeps the memory and the bound of every window.
LEMMA ChecksStep ==
    ASSUME LimitInv, NEW w \in Workers, Step(w), ~Answer(w),
           NEW ip0 \in IPs, NEW k0 \in Keys, NEW r \in Requests, Checks(w, ip0, k0, r)
    PROVE  \A ip \in IPs, k \in Keys : Remembered(ip, k)' /\ Bounded(ip, k)'
<1> SUFFICES ASSUME NEW ip \in IPs, NEW k \in Keys
             PROVE  Remembered(ip, k)' /\ Bounded(ip, k)'
  OBVIOUS
<1>0. wall \in Nat /\ wall' = wall /\ restarts' = restarts /\ WindowMs \in Nat
  BY NumberAssumption DEF LimitInv, TypeInv, SharedOK, DB!TypeOK, Checks
<1>1. /\ Admitted(ip)' \subseteq Admitted(ip)
      /\ ~Hopeful(w)' => r \notin Admitted(ip)'
      /\ Hopeful(w)' => Admitted(ip)' = Admitted(ip)
      /\ r \in Admitted(ip)' => ip = ip0
  BY <1>0, AdmittedStep DEF Checks
<1>2. \A q \in Requests \ {r} : checkedAt'[q] = checkedAt[q]
  BY DEF Checks, LimitInv, PastOK
<1>3. Admitted(ip)' \subseteq Requests
  BY <1>1, AdmittedArrived DEF LimitInv, TypeInv, WorkersOK
<1>4. \A e \in EntriesOf(ip, k) : wall' <= e.at + WindowMs => e \in EntriesOf(ip, k)'
  <2>1. \A e \in EntriesOf(ip, k) : e.at \in Nat
    BY EntriesFinite DEF LimitInv, Limiter!Entry
  <2>2. CASE ip = ip0 /\ k = k0
    BY <1>0, <2>1, <2>2 DEF Checks, Limiter!Recorded, Limiter!Retained, Limiter!Age
  <2>3. CASE ~(ip = ip0 /\ k = k0)
    <3>1. <<ip, k>> # <<ip0, k0>>
      BY <2>3
    <3> QED BY <3>1 DEF Checks
  <2> QED BY <2>2, <2>3
<1>5. CASE Hopeful(w)' /\ ip = ip0 /\ k = k0
  <2>1. Admits(ip, k, r)
    BY <1>0, <1>1, <1>5 DEF Admits, Checks
  <2>2. IsFiniteSet(EntriesOf(ip, k)')
    BY <1>0, <1>5, EntriesFinite, WindowStaysFinite DEF LimitInv, Checks
  <2> QED BY <2>1, <2>2, AdmitStep
<1>6. CASE ~(Hopeful(w)' /\ ip = ip0 /\ k = k0)
  <2>1. \A q \in Admitted(ip)' : k \in DOMAIN checkedAt'[q] =>
           /\ k \in DOMAIN checkedAt[q]
           /\ checkedAt'[q][k] = checkedAt[q][k]
    <3> SUFFICES ASSUME NEW q \in Admitted(ip)', k \in DOMAIN checkedAt'[q]
                 PROVE  /\ k \in DOMAIN checkedAt[q]
                        /\ checkedAt'[q][k] = checkedAt[q][k]
      OBVIOUS
    <3>1. CASE q # r
      BY <1>2, <1>3, <3>1
    <3>2. CASE q = r
      <4>1. k # k0
        BY <1>1, <1>6, <3>2
      <4>2. checkedAt'[r] = Limiter!Put(checkedAt[r], k0, wall)
        BY DEF Checks, LimitInv, PastOK
      <4> QED BY <3>2, <4>1, <4>2 DEF Limiter!Put
    <3> QED BY <3>1, <3>2
  <2>2. Quiet(ip, k)
    BY <1>0, <1>1, <1>4, <2>1 DEF Quiet
  <2> QED BY <2>2, QuietStep
<1> QED BY <1>5, <1>6

\* Nothing is blocked in the limiter, so every check records its request.
LEMMA NothingBlocked ==
    ASSUME LimitInv
    PROVE  \A ip : ~Limiter!Blocked(ip, wall)
BY DEF LimitInv, PastOK, Limiter!Blocked

\* The general check is a check of the general window.
LEMMA GeneralChecks ==
    ASSUME LimitInv, NEW w \in Workers, CheckGeneralLimit(w),
           NEW ip \in IPs, ip = Ip(w), NEW r \in Requests, r = job[w].request
    PROVE  /\ Checks(w, ip, General, r)
           /\ DOMAIN blocked_ips' = {}
<1> DEFINE u == Limiter!Recorded(Limiter!WindowAt(windows, ip), wall, r)
<1>1. /\ pc[w] # "idle"
      /\ UNCHANGED <<wall, restarts, endpoint_windows>>
      /\ checkedAt' = [checkedAt EXCEPT ![r] = Limiter!Put(@, General, wall)]
      /\ Limiter!CheckRecorded(ip, r)
  BY NothingBlocked
     DEF CheckGeneralLimit, Limiter!Check, Limiter!CheckRefused, processVars
<1>2. /\ windows' = Limiter!Put(windows, ip, u)
      /\ verdict' = Limiter!Counted(Cardinality(u))
      /\ DOMAIN blocked_ips' = {}
  BY <1>1, SameCardinality
     DEF Limiter!CheckRecorded, Limiter!Keep, LimitInv, PastOK
<1> HIDE DEF u
<1>3. /\ Limiter!WindowAt(windows', ip) = u
      /\ \A q : q # ip => Limiter!WindowAt(windows', q) = Limiter!WindowAt(windows, q)
  BY <1>2 DEF Limiter!Put, Limiter!WindowAt
<1>4. ~Hopeful(w)' \/ Cardinality(u) <= Allowance(General)
  <2>1. CASE OverLimit
    <3>1. pc'[w] = "count"
      BY <2>1 DEF CheckGeneralLimit, Reject, GoTo, LimitInv, TypeInv, WorkersOK
    <3> QED BY <3>1 DEF Hopeful
  <2>2. CASE ~OverLimit
    <3>1. Cardinality(u) <= MaxPerWindow + Burst
      BY <1>2, <2>2 DEF OverLimit, Limiter!Counted, Limiter!Limit
    <3> QED BY <3>1, NumberAssumption DEF Allowance
  <2> QED BY <2>1, <2>2
<1>5. EntriesOf(ip, General)' = u /\ EntriesOf(ip, General) = Limiter!WindowAt(windows, ip)
  BY <1>3 DEF EntriesOf
<1> QED BY <1>1, <1>2, <1>3, <1>4, <1>5 DEF Checks, EntriesOf, u

\* The check of a matching endpoint is a check of that endpoint's window.
LEMMA EndpointChecks ==
    ASSUME LimitInv, NEW w \in Workers, CheckEndpointLimit(w),
           NEW ip \in IPs, ip = Ip(w), NEW r \in Requests, r = job[w].request
    PROVE  \E ep \in Endpoints : /\ Checks(w, ip, ep, r)
                                 /\ DOMAIN blocked_ips' = {}
<1>1. PICK ep \in todo[w] :
         /\ pc[w] = "endpoints"
         /\ Limiter!CheckEndpoint(ip, ep, r)
         /\ checkedAt' = [checkedAt EXCEPT ![r] = Limiter!Put(@, ep, wall)]
         /\ OverEndpointLimit(ep) => Reject(w, "RateLimited", 0)
  BY DEF CheckEndpointLimit
<1> DEFINE k == <<ip, ep>>
           u == Limiter!Recorded(Limiter!WindowAt(endpoint_windows, k), wall, r)
<1>2. ep \in Endpoints /\ ep # General
  BY <1>1, EndpointAssumption DEF LimitInv, TypeInv, WorkersOK
<1>3. /\ UNCHANGED <<wall, restarts, windows, blocked_ips>>
      /\ Limiter!EndpointRecorded(ip, ep, r)
      /\ DOMAIN blocked_ips' = {}
  BY <1>1, NothingBlocked
     DEF CheckEndpointLimit, Limiter!CheckEndpoint, Limiter!EndpointRefused, processVars,
         LimitInv, PastOK
<1>4. /\ endpoint_windows' = Limiter!Put(endpoint_windows, k, u)
      /\ verdict' = Limiter!Counted(Cardinality(u))
  BY <1>3, SameCardinality DEF Limiter!EndpointRecorded
<1>5. EntriesOf(ip, ep) \subseteq Limiter!Entry /\ IsFiniteSet(EntriesOf(ip, ep))
  BY <1>2, EntriesFinite DEF LimitInv, Keys
<1>6. u = Limiter!Recorded(EntriesOf(ip, ep), wall, r) /\ Cardinality(u) \in Nat
  <2>1. wall \in Nat
    BY DEF LimitInv, TypeInv, SharedOK, DB!TypeOK
  <2>2. u = Limiter!Recorded(EntriesOf(ip, ep), wall, r)
    BY <1>2 DEF EntriesOf
  <2>3. IsFiniteSet(u)
    BY <1>5, <2>1, <2>2, WindowStaysFinite
  <2> QED BY <2>2, <2>3, FS_CardinalityType
<1> HIDE DEF u, k
<1>7. /\ Limiter!WindowAt(endpoint_windows', k) = u
      /\ \A q : q # k => Limiter!WindowAt(endpoint_windows', q)
                           = Limiter!WindowAt(endpoint_windows, q)
  BY <1>4 DEF Limiter!Put, Limiter!WindowAt
<1>8. ~Hopeful(w)' \/ Cardinality(u) <= Allowance(ep)
  <2>1. CASE OverEndpointLimit(ep)
    <3>1. pc'[w] = "count"
      BY <1>1, <2>1 DEF Reject, GoTo, LimitInv, TypeInv, WorkersOK
    <3> QED BY <3>1 DEF Hopeful
  <2>2. CASE ~OverEndpointLimit(ep)
    <3>1. ~(Cardinality(u) > EndpointLimit[ep] + Burst)
      BY <1>4, <2>2 DEF OverEndpointLimit, Limiter!Counted
    <3> QED BY <1>2, <1>6, <3>1, NumberAssumption, EndpointAssumption DEF Allowance
  <2> QED BY <2>1, <2>2
<1>9. EntriesOf(ip, ep)' = u
  BY <1>2, <1>7 DEF EntriesOf, k
<1>10. \A q \in IPs, j \in Keys :
          <<q, j>> # <<ip, ep>> => EntriesOf(q, j)' = EntriesOf(q, j)
  BY <1>3, <1>7 DEF EntriesOf, k
<1> QED BY <1>1, <1>2, <1>3, <1>6, <1>8, <1>9, <1>10 DEF Checks

(************************ the limits hold **************************************)

\* What the earlier lives of the process forwarded stays within the limits, and
\* what this one forwarded is among what it admitted.
LEMMA PastStep ==
    ASSUME LimitInv, TypeInv', PastOK',
           \A ip \in IPs, k \in Keys : Bounded(ip, k)',
           \A r \in DOMAIN answered : checkedAt'[r] = checkedAt[r],
           \A life \in 0..restarts' : life # restarts' =>
              /\ life \in 0..restarts
              /\ \A ip \in IPs : PassedIn(life, ip)' = PassedIn(life, ip)
    PROVE  PastBounded'
<1> SUFFICES ASSUME NEW life \in 0..restarts', NEW ip \in IPs, NEW k \in Keys, NEW t \in Nat
             PROVE  Cardinality(Within(PassedIn(life, ip), k, t)') <= Allowance(k)
  BY DEF PastBounded, Allowance, Keys
<1>1. CASE life = restarts'
  <2>1. Admitted(ip)' \subseteq arrived' /\ IsFiniteSet(arrived')
    <3>1. PassedIn(restarts, ip)' \subseteq arrived'
      BY DEF PassedIn, TypeInv, SharedOK, HistoryOK
    <3>2. \A w \in Workers : Hopeful(w)' => job'[w].request \in arrived'
      BY DEF Hopeful, TypeInv, WorkersOK, Employed
    <3> QED BY <3>1, <3>2 DEF Admitted, PastOK
  <2>2. Within(PassedIn(life, ip), k, t)' \subseteq Within(Admitted(ip), k, t)'
    BY <1>1 DEF Within, Admitted, PassedIn
  <2>3. Within(Admitted(ip), k, t)' \subseteq arrived'
    BY <2>1 DEF Within
  <2>4. Cardinality(Within(Admitted(ip), k, t)') <= Allowance(k)
    BY DEF Bounded, Allowance
  <2> QED BY <2>1, <2>2, <2>3, <2>4, SmallerWithin, AllowanceType
<1>2. CASE life # restarts'
  <2>1. /\ life \in 0..restarts
        /\ PassedIn(life, ip)' = PassedIn(life, ip)
        /\ PassedIn(life, ip) \subseteq DOMAIN answered
    BY <1>2 DEF PassedIn
  <2>2. Within(PassedIn(life, ip), k, t)' = Within(PassedIn(life, ip), k, t)
    BY <2>1 DEF Within
  <2> QED BY <2>1, <2>2 DEF LimitInv, PastBounded
<1> QED BY <1>1, <1>2

\* Every step of evaluate keeps the limits.
LEMMA LimitsStep ==
    ASSUME LimitInv, TypeInv', Apart', NEW w \in Workers, Step(w)
    PROVE  LimitInv'
<1>0. /\ pc[w] # "idle" /\ TypeInv /\ OwnRequest(w)
      /\ wall \in Nat /\ restarts \in Nat
  BY JobStep DEF LimitInv, Apart, TypeInv, SharedOK, ProcessOK, DB!TypeOK
<1>1. PICK r \in Requests : r = job[w].request /\ r \in arrived
  BY <1>0, JobFacts DEF TypeInv
<1>2. PICK ip0 \in IPs : ip0 = Ip(w)
  BY <1>0, JobFacts DEF TypeInv
<1>3. UNCHANGED <<wall, restarts, arrived>>
  BY DEF Step, CheckEndpointLimit, EndpointsPassed, CheckGeneralLimit, Lookup, Scan,
         CountBlocked, StoreScore, Audit, AutoBlock, Answer, processVars,
         Limiter!Check, Limiter!CheckEndpoint, DB!LogThreat, DB!AddToBlocklist,
         DB!WriteFails
<1>4. /\ \A v \in Workers \ {w} : /\ pc'[v] = pc[v]
                                  /\ outcome'[v] = outcome[v]
                                  /\ job'[v] = job[v]
  BY <1>0, StepIsLocal DEF TypeInv, WorkersOK, HasOutcomes, HasJobs
<1>5. \A v \in Workers : Refusing(v)'
  BY <1>4, HopeStep DEF LimitInv, Refusing
<1>6. /\ DOMAIN blocked_ips' = {}
      /\ \A ip \in IPs, k \in Keys : Remembered(ip, k)' /\ Bounded(ip, k)'
      /\ \/ checkedAt' = checkedAt
         \/ \E k \in Keys : checkedAt' = [checkedAt EXCEPT ![r] = Limiter!Put(@, k, wall)]
  <2>1. CASE CheckGeneralLimit(w)
    <3>1. Checks(w, ip0, General, r) /\ DOMAIN blocked_ips' = {} /\ General \in Keys
      BY <1>1, <1>2, <2>1, GeneralChecks DEF Keys
    <3>2. ~Answer(w)
      BY <2>1 DEF CheckGeneralLimit, Answer
    <3> QED BY <3>1, <3>2, ChecksStep DEF Checks
  <2>2. CASE CheckEndpointLimit(w)
    <3>1. PICK ep \in Keys : Checks(w, ip0, ep, r) /\ DOMAIN blocked_ips' = {}
      BY <1>1, <1>2, <2>2, EndpointChecks DEF Keys
    <3>2. ~Answer(w)
      BY <2>2 DEF CheckEndpointLimit, Answer
    <3> QED BY <3>1, <3>2, ChecksStep DEF Checks
  <2>3. CASE ~CheckGeneralLimit(w) /\ ~CheckEndpointLimit(w)
    <3>1. UNCHANGED <<limiterVars, checkedAt>>
      BY <2>3 DEF Step, EndpointsPassed, Lookup, Scan, CountBlocked, StoreScore, Audit,
                  AutoBlock, Answer, historyVars
    <3>2. \A ip : Admitted(ip)' \subseteq Admitted(ip)
      <4> SUFFICES ASSUME NEW ip PROVE Admitted(ip)' \subseteq Admitted(ip)
        OBVIOUS
      <4>1. CASE ~Answer(w)
        BY <1>3, <4>1, AdmittedStep
      <4>2. CASE Answer(w)
        <5>1. /\ pc[w] = "answer" /\ pc'[w] = "idle"
              /\ DOMAIN answered' = DOMAIN answered \cup {r}
              /\ answered'[r].decision = outcome[w].decision
              /\ answered'[r].ip = ip0
              /\ \A q \in DOMAIN answered \ {r} : answered'[q] = answered[q]
          <6>1. pc'[w] = "idle"
            BY <1>0, <4>2, JobStep
          <6> QED BY <1>1, <1>2, <4>2, <6>1 DEF Answer
        <5>2. PassedIn(restarts, ip)' \subseteq Admitted(ip)
          <6> SUFFICES ASSUME NEW q \in PassedIn(restarts, ip)' PROVE q \in Admitted(ip)
            OBVIOUS
          <6>1. CASE q = r
            <7>1. outcome[w].decision = "Pass" /\ ip = ip0
              BY <1>3, <5>1, <6>1 DEF PassedIn
            <7> QED BY <1>1, <1>2, <5>1, <6>1, <7>1 DEF Admitted, Hopeful
          <6>2. CASE q # r
            BY <1>3, <5>1, <6>2 DEF PassedIn, Admitted
          <6> QED BY <6>1, <6>2
        <5>3. \A v \in Workers : Hopeful(v)' => v # w /\ Hopeful(v) /\ Ip(v)' = Ip(v)
          BY <1>4, <5>1 DEF Hopeful, Ip
        <5> QED BY <1>4, <5>2, <5>3 DEF Admitted
      <4> QED BY <4>1, <4>2
    <3>3. \A ip \in IPs, k \in Keys : Quiet(ip, k)
      BY <1>0, <1>3, <3>1, <3>2 DEF Quiet, EntriesOf, limiterVars
    <3> QED BY <3>1, <3>3, QuietStep DEF LimitInv, PastOK, limiterVars
  <2> QED BY <2>1, <2>2, <2>3
<1>7. \A q \in DOMAIN answered : checkedAt'[q] = checkedAt[q] /\ q # r
  <2>1. r \notin DOMAIN answered
    BY <1>0, <1>1 DEF OwnRequest
  <2>2. DOMAIN answered \subseteq Requests
    BY <1>0 DEF TypeInv, SharedOK, HistoryOK, WorkersOK
  <2> QED BY <1>6, <2>1, <2>2 DEF LimitInv, PastOK
<1>8. /\ DOMAIN answered' \subseteq DOMAIN answered \cup {r}
      /\ \A q \in DOMAIN answered : q \in DOMAIN answered' /\ answered'[q] = answered[q]
      /\ r \in DOMAIN answered' => answered'[r].life = restarts
  <2>1. CASE Answer(w)
    BY <1>1, <1>7, <2>1 DEF Answer
  <2>2. CASE ~Answer(w)
    BY <1>0, <1>7, <2>2, JobStep
  <2> QED BY <2>1, <2>2
<1>9. PastOK'
  <2>1. /\ DOMAIN checkedAt' = Requests
        /\ \A q \in Requests : checkedAt'[q] \in [DOMAIN checkedAt'[q] -> Nat]
        /\ \A q \in Requests \ arrived' : DOMAIN checkedAt'[q] = {}
    <3>1. CASE checkedAt' = checkedAt
      BY <1>3, <3>1 DEF LimitInv, PastOK
    <3>2. ASSUME NEW k \in Keys, checkedAt' = [checkedAt EXCEPT ![r] = Limiter!Put(@, k, wall)]
          PROVE  /\ DOMAIN checkedAt' = Requests
                 /\ \A q \in Requests : checkedAt'[q] \in [DOMAIN checkedAt'[q] -> Nat]
                 /\ \A q \in Requests \ arrived' : DOMAIN checkedAt'[q] = {}
      <4>1. Limiter!Put(checkedAt[r], k, wall)
              \in [DOMAIN Limiter!Put(checkedAt[r], k, wall) -> Nat]
        BY <1>0 DEF Limiter!Put, LimitInv, PastOK
      <4> QED BY <1>1, <1>3, <3>2, <4>1 DEF LimitInv, PastOK
    <3> QED BY <1>6, <3>1, <3>2
  <2>2. \A q \in DOMAIN answered' : answered'[q].life \in 0..restarts'
    BY <1>0, <1>3, <1>8 DEF LimitInv, PastOK
  <2> QED BY <1>3, <1>6, <2>1, <2>2 DEF LimitInv, PastOK
<1>10. \A life \in 0..restarts' : life # restarts' =>
          /\ life \in 0..restarts
          /\ \A ip \in IPs : PassedIn(life, ip)' = PassedIn(life, ip)
  BY <1>3, <1>7, <1>8 DEF PassedIn
<1>11. PastBounded'
  BY <1>6, <1>7, <1>9, <1>10, PastStep
<1> QED BY <1>5, <1>6, <1>9, <1>11 DEF LimitInv

\* A request that arrives has been checked against nothing yet.
LEMMA LimitsBegin ==
    ASSUME LimitInv, TypeInv', Apart',
           NEW w \in Workers, NEW r \in Requests, NEW p \in Profiles, Begin(w, r, p)
    PROVE  LimitInv'
<1>0. TypeInv /\ wall \in Nat
  BY DEF LimitInv, TypeInv, SharedOK, DB!TypeOK
<1>1. /\ UNCHANGED <<wall, restarts, limiterVars, checkedAt, answered>>
      /\ r \notin arrived /\ arrived' = arrived \cup {r}
  BY DEF Begin, processVars, historyVars
<1>2. /\ \A v \in Workers \ {w} : /\ pc'[v] = pc[v]
                                  /\ outcome'[v] = outcome[v]
                                  /\ job'[v] = job[v]
      /\ job'[w].request = r
  BY <1>0, BeginStep
<1>3. PastOK'
  BY <1>1, FS_AddElement DEF LimitInv, PastOK, limiterVars
<1>4. \A v \in Workers : Refusing(v)'
  <2>1. Refusing(w)'
    <3>1. CASE Reject(w, "AllowlistDenied", 0)
      BY <1>0, <3>1 DEF Reject, Decide, Refusing, TypeInv, WorkersOK
    <3>2. CASE GoTo(w, "endpoints")
      BY <1>0, <3>2 DEF GoTo, Refusing, Deciding, TypeInv, WorkersOK
    <3> QED BY <3>1, <3>2 DEF Begin
  <2> QED BY <1>2, <2>1 DEF LimitInv, Refusing
<1>5. \A ip : Admitted(ip)' \subseteq Admitted(ip) \cup {r}
  <2>1. \A ip : PassedIn(restarts, ip)' = PassedIn(restarts, ip)
    BY <1>1 DEF PassedIn
  <2>2. \A v \in Workers \ {w} : Ip(v)' = Ip(v) /\ (Hopeful(v)' <=> Hopeful(v))
    BY <1>2 DEF Ip, Hopeful
  <2> QED BY <1>2, <2>1, <2>2 DEF Admitted
<1>6. DOMAIN checkedAt'[r] = {}
  BY <1>1 DEF LimitInv, PastOK
<1>7. \A ip \in IPs, k \in Keys : Quiet(ip, k)
  BY <1>0, <1>1, <1>5, <1>6 DEF Quiet, EntriesOf, limiterVars
<1>8. \A ip \in IPs, k \in Keys : Remembered(ip, k)' /\ Bounded(ip, k)'
  BY <1>7, QuietStep
<1>9. PastBounded'
  BY <1>1, <1>3, <1>8, PastStep DEF PassedIn
<1> QED BY <1>3, <1>4, <1>8, <1>9 DEF LimitInv

\* The operators, the clock and steps of others admit nobody; a restart forgets
\* the windows together with what they let in.
LEMMA LimitsElsewhere ==
    ASSUME LimitInv, TypeInv', Apart', Admin \/ Tick \/ Restart \/ UNCHANGED vars
    PROVE  LimitInv'
<1>0. wall \in Nat /\ restarts \in Nat
  BY DEF LimitInv, TypeInv, SharedOK, ProcessOK, DB!TypeOK
<1>1. CASE Admin \/ Tick \/ UNCHANGED vars
  <2>1. /\ UNCHANGED <<pc, job, outcome, arrived, restarts, limiterVars, checkedAt, answered>>
        /\ wall' \in Nat /\ wall <= wall'
    <3>1. CASE Admin
      <4>1. wall' = wall
        BY <3>1 DEF Admin, DB!AddToBlocklist, DB!RemoveFromBlocklist, DB!AddToWhitelist,
                    DB!WriteFails
      <4> QED BY <1>0, <3>1, <4>1 DEF Admin, workerVars, processVars, historyVars
    <3>2. CASE Tick
      BY <1>0, <3>2 DEF Tick, workerVars, processVars, historyVars
    <3>3. CASE UNCHANGED vars
      BY <1>0, <3>3 DEF vars, workerVars, processVars, historyVars
    <3> QED BY <1>1, <3>1, <3>2, <3>3
  <2>2. PastOK' /\ \A v \in Workers : Refusing(v)'
    BY <2>1 DEF LimitInv, PastOK, Refusing, limiterVars
  <2>3. \A ip : Admitted(ip)' = Admitted(ip)
    BY <2>1 DEF Admitted, PassedIn, Hopeful, Ip
  <2>4. \A ip \in IPs, k \in Keys : Quiet(ip, k)
    BY <2>1, <2>3 DEF Quiet, EntriesOf, limiterVars
  <2>5. \A ip \in IPs, k \in Keys : Remembered(ip, k)' /\ Bounded(ip, k)'
    BY <2>4, QuietStep
  <2>6. PastBounded'
    BY <2>1, <2>2, <2>5, PastStep DEF PassedIn
  <2> QED BY <2>2, <2>5, <2>6 DEF LimitInv
<1>2. CASE Restart
  <2>1. /\ UNCHANGED <<arrived, wall, checkedAt, answered>>
        /\ restarts' = restarts + 1
        /\ DOMAIN blocked_ips' = {}
        /\ \A w \in Workers : pc'[w] = "idle"
    BY <1>2 DEF Restart, historyVars, Limiter!EmptyMap
  <2>2. PastOK' /\ \A v \in Workers : Refusing(v)'
    BY <1>0, <2>1 DEF LimitInv, PastOK, Refusing, Deciding
  <2>3. \A ip : Admitted(ip)' = {}
    <3>1. \A ip : PassedIn(restarts, ip)' = {}
      BY <1>0, <2>1 DEF PassedIn, LimitInv, PastOK
    <3>2. \A w \in Workers : ~Hopeful(w)'
      BY <2>1 DEF Hopeful
    <3> QED BY <3>1, <3>2 DEF Admitted
  <2>4. \A ip \in IPs, k \in Keys : Remembered(ip, k)' /\ Bounded(ip, k)'
    <3> SUFFICES ASSUME NEW ip \in IPs, NEW k \in Keys
                 PROVE  Remembered(ip, k)' /\ Bounded(ip, k)'
      OBVIOUS
    <3>1. \A t \in Nat : Within(Admitted(ip), k, t)' = {}
      BY <2>3 DEF Within
    <3>2. Bounded(ip, k)'
      <4>1. \A t \in Nat : Cardinality(Within(Admitted(ip), k, t)') <= Allowance(k)
        BY <3>1, FS_EmptySet, AllowanceType
      <4> QED BY <4>1 DEF Bounded, Allowance
    <3>3. Remembered(ip, k)'
      BY <2>3 DEF Remembered
    <3> QED BY <3>2, <3>3
  <2>5. PastBounded'
    <3>1. \A life \in 0..restarts' : life # restarts' =>
             /\ life \in 0..restarts
             /\ \A ip \in IPs : PassedIn(life, ip)' = PassedIn(life, ip)
      BY <1>0, <2>1 DEF PassedIn
    <3> QED BY <2>1, <2>2, <2>4, <3>1, PastStep
  <2> QED BY <2>2, <2>4, <2>5 DEF LimitInv
<1> QED BY <1>1, <1>2

\* The memory of the windows and the bounds they keep, in every reachable state.
LEMMA LimitsInvariant == Spec => []LimitInv
<1>1. Init /\ TypeInv /\ Apart => LimitInv
  <2> SUFFICES ASSUME Init, TypeInv, Apart PROVE LimitInv
    OBVIOUS
  <2>1. PastOK /\ \A w \in Workers : Refusing(w)
    BY FS_EmptySet DEF Init, Limiter!Init, Limiter!EmptyMap, PastOK, Refusing, Deciding
  <2>2. \A ip : Admitted(ip) = {} /\ \A life : PassedIn(life, ip) = {}
    BY DEF Init, Admitted, PassedIn, Hopeful
  <2>3. \A k \in Keys, t \in Nat : Within({}, k, t) = {}
    BY DEF Within
  <2> QED BY <2>1, <2>2, <2>3, FS_EmptySet, AllowanceType
          DEF LimitInv, Remembered, Bounded, PastBounded
<1>2. LimitInv /\ TypeInv' /\ Apart' /\ [Next]_vars => LimitInv'
  BY LimitsStep, LimitsBegin, LimitsElsewhere DEF Next
<1> QED BY <1>1, <1>2, ApartInvariant, PTL DEF Spec

\* In no window of time are more than requests_per_window + burst_allowance of
\* one client's requests forwarded between two restarts, for any number of
\* workers, any limit and any window.
THEOREM GeneralLimitHolds == Spec => []PassesWithinLimit
<1>1. LimitInv => PassesWithinLimit
  <2> SUFFICES ASSUME LimitInv, NEW life \in 0..restarts, NEW ip \in IPs, NEW t \in 0..MaxTime
               PROVE  Cardinality(Within(PassedIn(life, ip), General, t)) <= MaxPerWindow + Burst
    BY DEF PassesWithinLimit
  <2>1. General \in Keys /\ t \in Nat /\ Allowance(General) = MaxPerWindow + Burst
    BY NumberAssumption DEF Keys, Allowance
  <2> QED BY <2>1 DEF LimitInv, PastBounded
<1> QED BY <1>1, LimitsInvariant, PTL

\* The same for each endpoint with a limit of its own.
THEOREM EndpointLimitsHold == Spec => []EndpointPassesWithinLimit
<1>1. LimitInv => EndpointPassesWithinLimit
  <2> SUFFICES ASSUME LimitInv, NEW life \in 0..restarts, NEW ip \in IPs,
                      NEW ep \in Endpoints, NEW t \in 0..MaxTime
               PROVE  Cardinality(Within(PassedIn(life, ip), ep, t)) <= EndpointLimit[ep] + Burst
    BY DEF EndpointPassesWithinLimit
  <2>1. /\ ep \in Keys /\ t \in Nat
        /\ Allowance(ep) = EndpointLimit[ep] + Burst
    BY NumberAssumption, EndpointAssumption DEF Keys, Allowance
  <2> QED BY <2>1 DEF LimitInv, PastBounded
<1> QED BY <1>1, LimitsInvariant, PTL
==============================================================================
