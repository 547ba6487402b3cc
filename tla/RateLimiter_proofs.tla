-------------------------- MODULE RateLimiter_proofs --------------------------
(* Proofs about the rate limiter, for any set of clients, any limit, burst,    *)
(* window and any clock corrections.                                           *)
EXTENDS RateLimiterHistory, FiniteSetTheorems, TLAPS

(*************************** maps and windows **********************************)

\* Inserting a key keeps a map a map.
LEMMA PutMap ==
    ASSUME NEW K, NEW V, NEW map, IsMap(map, K, V), NEW k \in K, NEW v \in V
    PROVE  IsMap(Put(map, k, v), K, V)
BY DEF IsMap, Put

\* Dropping keys keeps a map a map.
LEMMA KeepMap ==
    ASSUME NEW K, NEW V, NEW map, IsMap(map, K, V), NEW D
    PROVE  IsMap(Keep(map, D), K, V)
BY DEF IsMap, Keep

\* record() keeps a window a set of entries, and finite.
LEMMA RecordedWindow ==
    ASSUME NEW w \in SUBSET Entry, NEW t \in Nat, NEW c \in Calls
    PROVE  /\ Recorded(w, t, c) \in SUBSET Entry
           /\ Retained(w, t) \in SUBSET w
           /\ IsFiniteSet(w) => IsFiniteSet(Recorded(w, t, c))
<1>1. Retained(w, t) \in SUBSET w
  BY DEF Retained
<1>2. Recorded(w, t, c) \in SUBSET Entry
  BY <1>1 DEF Recorded, Entry
<1>3. ASSUME IsFiniteSet(w) PROVE IsFiniteSet(Recorded(w, t, c))
  BY <1>1, <1>3, FS_Subset, FS_AddElement DEF Recorded
<1> QED BY <1>1, <1>2, <1>3

(*************************** type correctness **********************************)

\* The window of a key, absent ones included, is a finite set of entries.
LEMMA WindowType ==
    ASSUME TypeOK, WindowsFinite
    PROVE  /\ \A ip \in IPs : /\ WindowAt(windows, ip) \in SUBSET Entry
                              /\ IsFiniteSet(WindowAt(windows, ip))
           /\ \A k \in IPs \X Endpoints :
                 /\ WindowAt(endpoint_windows, k) \in SUBSET Entry
                 /\ IsFiniteSet(WindowAt(endpoint_windows, k))
BY FS_EmptySet DEF TypeOK, WindowsFinite, WindowAt, IsMap

\* The answer built from a count is a verdict.
LEMMA CountedType ==
    ASSUME NEW n \in Nat
    PROVE  Counted(n) \in Verdicts
BY LimitAssumption DEF Counted, Verdicts, Limit

\* Each operation of the limiter keeps its fields of their types and its
\* windows finite.
LEMMA CheckType ==
    ASSUME TypeOK, WindowsFinite, NEW ip \in IPs, NEW c \in Calls, Check(ip, c)
    PROVE  TypeOK' /\ WindowsFinite'
<1> DEFINE w == Recorded(WindowAt(windows, ip), wall, c)
<1>1. /\ w \in SUBSET Entry
      /\ IsFiniteSet(w)
  BY WindowType, RecordedWindow DEF TypeOK
<1>2. CASE CheckRefused(ip)
  <2>1. verdict' \in Verdicts
    BY <1>2 DEF CheckRefused, Refused, Verdicts
  <2> QED BY <2>1, <1>2 DEF TypeOK, WindowsFinite, CheckRefused, Check
<1>3. CASE CheckRecorded(ip, c)
  <2>1. /\ windows' = Put(windows, ip, w)
        /\ verdict' = Counted(Cardinality(w))
        /\ blocked_ips' = Keep(blocked_ips, DOMAIN blocked_ips \ {ip})
        /\ UNCHANGED <<wall, endpoint_windows>>
    BY <1>3 DEF CheckRecorded, Check
  <2>2. IsMap(windows', IPs, SUBSET Entry)
    BY <1>1, <2>1, PutMap DEF TypeOK
  <2>3. IsMap(blocked_ips', IPs, Expiry)
    BY <2>1, KeepMap DEF TypeOK
  <2>4. verdict' \in Verdicts
    BY <1>1, <2>1, FS_CardinalityType, CountedType
  <2>5. TypeOK'
    BY <2>1, <2>2, <2>3, <2>4 DEF TypeOK
  <2>6. WindowsFinite'
    BY <1>1, <2>1 DEF WindowsFinite, Put
  <2> QED BY <2>5, <2>6
<1> QED BY <1>2, <1>3 DEF Check

\* The same for check_endpoint.
LEMMA CheckEndpointType ==
    ASSUME TypeOK, WindowsFinite,
           NEW ip \in IPs, NEW ep \in Endpoints, NEW c \in Calls,
           CheckEndpoint(ip, ep, c)
    PROVE  TypeOK' /\ WindowsFinite'
<1> DEFINE k == <<ip, ep>>
           w == Recorded(WindowAt(endpoint_windows, k), wall, c)
<1>1. /\ w \in SUBSET Entry
      /\ IsFiniteSet(w)
      /\ k \in IPs \X Endpoints
  BY WindowType, RecordedWindow DEF TypeOK
<1>2. CASE EndpointRefused(ip)
  <2>1. verdict' \in Verdicts
    BY <1>2 DEF EndpointRefused, Refused, Verdicts
  <2> QED BY <2>1, <1>2 DEF TypeOK, WindowsFinite, EndpointRefused, CheckEndpoint
<1>3. CASE EndpointRecorded(ip, ep, c)
  <2>1. /\ endpoint_windows' = Put(endpoint_windows, k, w)
        /\ verdict' = Counted(Cardinality(w))
        /\ UNCHANGED <<wall, windows, blocked_ips>>
    BY <1>3 DEF EndpointRecorded, CheckEndpoint
  <2>2. IsMap(endpoint_windows', IPs \X Endpoints, SUBSET Entry)
    <3> HIDE DEF k, w
    <3> QED BY <1>1, <2>1, PutMap DEF TypeOK
  <2>3. verdict' \in Verdicts
    BY <1>1, <2>1, FS_CardinalityType, CountedType
  <2>4. TypeOK'
    BY <2>1, <2>2, <2>3 DEF TypeOK
  <2>5. WindowsFinite'
    <3> HIDE DEF k, w
    <3> QED BY <1>1, <2>1 DEF WindowsFinite, Put
  <2> QED BY <2>4, <2>5
<1> QED BY <1>2, <1>3 DEF CheckEndpoint

\* The same for both ways to block.
LEMMA BlockType ==
    ASSUME TypeOK, WindowsFinite, NEW ip \in IPs, NEW expiry \in Expiry,
           Block(ip, expiry)
    PROVE  TypeOK' /\ WindowsFinite'
<1>1. IsMap(blocked_ips', IPs, Expiry)
  BY PutMap DEF Block, TypeOK
<1>2. IsMap(windows', IPs, SUBSET Entry)
  BY DEF Block, TypeOK, IsMap
<1>3. WindowsFinite'
  BY FS_EmptySet DEF Block, WindowsFinite
<1> QED BY <1>1, <1>2, <1>3 DEF Block, TypeOK

\* The same for unblock_ip.
LEMMA UnblockType ==
    ASSUME TypeOK, WindowsFinite, NEW ip \in IPs, UnblockIp(ip)
    PROVE  TypeOK' /\ WindowsFinite'
BY KeepMap DEF UnblockIp, TypeOK, WindowsFinite

\* The same for cleanup.
LEMMA CleanupType ==
    ASSUME TypeOK, WindowsFinite, Cleanup
    PROVE  TypeOK' /\ WindowsFinite'
<1>1. TypeOK'
  BY KeepMap DEF Cleanup, TypeOK
<1>2. WindowsFinite'
  BY DEF Cleanup, WindowsFinite, Keep
<1> QED BY <1>1, <1>2

\* The same for the clock, whichever way it moves.
LEMMA ClockType ==
    ASSUME TypeOK, WindowsFinite, Tick \/ StepBack
    PROVE  TypeOK' /\ WindowsFinite'
<1>1. wall' \in Nat
  BY ClockAssumption DEF Tick, StepBack, TypeOK
<1> QED BY <1>1 DEF Tick, StepBack, TypeOK, WindowsFinite

\* The fields of the limiter have their types and its windows are finite.
LEMMA LimiterInvariant == Spec => [](TypeOK /\ WindowsFinite)
<1> DEFINE Inv == TypeOK /\ WindowsFinite
<1>1. Init => Inv
  BY CountedType, FS_EmptySet
     DEF Init, TypeOK, WindowsFinite, IsMap, EmptyMap
<1>2. Inv /\ [Next]_vars => Inv'
  <2> SUFFICES ASSUME TypeOK, WindowsFinite, [Next]_vars
               PROVE  TypeOK' /\ WindowsFinite'
    OBVIOUS
  <2>1. ASSUME NEW ip \in IPs, NEW c \in Calls, Check(ip, c)
        PROVE  TypeOK' /\ WindowsFinite'
    BY <2>1, CheckType
  <2>2. ASSUME NEW ip \in IPs, NEW ep \in Endpoints, NEW c \in Calls,
               CheckEndpoint(ip, ep, c)
        PROVE  TypeOK' /\ WindowsFinite'
    BY <2>2, CheckEndpointType
  <2>3. ASSUME NEW ip \in IPs, NEW d \in Durations, BlockIpWithExpiry(ip, d)
        PROVE  TypeOK' /\ WindowsFinite'
    <3>1. wall + d \in Expiry
      BY DurationAssumption DEF TypeOK, Expiry
    <3> QED BY <2>3, <3>1, BlockType DEF BlockIpWithExpiry
  <2>4. ASSUME NEW ip \in IPs, BlockIp(ip)
        PROVE  TypeOK' /\ WindowsFinite'
    <3>1. Never \in Expiry
      BY DEF Expiry
    <3> QED BY <2>4, <3>1, BlockType DEF BlockIp
  <2>5. ASSUME NEW ip \in IPs, UnblockIp(ip)
        PROVE  TypeOK' /\ WindowsFinite'
    BY <2>5, UnblockType
  <2>6. CASE Cleanup
    BY <2>6, CleanupType
  <2>7. CASE Tick \/ StepBack
    BY <2>7, ClockType
  <2>8. CASE UNCHANGED vars
    BY <2>8 DEF vars, TypeOK, WindowsFinite
  <2> QED BY <2>1, <2>2, <2>3, <2>4, <2>5, <2>6, <2>7, <2>8 DEF Next
<1> QED BY <1>1, <1>2, PTL DEF Spec

\* The fields of the limiter always have their types: the Spec of RateLimiter
\* keeps TypeOK, whatever the order of checks, blocks, cleanups and clock steps.
THEOREM LimiterTypes == Spec => []TypeOK
BY LimiterInvariant, PTL

(************************ the admission bound **********************************)

\* What record() keeps of a window: an entry that it drops was made more than
\* one window of real time ago.
LEMMA DroppedIsOld ==
    ASSUME HInv, NEW ip \in IPs, NEW e \in admitted[ip],
           now <= timeOf[e.call] + WindowMs
    PROVE  /\ e \in WindowAt(windows, ip)
           /\ Age(wall, e.at) <= WindowMs
<1>1. /\ e \in Entry /\ e.at \in Nat /\ e.call \in Calls
      /\ timeOf[e.call] \in Nat /\ now \in Nat /\ wall \in Nat
  BY DEF HInv, HTypeOK, TypeOK, Entry
<1>2. wall + timeOf[e.call] <= now + e.at
  BY DEF HInv, ClockNeverAhead
<1>3. Age(wall, e.at) <= WindowMs
  BY <1>1, <1>2, ClockAssumption DEF Age
<1> QED BY <1>3 DEF HInv, AdmittedStillCounted

\* The type part of the invariant, for all steps of HNext.
LEMMA HistoryTypes ==
    ASSUME HTypeOK, WindowsFinite, [HNext]_hvars
    PROVE  HTypeOK' /\ WindowsFinite'
<1>a. TypeOK
  BY DEF HTypeOK
<1>b. \A c \in Calls : Stamped(c) \in Entry
  BY <1>a DEF Stamped, Entry, TypeOK
<1>1. ASSUME NEW ip \in IPs, NEW c \in Calls, HCheck(ip, c)
      PROVE  HTypeOK' /\ WindowsFinite'
  <2>1. TypeOK' /\ WindowsFinite'
    BY <1>1, <1>a, CheckType DEF HCheck
  <2>2. seen' \in [IPs -> SUBSET Entry]
    BY <1>1, <1>b DEF HCheck, HTypeOK
  <2>3. admitted' \in [IPs -> SUBSET Entry]
    BY <1>1, <1>b DEF HCheck, HTypeOK
  <2> QED BY <1>1, <2>1, <2>2, <2>3 DEF HCheck, Make, HTypeOK
<1>2. ASSUME NEW ip \in IPs, NEW ep \in Endpoints, NEW c \in Calls,
             HCheckEndpoint(ip, ep, c)
      PROVE  HTypeOK' /\ WindowsFinite'
  <2>1. TypeOK' /\ WindowsFinite'
    BY <1>2, <1>a, CheckEndpointType DEF HCheckEndpoint
  <2>2. epSeen' \in [IPs \X Endpoints -> SUBSET Entry]
    BY <1>2, <1>b DEF HCheckEndpoint, HTypeOK
  <2> QED BY <1>2, <2>1, <2>2 DEF HCheckEndpoint, Make, HTypeOK
<1>3. ASSUME NEW ip \in IPs, NEW expiry \in Expiry,
             expiry = Never \/ wall <= expiry, HBlock(ip, expiry)
      PROVE  HTypeOK' /\ WindowsFinite'
  <2>1. TypeOK' /\ WindowsFinite'
    BY <1>3, <1>a, BlockType DEF HBlock
  <2>2. due' \in [IPs -> Expiry]
    <3>1. expiry # Never => now + (expiry - wall) \in Expiry
      BY <1>3, <1>a DEF Expiry, HTypeOK, TypeOK
    <3> QED BY <3>1, <1>3 DEF HBlock, HTypeOK, Expiry
  <2> QED BY <1>3, <2>1, <2>2 DEF HBlock, HTypeOK
<1>4. ASSUME NEW ip \in IPs, NEW d \in Durations, HBlock(ip, wall + d)
      PROVE  HTypeOK' /\ WindowsFinite'
  BY <1>3, <1>4, <1>a, DurationAssumption DEF TypeOK, Expiry
<1>5. ASSUME NEW ip \in IPs, HBlock(ip, Never)
      PROVE  HTypeOK' /\ WindowsFinite'
  BY <1>3, <1>5 DEF Expiry
<1>6. ASSUME NEW ip \in IPs, HUnblockIp(ip)
      PROVE  HTypeOK' /\ WindowsFinite'
  <2>1. TypeOK' /\ WindowsFinite'
    BY <1>6, <1>a, UnblockType DEF HUnblockIp
  <2>2. due' \in [IPs -> Expiry]
    BY <1>6 DEF HUnblockIp, HTypeOK, Expiry
  <2> QED BY <1>6, <2>1, <2>2 DEF HUnblockIp, HTypeOK
<1>7. CASE HCleanup
  BY <1>7, <1>a, CleanupType DEF HCleanup, history, HTypeOK
<1>8. CASE HTick
  BY <1>8, <1>a, ClockType DEF HTick, HTypeOK
<1>9. CASE HStepBack
  BY <1>9, <1>a, ClockType DEF HStepBack, history, HTypeOK
<1>10. CASE UNCHANGED hvars
  BY <1>10 DEF hvars, vars, history, HTypeOK, TypeOK, WindowsFinite
<1> QED BY <1>1, <1>2, <1>4, <1>5, <1>6, <1>7, <1>8, <1>9, <1>10 DEF HNext

\* A step that makes a call gives it the time now and leaves those of the
\* remembered calls alone.
LEMMA MakeTimes ==
    ASSUME HInv, NEW c \in Calls, Make(c), NEW ip \in IPs, NEW e \in admitted[ip]
    PROVE  /\ e.call # c
           /\ e.call \in calls'
           /\ timeOf'[e.call] = timeOf[e.call]
<1>1. e.call \in calls /\ e.call \in Calls
  BY DEF HInv, HTypeOK, CallsWereMade, Entry
<1> QED BY <1>1 DEF Make, HInv, HTypeOK

\* A general check: the one step that admits requests.
LEMMA CheckInv ==
    ASSUME HInv, NEW ip \in IPs, NEW c \in Calls, HCheck(ip, c)
    PROVE  /\ CallsWereMade'
           /\ ClockNeverAhead'
           /\ AdmittedStillCounted'
           /\ SlidingWindowBound'
<1> DEFINE w == Recorded(WindowAt(windows, ip), wall, c)
           s == Stamped(c)
<1>1. /\ HTypeOK' /\ WindowsFinite'
      /\ TypeOK /\ WindowsFinite
  BY HistoryTypes DEF HInv, HTypeOK, HNext
<1>2. /\ c \in calls' /\ timeOf'[c] = now /\ now' = now /\ wall' = wall
      /\ s = [at |-> wall, call |-> c] /\ s.at = wall /\ s.call = c
      /\ now \in Nat /\ wall \in Nat
  BY DEF HCheck, Make, Check, Stamped, HInv, HTypeOK, TypeOK
<1>3. /\ admitted' \in [IPs -> SUBSET Entry]
      /\ \A q \in IPs : admitted'[q] = admitted[q]
                        \/ (q = ip /\ verdict'.allowed /\ admitted'[q] = admitted[q] \cup {s})
  BY <1>1 DEF HCheck, HInv, HTypeOK
<1>4. \A q \in IPs : \A e \in admitted[q] :
          /\ e.call # c
          /\ e.call \in calls'
          /\ timeOf'[e.call] = timeOf[e.call]
  BY MakeTimes DEF HCheck
<1>5. CallsWereMade'
  BY <1>2, <1>3, <1>4 DEF CallsWereMade
<1>6. ClockNeverAhead'
  BY <1>2, <1>3, <1>4 DEF ClockNeverAhead, HInv
<1>7. \A q \in IPs \ {ip} : WindowAt(windows', q) = WindowAt(windows, q)
  BY DEF HCheck, Check, CheckRefused, CheckRecorded, Put, WindowAt
<1>8. verdict'.allowed => windows' = Put(windows, ip, w) /\ Cardinality(w) <= Limit
  <2>1. CheckRefused(ip) \/ CheckRecorded(ip, c)
    BY DEF HCheck, Check
  <2>2. CASE CheckRefused(ip)
    BY <2>2 DEF CheckRefused, Refused
  <2>3. CASE CheckRecorded(ip, c)
    <3>1. windows' = Put(windows, ip, w) /\ verdict' = Counted(Cardinality(w))
      BY <2>3 DEF CheckRecorded
    <3> QED BY <3>1 DEF Counted
  <2> QED BY <2>1, <2>2, <2>3
<1>9. \/ WindowAt(windows', ip) = w
      \/ ~verdict'.allowed /\ windows' = windows
  BY DEF HCheck, Check, CheckRefused, CheckRecorded, Put, WindowAt, Refused
<1>10. s \in w
  BY <1>2 DEF Recorded
<1>11. \A e \in admitted[ip] : now <= timeOf[e.call] + WindowMs => e \in w
  BY DroppedIsOld DEF Recorded, Retained
<1>12. AdmittedStillCounted'
  <2> SUFFICES ASSUME NEW q \in IPs, NEW e \in admitted'[q],
                      now <= timeOf'[e.call] + WindowMs
               PROVE  e \in WindowAt(windows', q)
    BY <1>2 DEF AdmittedStillCounted
  <2>1. CASE e \in admitted[q]
    <3>1. timeOf'[e.call] = timeOf[e.call]
      BY <1>4, <2>1
    <3>2. e \in WindowAt(windows, q)
      BY <2>1, <3>1 DEF HInv, AdmittedStillCounted
    <3> QED BY <2>1, <3>1, <3>2, <1>7, <1>9, <1>11
  <2>2. CASE e \notin admitted[q]
    <3>1. q = ip /\ e = s /\ verdict'.allowed
      BY <1>3, <2>2
    <3> QED BY <3>1, <1>9, <1>10
  <2> QED BY <2>1, <2>2
<1>13. SlidingWindowBound'
  <2> SUFFICES ASSUME NEW q \in IPs, NEW t \in 0..MaxTime
               PROVE  Cardinality(AdmittedWithin(q, t)') <= Limit
    BY DEF SlidingWindowBound
  <2>1. Cardinality(AdmittedWithin(q, t)) <= Limit
    BY DEF HInv, SlidingWindowBound
  <2>2. CASE AdmittedWithin(q, t)' = AdmittedWithin(q, t)
    BY <2>1, <2>2
  <2>3. CASE AdmittedWithin(q, t)' # AdmittedWithin(q, t)
    <3>1. s \in AdmittedWithin(q, t)' /\ q = ip /\ verdict'.allowed
          /\ admitted'[q] = admitted[q] \cup {s}
      BY <1>3, <1>4, <2>3 DEF AdmittedWithin
    <3>2. now <= t
      BY <3>1, <1>2 DEF AdmittedWithin
    <3>3. \A e \in admitted[ip] : timeOf[e.call] \in Nat
      BY DEF HInv, HTypeOK, Entry
    <3>4. AdmittedWithin(q, t)' \subseteq w
      BY <1>2, <1>4, <1>10, <1>11, <3>1, <3>2, <3>3, ClockAssumption DEF AdmittedWithin
    <3>5. IsFiniteSet(w) /\ Cardinality(w) \in Nat
      BY <1>1, WindowType, RecordedWindow, FS_CardinalityType DEF TypeOK
    <3>6. Cardinality(AdmittedWithin(q, t)') \in Nat
          /\ Cardinality(AdmittedWithin(q, t)') <= Cardinality(w)
      BY <3>4, <3>5, FS_Subset, FS_CardinalityType
    <3> QED BY <1>8, <3>1, <3>5, <3>6, LimitAssumption DEF Limit
  <2> QED BY <2>2, <2>3
<1> QED BY <1>5, <1>6, <1>12, <1>13

\* The steps that neither admit nor make a call, and leave the time alone or
\* let it pass: what they do to the windows only drops what is old.
LEMMA QuietInv ==
    ASSUME HInv, HCleanup \/ HTick \/ HStepBack \/ \E ip \in IPs : HUnblockIp(ip)
    PROVE  /\ CallsWereMade'
           /\ ClockNeverAhead'
           /\ AdmittedStillCounted'
           /\ SlidingWindowBound'
<1>1. /\ UNCHANGED <<timeOf, calls, admitted>>
      /\ now \in Nat /\ wall \in Nat
  BY DEF HCleanup, HTick, HStepBack, HUnblockIp, history, HInv, HTypeOK, TypeOK
<1>2. CallsWereMade' /\ SlidingWindowBound'
  BY <1>1 DEF HInv, CallsWereMade, SlidingWindowBound, AdmittedWithin
<1>3. \/ now' = now + 1 /\ wall' = wall + 1
      \/ now' = now /\ wall' \in Nat /\ wall' <= wall
  <2>1. CASE HCleanup
    BY <1>1, <2>1 DEF HCleanup, Cleanup, history
  <2>2. CASE HTick
    BY <2>2 DEF HTick, Tick
  <2>3. CASE HStepBack
    BY <1>1, <2>3, ClockAssumption DEF HStepBack, StepBack, history
  <2>4. CASE \E ip \in IPs : HUnblockIp(ip)
    BY <1>1, <2>4 DEF HUnblockIp, UnblockIp, history
  <2> QED BY <2>1, <2>2, <2>3, <2>4
<1>4. ClockNeverAhead'
  <2> SUFFICES ASSUME NEW ip \in IPs, NEW e \in admitted[ip]
               PROVE  timeOf[e.call] <= now' /\ wall' + timeOf[e.call] <= now' + e.at
    BY <1>1 DEF ClockNeverAhead
  <2>1. e.at \in Nat /\ timeOf[e.call] \in Nat
    BY DEF HInv, HTypeOK, Entry
  <2> QED BY <1>1, <1>3, <2>1 DEF HInv, ClockNeverAhead
<1>5. AdmittedStillCounted'
  <2> SUFFICES ASSUME NEW ip \in IPs, NEW e \in admitted[ip],
                      now' <= timeOf[e.call] + WindowMs
               PROVE  e \in WindowAt(windows', ip)
    BY <1>1 DEF AdmittedStillCounted
  <2>1. now <= timeOf[e.call] + WindowMs
    <3>1. timeOf[e.call] \in Nat
      BY DEF HInv, HTypeOK, Entry
    <3> QED BY <1>1, <1>3, <3>1, ClockAssumption
  <2>2. e \in WindowAt(windows, ip) /\ Age(wall, e.at) <= WindowMs
    BY <2>1, DroppedIsOld
  <2>3. CASE HCleanup
    <3>1. ~WindowExpired(windows[ip], wall) /\ ip \in DOMAIN windows
      <4>1. Age(wall, e.at) \in Nat
        BY <1>1 DEF Age, HInv, HTypeOK, Entry
      <4> QED BY <2>2, <4>1, ClockAssumption DEF WindowExpired, WindowAt
    <3> QED BY <2>2, <2>3, <3>1 DEF HCleanup, Cleanup, Keep, WindowAt
  <2>4. CASE ~HCleanup
    BY <2>2, <2>4 DEF HTick, HStepBack, HUnblockIp, Tick, StepBack, UnblockIp
  <2> QED BY <2>3, <2>4
<1> QED BY <1>2, <1>4, <1>5

\* check_endpoint keeps the invariant: it touches no general window.
LEMMA EndpointInv ==
    ASSUME HInv, NEW ip \in IPs, NEW ep \in Endpoints, NEW c \in Calls,
           HCheckEndpoint(ip, ep, c)
    PROVE  /\ CallsWereMade'
           /\ ClockNeverAhead'
           /\ AdmittedStillCounted'
           /\ SlidingWindowBound'
<1>1. UNCHANGED <<now, wall, admitted, windows>>
  BY DEF HCheckEndpoint, CheckEndpoint
<1>2. \A q \in IPs : \A e \in admitted[q] :
          /\ e.call \in calls'
          /\ timeOf'[e.call] = timeOf[e.call]
  BY MakeTimes DEF HCheckEndpoint
<1>3. \A q \in IPs, t \in 0..MaxTime : AdmittedWithin(q, t)' = AdmittedWithin(q, t)
  BY <1>1, <1>2 DEF AdmittedWithin
<1>4. SlidingWindowBound'
  BY <1>3 DEF HInv, SlidingWindowBound
<1> QED BY <1>1, <1>2, <1>4
        DEF HInv, CallsWereMade, ClockNeverAhead, AdmittedStillCounted

\* Blocking keeps the invariant: it forgets what was admitted.
LEMMA BlockInv ==
    ASSUME HInv, NEW ip \in IPs, NEW expiry, HBlock(ip, expiry)
    PROVE  /\ CallsWereMade'
           /\ ClockNeverAhead'
           /\ AdmittedStillCounted'
           /\ SlidingWindowBound'
<1>1. /\ UNCHANGED <<now, wall, timeOf, calls>>
      /\ admitted'[ip] = {}
      /\ \A q \in IPs \ {ip} : admitted'[q] = admitted[q]
      /\ \A q \in IPs \ {ip} : WindowAt(windows', q) = WindowAt(windows, q)
  BY DEF HBlock, Block, HInv, HTypeOK, WindowAt
<1>2. SlidingWindowBound'
  <2> SUFFICES ASSUME NEW q \in IPs, NEW t \in 0..MaxTime
               PROVE  Cardinality(AdmittedWithin(q, t)') <= Limit
    BY DEF SlidingWindowBound
  <2>1. CASE q = ip
    <3>1. AdmittedWithin(q, t)' = {}
      BY <1>1, <2>1 DEF AdmittedWithin
    <3> QED BY <3>1, FS_EmptySet, LimitAssumption DEF Limit
  <2>2. CASE q # ip
    <3>1. AdmittedWithin(q, t)' = AdmittedWithin(q, t)
      BY <1>1, <2>2 DEF AdmittedWithin
    <3> QED BY <3>1 DEF HInv, SlidingWindowBound
  <2> QED BY <2>1, <2>2
<1> QED BY <1>1, <1>2
        DEF HInv, CallsWereMade, ClockNeverAhead, AdmittedStillCounted

\* The invariant behind the admission bound, and the bound itself.
THEOREM AdmissionInvariant == HSpec => []HInv
<1>1. HInit => HInv
  <2> SUFFICES ASSUME HInit PROVE HInv
    OBVIOUS
  <2>1. TypeOK /\ WindowsFinite
    BY CountedType, FS_EmptySet
       DEF HInit, Init, TypeOK, WindowsFinite, IsMap, EmptyMap
  <2>2. HTypeOK
    BY <2>1 DEF HInit, HTypeOK, Expiry
  <2>3. CallsWereMade /\ ClockNeverAhead /\ AdmittedStillCounted
    BY DEF HInit, CallsWereMade, ClockNeverAhead, AdmittedStillCounted
  <2>4. SlidingWindowBound
    <3>1. \A ip \in IPs, t \in 0..MaxTime : AdmittedWithin(ip, t) = {}
      BY DEF HInit, AdmittedWithin
    <3> QED BY <3>1, FS_EmptySet, LimitAssumption DEF SlidingWindowBound, Limit
  <2> QED BY <2>1, <2>2, <2>3, <2>4 DEF HInv
<1>2. HInv /\ [HNext]_hvars => HInv'
  <2> SUFFICES ASSUME HInv, [HNext]_hvars PROVE HInv'
    OBVIOUS
  <2>1. HTypeOK' /\ WindowsFinite'
    BY HistoryTypes DEF HInv
  <2>2. ASSUME NEW ip \in IPs, NEW c \in Calls, HCheck(ip, c) PROVE HInv'
    BY <2>1, <2>2, CheckInv DEF HInv
  <2>3. ASSUME NEW ip \in IPs, NEW ep \in Endpoints, NEW c \in Calls,
               HCheckEndpoint(ip, ep, c)
        PROVE  HInv'
    BY <2>1, <2>3, EndpointInv DEF HInv
  <2>4. ASSUME NEW ip \in IPs, NEW expiry, HBlock(ip, expiry) PROVE HInv'
    BY <2>1, <2>4, BlockInv DEF HInv
  <2>5. CASE HCleanup \/ HTick \/ HStepBack \/ \E ip \in IPs : HUnblockIp(ip)
    BY <2>1, <2>5, QuietInv DEF HInv
  <2>6. CASE UNCHANGED hvars
    <3>1. UNCHANGED <<now, wall, timeOf, calls, admitted, windows>>
      BY <2>6 DEF hvars, vars, history
    <3> QED BY <3>1, <2>1
            DEF HInv, CallsWereMade, ClockNeverAhead, AdmittedStillCounted,
                SlidingWindowBound, AdmittedWithin
  <2> QED BY <2>2, <2>3, <2>4, <2>5, <2>6 DEF HNext
<1> QED BY <1>1, <1>2, PTL DEF HSpec

\* The fields of the limiter and the record of what it answered have their types,
\* whatever the order of checks, blocks, cleanups and clock corrections.
THEOREM HistoryTypesHold == HSpec => []HTypeOK
BY AdmissionInvariant, PTL DEF HInv

\* In any window of real time check admits at most max_per_window +
\* burst_allowance requests of an IP (since its last block), for every limit,
\* every window length and whatever the clock corrections.
THEOREM AdmissionBound == HSpec => []SlidingWindowBound
BY AdmissionInvariant, PTL DEF HInv

\* No admitted request is forgotten before its window has passed.
THEOREM NothingForgottenEarly == HSpec => []AdmittedStillCounted
BY AdmissionInvariant, PTL DEF HInv

(************************ blocks leave no trace ********************************)

\* A tracked block, expired or not, means an empty window and nobody admitted:
\* the first check that records after the expiry removes the block with it.
TraceFree == \A ip \in IPs \cap DOMAIN blocked_ips :
                admitted[ip] = {} /\ WindowAt(windows, ip) = {}

\* While a block is in force nothing of the IP is admitted and its window stays
\* empty, for any clock and any order of the other operations.
THEOREM BlocksLeaveNoTrace == HSpec => []BlockLeavesNoTrace
<1> DEFINE Inv == HTypeOK /\ WindowsFinite /\ TraceFree
<1>1. HInit => Inv
  <2> SUFFICES ASSUME HInit PROVE Inv
    OBVIOUS
  <2>1. TypeOK /\ WindowsFinite
    BY CountedType, FS_EmptySet
       DEF HInit, Init, TypeOK, WindowsFinite, IsMap, EmptyMap
  <2> QED BY <2>1 DEF HInit, HTypeOK, Expiry, Init, TraceFree, EmptyMap
<1>2. Inv /\ [HNext]_hvars => Inv'
  <2> SUFFICES ASSUME HTypeOK, WindowsFinite, TraceFree, [HNext]_hvars
               PROVE  TraceFree'
    BY HistoryTypes
  <2>1. ASSUME NEW ip \in IPs, NEW c \in Calls, HCheck(ip, c) PROVE TraceFree'
    <3>1. CASE CheckRefused(ip)
      <4>1. UNCHANGED <<windows, blocked_ips, admitted>>
        BY <2>1, <3>1 DEF CheckRefused, HCheck, Refused
      <4> QED BY <4>1 DEF TraceFree
    <3>2. CASE CheckRecorded(ip, c)
      <4>1. /\ ip \notin DOMAIN blocked_ips'
            /\ DOMAIN blocked_ips' \subseteq DOMAIN blocked_ips
        BY <3>2 DEF CheckRecorded, Keep
      <4>2. \A q \in IPs \ {ip} : /\ admitted'[q] = admitted[q]
                                  /\ WindowAt(windows', q) = WindowAt(windows, q)
        BY <2>1, <3>2 DEF CheckRecorded, HCheck, HTypeOK, Put, WindowAt
      <4> QED BY <4>1, <4>2 DEF TraceFree
    <3> QED BY <2>1, <3>1, <3>2 DEF HCheck, Check
  <2>2. ASSUME NEW ip \in IPs, NEW ep \in Endpoints, NEW c \in Calls,
               HCheckEndpoint(ip, ep, c)
        PROVE  TraceFree'
    BY <2>2 DEF HCheckEndpoint, CheckEndpoint, TraceFree
  <2>3. ASSUME NEW ip \in IPs, NEW expiry, HBlock(ip, expiry) PROVE TraceFree'
    <3>1. /\ DOMAIN blocked_ips' = DOMAIN blocked_ips \cup {ip}
          /\ admitted'[ip] = {}
          /\ WindowAt(windows', ip) = {}
          /\ \A q \in IPs \ {ip} : /\ admitted'[q] = admitted[q]
                                   /\ WindowAt(windows', q) = WindowAt(windows, q)
      BY <2>3 DEF HBlock, Block, Put, HTypeOK, WindowAt
    <3> QED BY <3>1 DEF TraceFree
  <2>4. ASSUME NEW ip \in IPs, HUnblockIp(ip) PROVE TraceFree'
    BY <2>4 DEF HUnblockIp, UnblockIp, Keep, history, TraceFree
  <2>5. CASE HCleanup
    BY <2>5 DEF HCleanup, Cleanup, Keep, history, TraceFree, WindowAt
  <2>6. CASE HTick \/ HStepBack
    BY <2>6 DEF HTick, HStepBack, Tick, StepBack, history, TraceFree
  <2>7. CASE UNCHANGED hvars
    BY <2>7 DEF hvars, vars, history, TraceFree
  <2> QED BY <2>1, <2>2, <2>3, <2>4, <2>5, <2>6, <2>7 DEF HNext
<1>3. Inv => BlockLeavesNoTrace
  BY DEF TraceFree, BlockLeavesNoTrace, Blocked
<1> QED BY <1>1, <1>2, <1>3, PTL DEF HSpec

(************************ blocks are served in full ****************************)

\* A block that replaces whatever was there lasts its duration from now on.
LEMMA BlockOutstanding ==
    ASSUME HTypeOK, BlocksOutstanding, NEW ip \in IPs, NEW expiry \in Expiry,
           expiry = Never \/ wall <= expiry, HBlock(ip, expiry)
    PROVE  BlocksOutstanding'
<1>1. /\ UNCHANGED <<now, wall>> /\ now \in Nat /\ wall \in Nat
      /\ blocked_ips' = Put(blocked_ips, ip, expiry)
      /\ due' = [due EXCEPT ![ip] = IF expiry = Never THEN Never
                                    ELSE now + (expiry - wall)]
      /\ due \in [IPs -> Expiry]
  BY DEF HBlock, Block, HTypeOK, TypeOK
<1>2. ip \in DOMAIN blocked_ips' /\ blocked_ips'[ip] = expiry
  BY <1>1 DEF Put
<1>3. \A q \in IPs \ {ip} : /\ due'[q] = due[q]
                            /\ q \in DOMAIN blocked_ips =>
                                  /\ q \in DOMAIN blocked_ips'
                                  /\ blocked_ips'[q] = blocked_ips[q]
  BY <1>1 DEF Put
<1>4. ASSUME expiry # Never
      PROVE  due'[ip] # Never /\ wall + due'[ip] <= now + expiry
  <2>1. expiry \in Nat /\ wall <= expiry /\ due'[ip] = now + (expiry - wall)
    BY <1>1, <1>4 DEF Expiry
  <2>2. due'[ip] \in Nat /\ wall + due'[ip] = now + expiry
    BY <1>1, <2>1
  <2>3. now + expiry \in Nat
    BY <1>1, <2>1
  <2> QED BY <2>2, <2>3, NeverAssumption
<1> QED BY <1>1, <1>2, <1>3, <1>4 DEF BlocksOutstanding, StillDue

\* A client that was blocked stays blocked for the whole duration of its block,
\* whatever checks, cleanups and clock corrections come in between.
THEOREM BlocksAreServed == HSpec => []BlockServed
<1> DEFINE Inv == HTypeOK /\ WindowsFinite /\ BlocksOutstanding
<1>1. HInit => Inv
  <2> SUFFICES ASSUME HInit PROVE Inv
    OBVIOUS
  <2>1. TypeOK /\ WindowsFinite
    BY CountedType, FS_EmptySet
       DEF HInit, Init, TypeOK, WindowsFinite, IsMap, EmptyMap
  <2>2. HTypeOK
    BY <2>1 DEF HInit, HTypeOK, Expiry
  <2>3. \A ip \in IPs : ~StillDue(ip)
    BY NeverAssumption DEF HInit, StillDue
  <2> QED BY <2>1, <2>2, <2>3 DEF BlocksOutstanding
<1>2. Inv /\ [HNext]_hvars => Inv'
  <2> SUFFICES ASSUME HTypeOK, WindowsFinite, BlocksOutstanding, [HNext]_hvars
               PROVE  BlocksOutstanding'
    BY HistoryTypes
  <2>a. /\ now \in Nat /\ wall \in Nat /\ due \in [IPs -> Expiry]
        /\ \A q \in DOMAIN blocked_ips : blocked_ips[q] \in Expiry
    BY DEF HTypeOK, TypeOK, IsMap
  <2>b. ASSUME NEW q \in IPs, StillDue(q)
        PROVE  q \in DOMAIN blocked_ips /\ ~BlockExpired(blocked_ips[q], wall)
    BY <2>a, <2>b DEF BlocksOutstanding, StillDue, BlockExpired, Expiry
  <2>1. ASSUME NEW ip \in IPs, NEW c \in Calls, HCheck(ip, c)
        PROVE  BlocksOutstanding'
    <3>1. UNCHANGED <<now, wall, due>>
      BY <2>1 DEF HCheck, Check
    <3>2. \A q \in IPs : StillDue(q) => /\ q \in DOMAIN blocked_ips'
                                       /\ blocked_ips'[q] = blocked_ips[q]
      BY <2>1, <2>b DEF HCheck, Check, CheckRefused, CheckRecorded, Blocked, Keep
    <3> QED BY <3>1, <3>2 DEF BlocksOutstanding, StillDue
  <2>2. ASSUME NEW ip \in IPs, NEW ep \in Endpoints, NEW c \in Calls,
               HCheckEndpoint(ip, ep, c)
        PROVE  BlocksOutstanding'
    BY <2>2 DEF HCheckEndpoint, CheckEndpoint, BlocksOutstanding, StillDue
  <2>3. ASSUME NEW ip \in IPs, NEW d \in Durations, HBlock(ip, wall + d)
        PROVE  BlocksOutstanding'
    <3>1. wall + d \in Expiry /\ wall <= wall + d
      BY <2>a, DurationAssumption DEF Expiry
    <3> QED BY <2>3, <3>1, BlockOutstanding
  <2>4. ASSUME NEW ip \in IPs, HBlock(ip, Never) PROVE BlocksOutstanding'
    BY <2>4, BlockOutstanding DEF Expiry
  <2>5. ASSUME NEW ip \in IPs, HUnblockIp(ip) PROVE BlocksOutstanding'
    <3>1. /\ UNCHANGED <<now, wall>> /\ due' = [due EXCEPT ![ip] = 0]
          /\ blocked_ips' = Keep(blocked_ips, DOMAIN blocked_ips \ {ip})
      BY <2>5 DEF HUnblockIp, UnblockIp
    <3>2. ~StillDue(ip)'
      BY <3>1, <2>a, NeverAssumption DEF StillDue
    <3>3. \A q \in IPs \ {ip} : /\ due'[q] = due[q]
                                /\ q \in DOMAIN blocked_ips =>
                                      /\ q \in DOMAIN blocked_ips'
                                      /\ blocked_ips'[q] = blocked_ips[q]
      BY <3>1, <2>a DEF Keep
    <3> QED BY <3>1, <3>2, <3>3 DEF BlocksOutstanding, StillDue
  <2>6. CASE HCleanup
    <3>1. UNCHANGED <<now, wall, due>>
      BY <2>6 DEF HCleanup, Cleanup, history
    <3>2. \A q \in IPs : StillDue(q) => /\ q \in DOMAIN blocked_ips'
                                       /\ blocked_ips'[q] = blocked_ips[q]
      BY <2>6, <2>b DEF HCleanup, Cleanup, Keep
    <3> QED BY <3>1, <3>2 DEF BlocksOutstanding, StillDue
  <2>7. CASE HTick
    <3>1. now' = now + 1 /\ wall' = wall + 1 /\ UNCHANGED <<blocked_ips, due>>
      BY <2>7 DEF HTick, Tick
    <3>2. \A q \in IPs : StillDue(q)' => StillDue(q)
      BY <3>1, <2>a DEF StillDue, Expiry
    <3> QED BY <3>1, <3>2, <2>a DEF BlocksOutstanding, Expiry
  <2>8. CASE HStepBack
    <3>1. wall' \in Nat /\ wall' <= wall /\ UNCHANGED <<now, blocked_ips, due>>
      BY <2>8, <2>a, ClockAssumption DEF HStepBack, StepBack, history
    <3> QED BY <3>1, <2>a DEF BlocksOutstanding, StillDue, Expiry
  <2>9. CASE UNCHANGED hvars
    BY <2>9 DEF hvars, vars, history, BlocksOutstanding, StillDue
  <2> QED BY <2>1, <2>2, <2>3, <2>4, <2>5, <2>6, <2>7, <2>8, <2>9 DEF HNext
<1>3. Inv => BlockServed
  <2> SUFFICES ASSUME HTypeOK, BlocksOutstanding, NEW ip \in IPs, StillDue(ip)
               PROVE  Blocked(ip, wall)
    BY DEF BlockServed
  <2>1. /\ now \in Nat /\ wall \in Nat /\ due[ip] \in Expiry
        /\ ip \in DOMAIN blocked_ips /\ blocked_ips[ip] \in Expiry
    BY DEF HTypeOK, TypeOK, IsMap, BlocksOutstanding
  <2> QED BY <2>1 DEF BlocksOutstanding, StillDue, Blocked, BlockExpired, Expiry
<1> QED BY <1>1, <1>2, <1>3, PTL DEF HSpec

(************************ cleanup is transparent *******************************)

\* What is too old to count now is too old at every later time.
LEMMA AgeGrows ==
    ASSUME NEW s \in Nat, NEW t \in Nat, s <= t, NEW at \in Nat
    PROVE  Age(s, at) <= Age(t, at) /\ Age(s, at) \in Nat /\ Age(t, at) \in Nat
BY DEF Age

\* A cleanup leaves the window of ip alone, or drops one that holds nothing young
\* enough to count.
LEMMA CleanupWindow ==
    ASSUME Cleanup, NEW ip
    PROVE  \/ WindowAt(windows', ip) = WindowAt(windows, ip)
           \/ WindowAt(windows', ip) = {} /\ WindowExpired(WindowAt(windows, ip), wall)
BY DEF Cleanup, Keep, WindowAt

\* A cleanup leaves the block of ip alone, or drops one that has expired.
LEMMA CleanupBlock ==
    ASSUME Cleanup, NEW ip
    PROVE  \/ /\ ip \in DOMAIN blocked_ips' <=> ip \in DOMAIN blocked_ips
              /\ ip \in DOMAIN blocked_ips => blocked_ips'[ip] = blocked_ips[ip]
           \/ /\ ip \notin DOMAIN blocked_ips'
              /\ ip \in DOMAIN blocked_ips
              /\ BlockExpired(blocked_ips[ip], wall)
BY DEF Cleanup, Keep

\* At any reading of the clock from now up a cleanup changes no answer.
LEMMA CleanupUnseen ==
    ASSUME TypeOK, Cleanup, NEW ip \in IPs, NEW t \in Nat, t >= wall
    PROVE  Outlook(ip, t)' = Outlook(ip, t)
<1>1. wall \in Nat
  BY DEF TypeOK
<1>2. Blocked(ip, t)' <=> Blocked(ip, t)
  <2>1. CASE ip \in DOMAIN blocked_ips /\ BlockExpired(blocked_ips[ip], wall)
    <3>1. blocked_ips[ip] \in Nat
      BY <2>1 DEF TypeOK, IsMap, Expiry, BlockExpired
    <3>2. BlockExpired(blocked_ips[ip], t)
      BY <2>1, <3>1, <1>1 DEF BlockExpired
    <3> QED BY <2>1, <3>2, CleanupBlock DEF Blocked
  <2>2. CASE ~(ip \in DOMAIN blocked_ips /\ BlockExpired(blocked_ips[ip], wall))
    BY <2>2, CleanupBlock DEF Blocked
  <2> QED BY <2>1, <2>2
<1>3. Retained(WindowAt(windows', ip), t) = Retained(WindowAt(windows, ip), t)
  <2> SUFFICES ASSUME WindowExpired(WindowAt(windows, ip), wall)
               PROVE  Retained(WindowAt(windows, ip), t) = {}
    BY CleanupWindow DEF Retained
  <2> SUFFICES ASSUME NEW e \in WindowAt(windows, ip)
               PROVE  ~(Age(t, e.at) <= WindowMs)
    BY DEF Retained
  <2>1. e.at \in Nat
    BY DEF TypeOK, IsMap, WindowAt, Entry
  <2>2. Age(wall, e.at) > WindowMs
    BY DEF WindowExpired
  <2>3. /\ Age(wall, e.at) <= Age(t, e.at)
        /\ Age(wall, e.at) \in Nat /\ Age(t, e.at) \in Nat
    BY <1>1, <2>1, AgeGrows
  <2> QED BY <2>2, <2>3, ClockAssumption
<1> QED BY <1>2, <1>3 DEF Outlook, Retained

\* At no reading of the clock does a cleanup turn an admission into a refusal.
LEMMA CleanupRefusesNobody ==
    ASSUME TypeOK, WindowsFinite, Cleanup, NEW ip \in IPs, NEW t \in Nat,
           Outlook(ip, t).allowed
    PROVE  Outlook(ip, t)'.allowed
<1> DEFINE n == Cardinality(Retained(WindowAt(windows, ip), t))
           m == Cardinality(Retained(WindowAt(windows', ip), t))
<1>1. ~Blocked(ip, t)
  BY DEF Outlook, Refused
<1>2. ~Blocked(ip, t)'
  BY <1>1, CleanupBlock DEF Blocked
<1>3. n + 1 <= Limit
  BY <1>1 DEF Outlook, Counted
<1>4. n \in Nat
  <2>1. IsFiniteSet(WindowAt(windows, ip))
    BY WindowType
  <2>2. Retained(WindowAt(windows, ip), t) \subseteq WindowAt(windows, ip)
    BY DEF Retained
  <2> QED BY <2>1, <2>2, FS_Subset, FS_CardinalityType
<1>5. m = n \/ m = 0
  <2>1. CASE WindowAt(windows', ip) = WindowAt(windows, ip)
    BY <2>1
  <2>2. CASE WindowAt(windows', ip) = {}
    <3>1. Retained(WindowAt(windows', ip), t) = {}
      BY <2>2 DEF Retained
    <3> QED BY <3>1, FS_EmptySet
  <2> QED BY <2>1, <2>2, CleanupWindow
<1>6. m + 1 <= Limit
  BY <1>3, <1>4, <1>5, LimitAssumption DEF Limit
<1>7. Outlook(ip, t)' = Counted(m + 1)
  BY <1>2 DEF Outlook, Retained, Counted
<1> HIDE DEF m
<1>8. Counted(m + 1).allowed
  BY <1>6, Zenon DEF Counted
<1> QED BY <1>7, <1>8

\* cleanup() changes no answer as long as the clock reads no less than when it
\* ran, and has nobody refused even if the clock is set back.
THEOREM CleanupIsTransparent == Spec => CleanupTransparent
<1>1. TypeOK /\ WindowsFinite /\ [Next]_vars =>
        [Cleanup => \A ip \in IPs, t \in 0..MaxTime :
                       /\ t >= wall => Outlook(ip, t)' = Outlook(ip, t)
                       /\ Outlook(ip, t).allowed => Outlook(ip, t)'.allowed]_vars
  <2> SUFFICES ASSUME TypeOK, WindowsFinite, Cleanup,
                      NEW ip \in IPs, NEW t \in 0..MaxTime
               PROVE  /\ t >= wall => Outlook(ip, t)' = Outlook(ip, t)
                      /\ Outlook(ip, t).allowed => Outlook(ip, t)'.allowed
    OBVIOUS
  <2>1. t \in Nat
    BY ClockAssumption
  <2> QED BY <2>1, CleanupUnseen, CleanupRefusesNobody
<1> QED BY <1>1, LimiterInvariant, PTL DEF Spec, CleanupTransparent

(************************ the limiter implements the ideal *********************)

\* Recording in the pruned window counts what the full record counts.
LEMMA SameCount ==
    ASSUME NEW w, NEW record \in SUBSET Entry, NEW t \in Nat, NEW made,
           Prunes(w, record, t, made), NEW c \in Calls
    PROVE  Recorded(w, t, c)
             = {e \in record \cup {[at |-> t, call |-> c]} : t - e.at <= WindowMs}
<1> DEFINE s == [at |-> t, call |-> c]
<1>1. s.at = t
  OBVIOUS
<1>2. \A e \in record : e.at \in Nat /\ e.at <= t
  BY DEF Entry, Prunes
<1>3. \A e \in record : Age(t, e.at) = t - e.at
  BY <1>2 DEF Age
<1>4. \A e \in record : t - e.at <= WindowMs => e \in w
  BY <1>2, ClockAssumption DEF Prunes
<1>5. w \subseteq record
  BY DEF Prunes
<1>6. t - t <= WindowMs
  BY ClockAssumption
<1> QED BY <1>1, <1>3, <1>4, <1>5, <1>6 DEF Recorded, Retained

\* Recording keeps the window and the record in step.
LEMMA RecordedPrunes ==
    ASSUME NEW w, NEW record \in SUBSET Entry, NEW t \in Nat, NEW made,
           Prunes(w, record, t, made), NEW c \in Calls
    PROVE  Prunes(Recorded(w, t, c), record \cup {[at |-> t, call |-> c]}, t,
                  made \cup {c})
<1> DEFINE s == [at |-> t, call |-> c]
           all == record \cup {s}
<1>1. Recorded(w, t, c) = {e \in all : t - e.at <= WindowMs}
  BY SameCount
<1>2. \A e \in all : e.at \in Nat /\ e.at <= t /\ e.call \in made \cup {c}
  BY DEF Entry, Prunes
<1>3. \A e \in all : t <= e.at + WindowMs => t - e.at <= WindowMs
  BY <1>2, ClockAssumption
<1> HIDE DEF s, all
<1>4. Prunes(Recorded(w, t, c), all, t, made \cup {c})
  BY <1>1, <1>2, <1>3 DEF Prunes
<1> QED BY <1>4 DEF s, all

\* As time passes and calls are made they stay in step, and a window that has
\* expired might as well be empty.
LEMMA StillPrunes ==
    ASSUME NEW w, NEW record \in SUBSET Entry, NEW t \in Nat, NEW made,
           Prunes(w, record, t, made),
           NEW u \in Nat, t <= u, NEW more, made \subseteq more
    PROVE  /\ Prunes(w, record, u, more)
           /\ WindowExpired(w, t) => Prunes({}, record, u, more)
<1>1. \A e \in record : e.at \in Nat /\ e.at <= t
  BY DEF Entry, Prunes
<1>2. ASSUME WindowExpired(w, t) PROVE Prunes({}, record, u, more)
  <2>1. \A e \in w : Age(t, e.at) > WindowMs
    BY <1>2 DEF WindowExpired
  <2>2. \A e \in record : ~(u <= e.at + WindowMs)
    <3> SUFFICES ASSUME NEW e \in record, u <= e.at + WindowMs PROVE FALSE
      OBVIOUS
    <3>1. e \in w
      BY <1>1, ClockAssumption DEF Prunes
    <3>2. Age(t, e.at) = t - e.at
      BY <1>1, <3>1 DEF Age
    <3> QED BY <1>1, <2>1, <3>1, <3>2, ClockAssumption
  <2> QED BY <2>2, <1>1 DEF Prunes
<1>3. Prunes(w, record, u, more)
  BY <1>1, ClockAssumption DEF Prunes
<1> QED BY <1>2, <1>3

\* The ideal says a block is in force exactly when the limiter does.
LEMMA UntilInForce ==
    ASSUME TypeOK, NEW ip \in IPs
    PROVE  UntilOf(ip) # 0 <=> Blocked(ip, wall)
BY NeverAssumption DEF UntilOf, Blocked, BlockExpired, TypeOK, IsMap, Expiry

\* While the clock only advances, every step keeps the windows in step with the
\* full record.
LEMMA RecordStep ==
    ASSUME MaxStepBack = 0, RecordInv, [HNext]_hvars
    PROVE  RecordInv'
<1> USE DEF RecordInv
<1>a. HTypeOK' /\ WindowsFinite'
  BY HistoryTypes
<1>b. /\ wall \in Nat /\ wall' \in Nat
      /\ \A ip \in IPs : seen[ip] \in SUBSET Entry
      /\ \A k \in IPs \X Endpoints : epSeen[k] \in SUBSET Entry
  BY <1>a DEF HTypeOK, TypeOK
<1> SUFFICES
      /\ \A ip \in IPs : Prunes(WindowAt(windows', ip), seen'[ip], wall', calls')
      /\ \A k \in IPs \X Endpoints :
            Prunes(WindowAt(endpoint_windows', k), epSeen'[k], wall', calls')
  BY <1>a
<1>1. ASSUME wall <= wall', calls \subseteq calls'
      PROVE  /\ \A ip \in IPs : Prunes(WindowAt(windows, ip), seen[ip], wall', calls')
             /\ \A k \in IPs \X Endpoints :
                   Prunes(WindowAt(endpoint_windows, k), epSeen[k], wall', calls')
             /\ \A ip \in IPs : WindowExpired(WindowAt(windows, ip), wall) =>
                                   Prunes({}, seen[ip], wall', calls')
  BY <1>1, <1>b, StillPrunes
<1>2. ASSUME NEW ip \in IPs, NEW c \in Calls, HCheck(ip, c)
      PROVE  /\ \A q \in IPs : Prunes(WindowAt(windows', q), seen'[q], wall', calls')
             /\ \A k \in IPs \X Endpoints :
                   Prunes(WindowAt(endpoint_windows', k), epSeen'[k], wall', calls')
  <2>1. /\ calls' = calls \cup {c} /\ wall' = wall
        /\ UNCHANGED <<endpoint_windows, epSeen>>
    BY <1>2 DEF HCheck, Check, Make
  <2>2. CASE CheckRefused(ip)
    <3>1. UNCHANGED <<windows, seen>>
      BY <1>2, <2>2 DEF HCheck, CheckRefused
    <3> QED BY <3>1, <2>1, <1>1, <1>b
  <2>3. CASE CheckRecorded(ip, c)
    <3>1. /\ WindowAt(windows', ip) = Recorded(WindowAt(windows, ip), wall, c)
          /\ seen'[ip] = seen[ip] \cup {[at |-> wall, call |-> c]}
          /\ \A q \in IPs \ {ip} : /\ WindowAt(windows', q) = WindowAt(windows, q)
                                   /\ seen'[q] = seen[q]
      BY <1>2, <2>3 DEF HCheck, CheckRecorded, Put, WindowAt, HTypeOK, Stamped
    <3>2. Prunes(WindowAt(windows', ip), seen'[ip], wall', calls')
      BY <3>1, <2>1, <1>b, RecordedPrunes
    <3>3. wall <= wall' /\ calls \subseteq calls'
      BY <2>1, <1>b
    <3>4. \A q \in IPs \ {ip} : Prunes(WindowAt(windows', q), seen'[q], wall', calls')
      BY <3>1, <3>3, <1>1
    <3>5. \A k \in IPs \X Endpoints :
             Prunes(WindowAt(endpoint_windows', k), epSeen'[k], wall', calls')
      BY <2>1, <3>3, <1>1
    <3> QED BY <3>2, <3>4, <3>5
  <2> QED BY <1>2, <2>2, <2>3 DEF HCheck, Check
<1>3. ASSUME NEW ip \in IPs, NEW ep \in Endpoints, NEW c \in Calls,
             HCheckEndpoint(ip, ep, c)
      PROVE  /\ \A q \in IPs : Prunes(WindowAt(windows', q), seen'[q], wall', calls')
             /\ \A k \in IPs \X Endpoints :
                   Prunes(WindowAt(endpoint_windows', k), epSeen'[k], wall', calls')
  <2> DEFINE key == <<ip, ep>>
  <2>1. /\ calls' = calls \cup {c} /\ wall' = wall
        /\ UNCHANGED <<windows, seen>>
        /\ key \in IPs \X Endpoints
    BY <1>3 DEF HCheckEndpoint, CheckEndpoint, Make
  <2>2. CASE EndpointRefused(ip)
    <3>1. UNCHANGED <<endpoint_windows, epSeen>>
      BY <1>3, <2>2 DEF HCheckEndpoint, EndpointRefused
    <3> QED BY <3>1, <2>1, <1>1, <1>b
  <2>3. CASE EndpointRecorded(ip, ep, c)
    <3>1. /\ endpoint_windows' = Put(endpoint_windows, key,
                 Recorded(WindowAt(endpoint_windows, key), wall, c))
          /\ epSeen' = [epSeen EXCEPT ![key] = @ \cup {[at |-> wall, call |-> c]}]
      BY <1>3, <2>3 DEF HCheckEndpoint, EndpointRecorded, Stamped
    <3> HIDE DEF key
    <3>2. /\ WindowAt(endpoint_windows', key)
                = Recorded(WindowAt(endpoint_windows, key), wall, c)
          /\ epSeen'[key] = epSeen[key] \cup {[at |-> wall, call |-> c]}
          /\ \A k \in (IPs \X Endpoints) \ {key} :
                /\ WindowAt(endpoint_windows', k) = WindowAt(endpoint_windows, k)
                /\ epSeen'[k] = epSeen[k]
      BY <3>1, <2>1 DEF Put, WindowAt, HTypeOK
    <3>3. Prunes(WindowAt(endpoint_windows', key), epSeen'[key], wall', calls')
      BY <3>2, <2>1, <1>b, RecordedPrunes
    <3>4. wall <= wall' /\ calls \subseteq calls'
      BY <2>1, <1>b
    <3>5. \A k \in (IPs \X Endpoints) \ {key} :
             Prunes(WindowAt(endpoint_windows', k), epSeen'[k], wall', calls')
      BY <3>2, <3>4, <1>1
    <3>6. \A q \in IPs : Prunes(WindowAt(windows', q), seen'[q], wall', calls')
      BY <2>1, <3>4, <1>1
    <3> QED BY <3>3, <3>5, <3>6
  <2> QED BY <1>3, <2>2, <2>3 DEF HCheckEndpoint, CheckEndpoint
<1>4. ASSUME NEW ip \in IPs, NEW expiry, HBlock(ip, expiry)
      PROVE  /\ \A q \in IPs : Prunes(WindowAt(windows', q), seen'[q], wall', calls')
             /\ \A k \in IPs \X Endpoints :
                   Prunes(WindowAt(endpoint_windows', k), epSeen'[k], wall', calls')
  <2>1. /\ UNCHANGED <<wall, calls, endpoint_windows, epSeen>>
        /\ WindowAt(windows', ip) = {} /\ seen'[ip] = {}
        /\ \A q \in IPs \ {ip} : /\ WindowAt(windows', q) = WindowAt(windows, q)
                                 /\ seen'[q] = seen[q]
    BY <1>4 DEF HBlock, Block, WindowAt, HTypeOK
  <2>2. Prunes(WindowAt(windows', ip), seen'[ip], wall', calls')
    BY <2>1 DEF Prunes
  <2> QED BY <2>1, <2>2, <1>1, <1>b
<1>5. ASSUME NEW ip \in IPs, HUnblockIp(ip)
      PROVE  UNCHANGED <<windows, endpoint_windows, wall, calls, seen, epSeen>>
  BY <1>5 DEF HUnblockIp, UnblockIp, history
<1>6. CASE HCleanup
  <2>1. UNCHANGED <<endpoint_windows, wall, calls, seen, epSeen>>
    BY <1>6 DEF HCleanup, Cleanup, history
  <2>2. ASSUME NEW q \in IPs
        PROVE  \/ WindowAt(windows', q) = WindowAt(windows, q)
               \/ WindowAt(windows', q) = {} /\ WindowExpired(WindowAt(windows, q), wall)
    BY <1>6 DEF HCleanup, Cleanup, Keep, WindowAt
  <2> QED BY <2>1, <2>2, <1>1, <1>b
<1>7. CASE HTick
  <2>1. /\ UNCHANGED <<windows, endpoint_windows, calls, seen, epSeen>>
        /\ wall <= wall'
    BY <1>7, <1>b DEF HTick, Tick
  <2> QED BY <2>1, <1>1
<1>8. CASE HStepBack
  BY <1>8 DEF HStepBack, StepBack
<1>9. CASE UNCHANGED hvars
  BY <1>9 DEF hvars, vars, history
<1> QED BY <1>1, <1>2, <1>3, <1>4, <1>5, <1>6, <1>7, <1>8, <1>9, <1>b DEF HNext

\* A check of a blocked client is a refusal of the ideal.
LEMMA RefusalIsIdeal ==
    ASSUME HTypeOK, NEW ip \in IPs, Blocked(ip, wall), verdict' = Refused,
           UNCHANGED <<wall, seen, epSeen, blocked_ips>>
    PROVE  Ideal!Refuse(ip)
<1>1. UntilOf(ip) # 0
  BY UntilInForce DEF HTypeOK
<1>2. [q \in IPs |-> UntilOf(q)]' = [q \in IPs |-> UntilOf(q)]
  BY DEF UntilOf, Blocked
<1> QED BY <1>1, <1>2 DEF Ideal!Refuse, Ideal!InForce, Ideal!Refused, Refused

\* An answer computed from the pruned window is the ideal's answer.
LEMMA SameAnswer ==
    ASSUME HTypeOK, NEW w, NEW record \in SUBSET Entry,
           Prunes(w, record, wall, calls), NEW c \in Calls
    PROVE  Counted(Cardinality(Recorded(w, wall, c)))
             = Ideal!Answer(record \cup {Ideal!Request(c)})
<1>1. Recorded(w, wall, c)
        = {e \in record \cup {[at |-> wall, call |-> c]} : wall - e.at <= WindowMs}
  BY SameCount DEF HTypeOK, TypeOK
<1>2. Ideal!Recent(record \cup {Ideal!Request(c)}) = Recorded(w, wall, c)
  BY <1>1 DEF Ideal!Recent, Ideal!Request
<1>3. Ideal!Limit = Limit
  BY DEF Ideal!Limit, Limit
<1>4. \A n : Ideal!Judged(n) = Counted(n)
  BY <1>3, Zenon DEF Ideal!Judged, Counted
<1>5. Ideal!Cardinality(Recorded(w, wall, c)) = Cardinality(Recorded(w, wall, c))
  BY DEF Ideal!Cardinality, Cardinality
<1> QED BY <1>2, <1>4, <1>5 DEF Ideal!Answer

\* A call not made yet is in none of the records of the ideal.
LEMMA NewToIdeal ==
    ASSUME RecordInv, NEW c \in Calls, c \notin calls
    PROVE  Ideal!NewCall(c)
BY DEF RecordInv, Prunes, Ideal!NewCall

\* A check is a check or a refusal of the ideal.
LEMMA CheckIsIdeal ==
    ASSUME RecordInv, NEW ip \in IPs, NEW c \in Calls, HCheck(ip, c)
    PROVE  Ideal!Next
<1>1. CASE CheckRefused(ip)
  <2>1. Ideal!Refuse(ip)
    BY <1>1, RefusalIsIdeal DEF RecordInv, CheckRefused, HCheck, Check
  <2> QED BY <2>1 DEF Ideal!Next
<1>2. CASE CheckRecorded(ip, c)
  <2>1. /\ ~Blocked(ip, wall)
        /\ blocked_ips' = Keep(blocked_ips, DOMAIN blocked_ips \ {ip})
        /\ verdict' = Counted(Cardinality(Recorded(WindowAt(windows, ip), wall, c)))
        /\ wall' = wall /\ epSeen' = epSeen
    BY <1>2 DEF CheckRecorded, HCheck, Check
  <2>2. seen' = [seen EXCEPT ![ip] = @ \cup {Ideal!Request(c)}]
    BY <2>1 DEF HCheck, Stamped, Ideal!Request
  <2>3. UntilOf(ip) = 0
    BY <2>1 DEF UntilOf
  <2>4. \A q \in IPs : Blocked(q, wall)' <=> Blocked(q, wall)
    BY <2>1 DEF Blocked, Keep
  <2>5. [q \in IPs |-> UntilOf(q)]' = [q \in IPs |-> UntilOf(q)]
    <3> SUFFICES ASSUME NEW q \in IPs PROVE UntilOf(q)' = UntilOf(q)
      OBVIOUS
    <3>1. Blocked(q, wall) => q # ip /\ blocked_ips'[q] = blocked_ips[q]
      BY <2>1 DEF Keep, Blocked
    <3> QED BY <3>1, <2>1, <2>4 DEF UntilOf
  <2>6. verdict' = Ideal!Answer(seen[ip] \cup {Ideal!Request(c)})
    BY <2>1, SameAnswer DEF RecordInv, HTypeOK
  <2>7. Ideal!Check(ip, c)
    BY <2>1, <2>2, <2>3, <2>5, <2>6 DEF Ideal!Check, Ideal!InForce
  <2>8. Ideal!NewCall(c)
    BY NewToIdeal DEF HCheck, Make
  <2> QED BY <2>7, <2>8 DEF Ideal!Next
<1> QED BY <1>1, <1>2 DEF HCheck, Check

\* An endpoint check is one of the ideal, or a refusal.
LEMMA CheckEndpointIsIdeal ==
    ASSUME RecordInv, NEW ip \in IPs, NEW ep \in Endpoints, NEW c \in Calls,
           HCheckEndpoint(ip, ep, c)
    PROVE  Ideal!Next
<1>1. CASE EndpointRefused(ip)
  <2>1. Ideal!Refuse(ip)
    BY <1>1, RefusalIsIdeal
       DEF RecordInv, EndpointRefused, HCheckEndpoint, CheckEndpoint
  <2> QED BY <2>1 DEF Ideal!Next
<1>2. CASE EndpointRecorded(ip, ep, c)
  <2> DEFINE k == <<ip, ep>>
  <2>1. /\ ~Blocked(ip, wall)
        /\ verdict' = Counted(Cardinality(
                          Recorded(WindowAt(endpoint_windows, k), wall, c)))
        /\ UNCHANGED <<wall, seen, blocked_ips>>
        /\ k \in IPs \X Endpoints /\ k[1] = ip
    BY <1>2 DEF EndpointRecorded, HCheckEndpoint, CheckEndpoint
  <2>2. epSeen' = [epSeen EXCEPT ![k] = @ \cup {Ideal!Request(c)}]
    BY <2>1 DEF HCheckEndpoint, Stamped, Ideal!Request
  <2> HIDE DEF k
  <2>3. UntilOf(ip) = 0
    BY <2>1 DEF UntilOf
  <2>4. [q \in IPs |-> UntilOf(q)]' = [q \in IPs |-> UntilOf(q)]
    BY <2>1 DEF UntilOf, Blocked
  <2>5. verdict' = Ideal!Answer(epSeen[k] \cup {Ideal!Request(c)})
    BY <2>1, SameAnswer DEF RecordInv, HTypeOK
  <2>6. Ideal!CheckEndpoint(k, c)
    BY <2>1, <2>2, <2>3, <2>4, <2>5 DEF Ideal!CheckEndpoint, Ideal!InForce
  <2>7. Ideal!NewCall(c)
    BY NewToIdeal DEF HCheckEndpoint, Make
  <2> QED BY <2>1, <2>6, <2>7 DEF Ideal!Next
<1> QED BY <1>1, <1>2 DEF HCheckEndpoint, CheckEndpoint

\* A timed block ends after now, or at once if its duration is 0.
LEMMA BlockIsIdeal ==
    ASSUME RecordInv, NEW ip \in IPs, NEW expiry \in Expiry,
           expiry = Never \/ wall <= expiry, HBlock(ip, expiry)
    PROVE  Ideal!Block(ip, expiry)
<1>1. /\ blocked_ips' = Put(blocked_ips, ip, expiry)
      /\ UNCHANGED <<wall, verdict, epSeen>>
      /\ wall \in Nat
      /\ seen' = [seen EXCEPT ![ip] = {}]
  BY DEF HBlock, Block, RecordInv, HTypeOK, TypeOK
<1>2. \A q \in IPs \ {ip} : UntilOf(q)' = UntilOf(q)
  BY <1>1 DEF UntilOf, Blocked, Put
<1>3. UntilOf(ip)' = IF expiry = wall THEN 0 ELSE expiry
  <2>1. ip \in DOMAIN blocked_ips' /\ blocked_ips'[ip] = expiry
    BY <1>1 DEF Put
  <2>2. BlockExpired(expiry, wall) <=> expiry = wall
    BY <1>1, NeverAssumption DEF BlockExpired, Expiry
  <2> QED BY <1>1, <2>1, <2>2 DEF UntilOf, Blocked
<1>4. [q \in IPs |-> UntilOf(q)]'
        = [[q \in IPs |-> UntilOf(q)] EXCEPT ![ip] = IF expiry = wall THEN 0 ELSE expiry]
  BY <1>2, <1>3
<1> QED BY <1>1, <1>4 DEF Ideal!Block

\* Unblocking is unblocking, also when the block had expired.
LEMMA UnblockIsIdeal ==
    ASSUME NEW ip \in IPs, HUnblockIp(ip)
    PROVE  Ideal!Unblock(ip)
<1>1. /\ blocked_ips' = Keep(blocked_ips, DOMAIN blocked_ips \ {ip})
      /\ UNCHANGED <<wall, seen, epSeen, verdict>>
  BY DEF HUnblockIp, UnblockIp, history
<1>2. \A q \in IPs \ {ip} : UntilOf(q)' = UntilOf(q)
  BY <1>1 DEF UntilOf, Blocked, Keep
<1>3. UntilOf(ip)' = 0
  BY <1>1 DEF UntilOf, Blocked, Keep
<1>4. [q \in IPs |-> UntilOf(q)]'
        = [[q \in IPs |-> UntilOf(q)] EXCEPT ![ip] = 0]
  BY <1>2, <1>3
<1> QED BY <1>1, <1>4 DEF Ideal!Unblock

\* Cleaning up changes nothing the ideal knows of.
LEMMA CleanupStutters ==
    ASSUME HCleanup
    PROVE  UNCHANGED Ideal!vars
<1>1. /\ blocked_ips' = Keep(blocked_ips, {q \in DOMAIN blocked_ips :
                                              ~BlockExpired(blocked_ips[q], wall)})
      /\ UNCHANGED <<wall, seen, epSeen, verdict>>
  BY DEF HCleanup, Cleanup, history
<1>2. \A q \in IPs : UntilOf(q)' = UntilOf(q)
  BY <1>1 DEF UntilOf, Blocked, Keep
<1>3. [q \in IPs |-> UntilOf(q)]' = [q \in IPs |-> UntilOf(q)]
  BY <1>2
<1> QED BY <1>1, <1>3 DEF Ideal!vars

\* When the clock ticks, the blocks of the ideal that end now are lifted.
LEMMA TickIsIdeal ==
    ASSUME RecordInv, HTick
    PROVE  Ideal!Tick
<1>1. /\ wall \in Nat /\ wall < MaxTime /\ wall' = wall + 1
      /\ UNCHANGED <<seen, epSeen, verdict, blocked_ips>>
      /\ \A q \in IPs \cap DOMAIN blocked_ips : blocked_ips[q] \in Expiry
  BY DEF RecordInv, HTick, Tick, HTypeOK, TypeOK, IsMap
<1>2. \A q \in IPs : UntilOf(q)' = IF UntilOf(q) = wall + 1 THEN 0 ELSE UntilOf(q)
  <2> SUFFICES ASSUME NEW q \in IPs
               PROVE  UntilOf(q)' = IF UntilOf(q) = wall + 1 THEN 0 ELSE UntilOf(q)
    OBVIOUS
  <2>1. CASE q \notin DOMAIN blocked_ips
    BY <1>1, <2>1 DEF UntilOf, Blocked
  <2>2. CASE q \in DOMAIN blocked_ips /\ blocked_ips[q] = Never
    BY <1>1, <2>2, NeverAssumption DEF UntilOf, Blocked, BlockExpired
  <2>3. CASE q \in DOMAIN blocked_ips /\ blocked_ips[q] # Never
    <3>1. blocked_ips[q] \in Nat
      BY <1>1, <2>3 DEF Expiry
    <3> QED BY <1>1, <2>3, <3>1 DEF UntilOf, Blocked, BlockExpired
  <2> QED BY <2>1, <2>2, <2>3
<1>3. [q \in IPs |-> UntilOf(q)]'
        = [q \in IPs |-> IF [r \in IPs |-> UntilOf(r)][q] = wall + 1 THEN 0
                         ELSE [r \in IPs |-> UntilOf(r)][q]]
  BY <1>2
<1> QED BY <1>1, <1>3 DEF Ideal!Tick

\* With a clock that is never set back, the pruned, lazily expiring and cleaned
\* up limiter gives on every check the answer of the ideal sliding window.
THEOREM LimiterImplementsIdeal ==
    ASSUME MaxStepBack = 0
    PROVE  HSpec => ImplementsIdeal
<1>1. HInit => RecordInv /\ Ideal!Init
  <2> SUFFICES ASSUME HInit PROVE RecordInv /\ Ideal!Init
    OBVIOUS
  <2>1. TypeOK /\ WindowsFinite
    BY CountedType, FS_EmptySet
       DEF HInit, Init, TypeOK, WindowsFinite, IsMap, EmptyMap
  <2>2. RecordInv
    BY <2>1 DEF HInit, HTypeOK, Expiry, RecordInv, Init, EmptyMap, WindowAt, Prunes
  <2>3. [q \in IPs |-> UntilOf(q)] = [q \in IPs |-> 0]
    BY DEF HInit, Init, EmptyMap, UntilOf, Blocked
  <2>4. verdict = [allowed |-> TRUE, count |-> 0]
    <3>1. (0 <= Limit) = TRUE
      BY LimitAssumption DEF Limit
    <3> QED BY <3>1, Zenon DEF HInit, Init, Counted
  <2> QED BY <2>2, <2>3, <2>4 DEF HInit, Init, Ideal!Init
<1>2. RecordInv /\ [HNext]_hvars => RecordInv'
  BY RecordStep
<1>3. RecordInv /\ [HNext]_hvars => [Ideal!Next]_(Ideal!vars)
  <2> SUFFICES ASSUME RecordInv, [HNext]_hvars
               PROVE  Ideal!Next \/ UNCHANGED Ideal!vars
    BY DEF Ideal!vars
  <2>1. ASSUME NEW ip \in IPs, NEW c \in Calls, HCheck(ip, c) PROVE Ideal!Next
    BY <2>1, CheckIsIdeal
  <2>2. ASSUME NEW ip \in IPs, NEW ep \in Endpoints, NEW c \in Calls,
               HCheckEndpoint(ip, ep, c)
        PROVE  Ideal!Next
    BY <2>2, CheckEndpointIsIdeal
  <2>3. ASSUME NEW ip \in IPs, NEW d \in Durations, HBlock(ip, wall + d)
        PROVE  Ideal!Next
    <3>1. wall + d \in Expiry /\ wall <= wall + d
      BY DurationAssumption DEF RecordInv, HTypeOK, TypeOK, Expiry
    <3>2. Ideal!Block(ip, wall + d)
      BY <2>3, <3>1, BlockIsIdeal
    <3> QED BY <3>2 DEF Ideal!Next
  <2>4. ASSUME NEW ip \in IPs, HBlock(ip, Never) PROVE Ideal!Next
    <3>1. Ideal!Block(ip, Never)
      BY <2>4, BlockIsIdeal DEF Expiry
    <3> QED BY <3>1 DEF Ideal!Next
  <2>5. ASSUME NEW ip \in IPs, HUnblockIp(ip) PROVE Ideal!Next
    BY <2>5, UnblockIsIdeal DEF Ideal!Next
  <2>6. CASE HCleanup
    BY <2>6, CleanupStutters
  <2>7. CASE HTick
    BY <2>7, TickIsIdeal DEF Ideal!Next
  <2>8. CASE HStepBack
    BY <2>8 DEF HStepBack, StepBack
  <2>9. CASE UNCHANGED hvars
    <3>1. UNCHANGED <<wall, seen, epSeen, verdict, blocked_ips>>
      BY <2>9 DEF hvars, vars, history
    <3>2. [q \in IPs |-> UntilOf(q)]' = [q \in IPs |-> UntilOf(q)]
      BY <3>1 DEF UntilOf, Blocked
    <3> QED BY <3>1, <3>2 DEF Ideal!vars
  <2> QED BY <2>1, <2>2, <2>3, <2>4, <2>5, <2>6, <2>7, <2>8, <2>9 DEF HNext
<1> QED BY <1>1, <1>2, <1>3, PTL DEF HSpec, ImplementsIdeal, Ideal!Spec
==============================================================================
