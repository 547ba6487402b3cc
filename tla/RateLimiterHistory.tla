-------------------------- MODULE RateLimiterHistory --------------------------
(* The rate limiter with auxiliary variables that remember what it forgets:    *)
(* every request it recorded, which of them it admitted, until when each block *)
(* should last, and the time that really passed, which the wall clock          *)
(* misreports once it has been set back.                                       *)
(* No action of RateLimiter reads them.                                        *)
EXTENDS RateLimiter

VARIABLES now,       \* time really elapsed
          timeOf,    \* call -> the value of now when it was made
          calls,     \* the calls made so far
          seen,      \* ip -> every request recorded since its last block
          admitted,  \* ip -> those of them that check let through
          epSeen,    \* <<ip, endpoint>> -> every request recorded
          due        \* ip -> the value of now at which its block may end, or
                     \* Never; 0 if it was never blocked or was unblocked

history == <<now, timeOf, calls, seen, admitted, epSeen, due>>
hvars == <<vars, history>>

HInit == /\ Init
         /\ now = 0
         /\ timeOf = [c \in Calls |-> 0]
         /\ calls = {}
         /\ seen = [ip \in IPs |-> {}]
         /\ admitted = [ip \in IPs |-> {}]
         /\ epSeen = [k \in IPs \X Endpoints |-> {}]
         /\ due = [ip \in IPs |-> 0]

Stamped(c) == [at |-> wall, call |-> c]

Make(c) == /\ c \notin calls
           /\ calls' = calls \cup {c}
           /\ timeOf' = [timeOf EXCEPT ![c] = now]

HCheck(ip, c) ==
    /\ Make(c)
    /\ Check(ip, c)
    /\ seen' = IF Blocked(ip, wall) THEN seen
               ELSE [seen EXCEPT ![ip] = @ \cup {Stamped(c)}]
    /\ admitted' = IF verdict'.allowed
                   THEN [admitted EXCEPT ![ip] = @ \cup {Stamped(c)}]
                   ELSE admitted
    /\ UNCHANGED <<now, epSeen, due>>

HCheckEndpoint(ip, ep, c) ==
    /\ Make(c)
    /\ CheckEndpoint(ip, ep, c)
    /\ epSeen' = IF Blocked(ip, wall) THEN epSeen
                 ELSE [epSeen EXCEPT ![<<ip, ep>>] = @ \cup {Stamped(c)}]
    /\ UNCHANGED <<now, seen, admitted, due>>

HBlock(ip, expiry) ==
    /\ Block(ip, expiry)
    /\ seen' = [seen EXCEPT ![ip] = {}]
    /\ admitted' = [admitted EXCEPT ![ip] = {}]
    /\ due' = [due EXCEPT ![ip] = IF expiry = Never THEN Never
                                  ELSE now + (expiry - wall)]
    /\ UNCHANGED <<now, timeOf, calls, epSeen>>

HUnblockIp(ip) == /\ UnblockIp(ip)
                  /\ due' = [due EXCEPT ![ip] = 0]
                  /\ UNCHANGED <<now, timeOf, calls, seen, admitted, epSeen>>

HCleanup == Cleanup /\ UNCHANGED history

HTick == /\ Tick
         /\ now < MaxTime
         /\ now' = now + 1
         /\ UNCHANGED <<timeOf, calls, seen, admitted, epSeen, due>>

HStepBack == StepBack /\ UNCHANGED history

HNext == \/ \E ip \in IPs, c \in Calls : HCheck(ip, c)
         \/ \E ip \in IPs, ep \in Endpoints, c \in Calls : HCheckEndpoint(ip, ep, c)
         \/ \E ip \in IPs, d \in Durations : HBlock(ip, wall + d)
         \/ \E ip \in IPs : HBlock(ip, Never) \/ HUnblockIp(ip)
         \/ HCleanup
         \/ HTick
         \/ HStepBack

HSpec == HInit /\ [][HNext]_hvars

(***************************** properties **************************************)

\* The types of the auxiliary variables.
HTypeOK == /\ TypeOK
           /\ now \in Nat
           /\ timeOf \in [Calls -> Nat]
           /\ calls \in SUBSET Calls
           /\ seen \in [IPs -> SUBSET Entry]
           /\ admitted \in [IPs -> SUBSET Entry]
           /\ epSeen \in [IPs \X Endpoints -> SUBSET Entry]
           /\ due \in [IPs -> Expiry]

AdmittedWithin(ip, t) ==
    {e \in admitted[ip] : timeOf[e.call] <= t /\ t <= timeOf[e.call] + WindowMs}

\* Within any window of real time, check (rate_limit.rs:78) lets through at
\* most max_per_window + burst_allowance requests of one IP since it was last
\* blocked, whatever requests were rejected in between, whenever cleanup ran,
\* and even if the wall clock was set back.
SlidingWindowBound ==
    \A ip \in IPs, t \in 0..MaxTime : Cardinality(AdmittedWithin(ip, t)) <= Limit

\* While a block is in force the blocked IP gets nothing through and its
\* requests leave nothing behind that would count against it once the block
\* is lifted (rate_limit.rs:83-90, 117-119).
BlockLeavesNoTrace ==
    \A ip \in IPs : Blocked(ip, wall) => /\ admitted[ip] = {}
                                         /\ WindowAt(windows, ip) = {}

\* A request that was admitted less than one window ago still weighs on the
\* next check: neither the pruning of record() (rate_limit.rs:21) nor cleanup
\* drops it early, even when the wall clock was set back in between.
AdmittedStillCounted ==
    \A ip \in IPs : \A e \in admitted[ip] :
        now <= timeOf[e.call] + WindowMs => e \in WindowAt(windows, ip)

StillDue(ip) == due[ip] = Never \/ now < due[ip]

\* A client that was blocked stays blocked for the whole of the block's duration
\* in real time, unless someone lifts the block or replaces it: neither a check
\* (rate_limit.rs:83), nor a cleanup (rate_limit.rs:172), nor any correction of
\* the clock that sets it back, in any order, ends it early.
BlockServed ==
    \A ip \in IPs : StillDue(ip) => Blocked(ip, wall)

(******************** what makes these invariants inductive ********************)

\* Only calls that were made are remembered.
CallsWereMade == \A ip \in IPs : \A e \in admitted[ip] : e.call \in calls

\* The wall clock may run behind the real time that passed since a request was
\* stamped, never ahead of it.
ClockNeverAhead ==
    \A ip \in IPs : \A e \in admitted[ip] :
        /\ timeOf[e.call] <= now
        /\ wall + timeOf[e.call] <= now + e.at

\* The inductive invariant behind the admission bound.
HInv == /\ HTypeOK
        /\ WindowsFinite
        /\ CallsWereMade
        /\ ClockNeverAhead
        /\ AdmittedStillCounted
        /\ SlidingWindowBound

\* A block that still has to last is in the map, and the wall clock is not
\* nearer to its expiry than the real time is to the end of its duration.
BlocksOutstanding ==
    \A ip \in IPs : StillDue(ip) =>
        /\ ip \in DOMAIN blocked_ips
        /\ \/ blocked_ips[ip] = Never
           \/ /\ due[ip] # Never
              /\ wall + due[ip] <= now + blocked_ips[ip]

(***************************** refinement **************************************)

\* When the block of ip ends, as far as anyone can tell at this moment: an
\* expired block that nobody removed yet is no block.
UntilOf(ip) == IF Blocked(ip, wall) THEN blocked_ips[ip] ELSE 0

Ideal == INSTANCE SlidingWindow
           WITH now <- wall, until <- [ip \in IPs |-> UntilOf(ip)]

\* What relates a pruned window w to the full record at time t, when the calls
\* in made were made and the clock was never set back: the window is part of the
\* record, and holds all of it that still counts.
Prunes(w, record, t, made) ==
    /\ w \subseteq record
    /\ \A e \in record : /\ e.at <= t
                         /\ e.call \in made
                         /\ t <= e.at + WindowMs => e \in w

RecordInv == /\ HTypeOK
             /\ WindowsFinite
             /\ \A ip \in IPs :
                   Prunes(WindowAt(windows, ip), seen[ip], wall, calls)
             /\ \A k \in IPs \X Endpoints :
                   Prunes(WindowAt(endpoint_windows, k), epSeen[k], wall, calls)

\* Under a clock that is never set back (MaxStepBack = 0) the limiter answers
\* every check as the unpruned sliding window does.
ImplementsIdeal == Ideal!Spec
==============================================================================
