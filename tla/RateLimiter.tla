----------------------------- MODULE RateLimiter -----------------------------
(* The sliding-window limiter of waf-core/src/rate_limit.rs: one window of     *)
(* request timestamps per IP, one per (IP, endpoint), and a map of blocked     *)
(* IPs.  Every operation takes &mut self and runs under the caller's mutex, so *)
(* each is one action.                                                         *)
(*                                                                             *)
(* A Vec<u128> of timestamps is a multiset (its order is never used).  It is a *)
(* set here, of entries that carry the call that pushed them beside the        *)
(* timestamp, so that calls made within one millisecond stay apart; the length *)
(* of the Vec is the cardinality of the set.                                   *)
(*                                                                             *)
(* AgeWrapping, RetainedShort, WindowExpiredEarly, BlockExpiredLate,           *)
(* BlockExpiredEarly, BlockKeepsWindow and UnblockByExpiring are wrong         *)
(* versions of the definitions that follow them, used to see that the          *)
(* properties notice.                                                          *)
EXTENDS Naturals, FiniteSets

CONSTANTS IPs,           \* client addresses
          Endpoints,     \* endpoints with a window of their own
          Calls,         \* identities of the calls that record a request
          MaxPerWindow,  \* requests_per_window
          Burst,         \* burst_allowance
          WindowMs,      \* window_seconds * 1000, in ticks of the clock
          Durations,     \* block durations, in ticks of the clock
          Never,         \* expires_at = None
          MaxTime,       \* bound: the clock stops here
          MaxStepBack    \* how far one correction sets Utc::now() back

ASSUME LimitAssumption    == MaxPerWindow \in Nat /\ Burst \in Nat
ASSUME ClockAssumption    == WindowMs \in Nat /\ MaxTime \in Nat /\ MaxStepBack \in Nat
ASSUME DurationAssumption == Durations \subseteq Nat
ASSUME NeverAssumption    == Never \notin Nat

VARIABLES wall,              \* what Utc::now() reads
          windows,           \* ip -> window; a key exists once the IP was seen
          endpoint_windows,  \* <<ip, endpoint>> -> window
          blocked_ips,       \* ip -> expires_at
          verdict            \* what the last check returned

vars == <<wall, windows, endpoint_windows, blocked_ips, verdict>>

Limit    == MaxPerWindow + Burst
Entry    == [at : Nat, call : Calls]
Expiry   == Nat \cup {Never}
Verdicts == [allowed : BOOLEAN, count : Nat]

\* A HashMap from some of the keys K to V.
IsMap(map, K, V) == DOMAIN map \subseteq K /\ map \in [DOMAIN map -> V]
EmptyMap == [k \in {} |-> {}]
Put(map, key, val) ==
    [k \in DOMAIN map \cup {key} |-> IF k = key THEN val ELSE map[k]]
Keep(map, K) == [k \in DOMAIN map \cap K |-> map[k]]
WindowAt(map, key) == IF key \in DOMAIN map THEN map[key] ELSE {}

(***************************** IpWindow ****************************************)

\* A subtraction that wraps makes an entry stamped in the future very old.
AgeWrapping(t, at) == IF t >= at THEN t - at ELSE WindowMs + 1

\* u128::saturating_sub: an entry stamped in the future has age 0.
Age(t, at) == IF t >= at THEN t - at ELSE 0

RetainedShort(w, t) == {e \in w : Age(t, e.at) < WindowMs}

Retained(w, t)    == {e \in w : Age(t, e.at) <= WindowMs}
Recorded(w, t, c) == Retained(w, t) \cup {[at |-> t, call |-> c]}

WindowExpiredEarly(w, t) == \A e \in w : Age(t, e.at) >= WindowMs

WindowExpired(w, t) == \A e \in w : Age(t, e.at) > WindowMs

(***************************** blocked IPs *************************************)

BlockExpiredLate(expiry, t)  == expiry # Never /\ t > expiry
BlockExpiredEarly(expiry, t) == expiry # Never /\ t + 1 >= expiry

BlockExpired(expiry, t) == expiry # Never /\ t >= expiry
Blocked(ip, t) == ip \in DOMAIN blocked_ips /\ ~BlockExpired(blocked_ips[ip], t)

Refused    == [allowed |-> FALSE, count |-> 0]
Counted(n) == [allowed |-> n <= Limit, count |-> n]

\* A call that no window holds: its entry is a new one.
Fresh(c) == /\ \A ip \in DOMAIN windows : \A e \in windows[ip] : e.call # c
            /\ \A k \in DOMAIN endpoint_windows :
                  \A e \in endpoint_windows[k] : e.call # c

(***************************** operations **************************************)

Init == /\ wall = 0
        /\ windows = EmptyMap
        /\ endpoint_windows = EmptyMap
        /\ blocked_ips = EmptyMap
        /\ verdict = Counted(0)

CheckRefused(ip) == /\ Blocked(ip, wall)
                    /\ verdict' = Refused
                    /\ UNCHANGED <<windows, blocked_ips>>

CheckRecorded(ip, c) ==
    LET w == Recorded(WindowAt(windows, ip), wall, c)
    IN  /\ ~Blocked(ip, wall)
        /\ blocked_ips' = Keep(blocked_ips, DOMAIN blocked_ips \ {ip})
        /\ windows' = Put(windows, ip, w)
        /\ verdict' = Counted(Cardinality(w))

Check(ip, c) == /\ CheckRefused(ip) \/ CheckRecorded(ip, c)
                /\ UNCHANGED <<wall, endpoint_windows>>

EndpointRefused(ip) == /\ Blocked(ip, wall)
                       /\ verdict' = Refused
                       /\ UNCHANGED endpoint_windows

EndpointRecorded(ip, ep, c) ==
    LET w == Recorded(WindowAt(endpoint_windows, <<ip, ep>>), wall, c)
    IN  /\ ~Blocked(ip, wall)
        /\ endpoint_windows' = Put(endpoint_windows, <<ip, ep>>, w)
        /\ verdict' = Counted(Cardinality(w))

\* An expired block is ignored here but stays in the map.
CheckEndpoint(ip, ep, c) ==
    /\ EndpointRefused(ip) \/ EndpointRecorded(ip, ep, c)
    /\ UNCHANGED <<wall, windows, blocked_ips>>

\* The window keeps its entries.
BlockKeepsWindow(ip, expiry) ==
    /\ blocked_ips' = Put(blocked_ips, ip, expiry)
    /\ UNCHANGED <<wall, windows, endpoint_windows, verdict>>

\* Blocking overwrites an earlier block, whatever its expiry, and empties the
\* general window if there is one; the endpoint windows keep their entries.
Block(ip, expiry) ==
    /\ blocked_ips' = Put(blocked_ips, ip, expiry)
    /\ windows' = [k \in DOMAIN windows |-> IF k = ip THEN {} ELSE windows[k]]
    /\ UNCHANGED <<wall, endpoint_windows, verdict>>

BlockIpWithExpiry(ip, d) == Block(ip, wall + d)
BlockIp(ip) == Block(ip, Never)

\* The block is made to have expired, a millisecond ago.
UnblockByExpiring(ip) ==
    /\ blocked_ips' = Put(blocked_ips, ip, wall - 1)
    /\ UNCHANGED <<wall, windows, endpoint_windows, verdict>>

UnblockIp(ip) == /\ blocked_ips' = Keep(blocked_ips, DOMAIN blocked_ips \ {ip})
                 /\ UNCHANGED <<wall, windows, endpoint_windows, verdict>>

Cleanup ==
    /\ windows' = Keep(windows, {ip \in DOMAIN windows :
                                    ~WindowExpired(windows[ip], wall)})
    /\ blocked_ips' = Keep(blocked_ips, {ip \in DOMAIN blocked_ips :
                                            ~BlockExpired(blocked_ips[ip], wall)})
    /\ UNCHANGED <<wall, endpoint_windows, verdict>>

(***************************** the clock ***************************************)

Tick == /\ wall < MaxTime
        /\ wall' = wall + 1
        /\ UNCHANGED <<windows, endpoint_windows, blocked_ips, verdict>>

\* Utc::now() is a wall clock: a correction may set it back.
StepBack == /\ \E d \in 1..MaxStepBack : d <= wall /\ wall' = wall - d
            /\ UNCHANGED <<windows, endpoint_windows, blocked_ips, verdict>>

Next == \/ \E ip \in IPs, c \in Calls : Fresh(c) /\ Check(ip, c)
        \/ \E ip \in IPs, ep \in Endpoints, c \in Calls :
              Fresh(c) /\ CheckEndpoint(ip, ep, c)
        \/ \E ip \in IPs, d \in Durations : BlockIpWithExpiry(ip, d)
        \/ \E ip \in IPs : BlockIp(ip) \/ UnblockIp(ip)
        \/ Cleanup
        \/ Tick
        \/ StepBack

Spec == Init /\ [][Next]_vars

(***************************** properties **************************************)

\* The types of the limiter's fields and of what a check returns.
TypeOK == /\ wall \in Nat
          /\ IsMap(windows, IPs, SUBSET Entry)
          /\ IsMap(endpoint_windows, IPs \X Endpoints, SUBSET Entry)
          /\ IsMap(blocked_ips, IPs, Expiry)
          /\ verdict \in Verdicts

\* The windows' cardinalities are those of finite sets.
WindowsFinite ==
    /\ \A ip \in DOMAIN windows : IsFiniteSet(windows[ip])
    /\ \A k \in DOMAIN endpoint_windows : IsFiniteSet(endpoint_windows[k])

\* What check would answer to one more request of ip at time t.
Outlook(ip, t) ==
    IF Blocked(ip, t) THEN Refused
    ELSE Counted(Cardinality(Retained(WindowAt(windows, ip), t)) + 1)

\* cleanup() (rate_limit.rs:167) throws away the windows and blocks that have
\* expired.  As long as the clock reads no less than it does now, no check can
\* tell: every IP gets the answer it would have got.  If the clock is set back
\* afterwards the answers may differ, since a block that had run out would have
\* been in force again, and requests too old to count would have counted again;
\* but at no reading of the clock does a cleanup have a request refused that
\* would have been admitted.
CleanupTransparent ==
    [][Cleanup => \A ip \in IPs, t \in 0..MaxTime :
                     /\ t >= wall => Outlook(ip, t)' = Outlook(ip, t)
                     /\ Outlook(ip, t).allowed => Outlook(ip, t)'.allowed]_vars
==============================================================================
