---------------------------- MODULE SlidingWindow ----------------------------
(* What the rate limiter promises, with nothing said of how it remembers: a    *)
(* check is answered from ALL the requests recorded for its client since the   *)
(* client was last blocked, of which those at most one window old count.  The  *)
(* limiter of RateLimiter.tla keeps pruned windows, lapses blocks lazily and   *)
(* cleans up, and must give the same answers.                                  *)
EXTENDS Naturals, FiniteSets

CONSTANTS IPs, Endpoints, Calls, MaxPerWindow, Burst, WindowMs, Durations,
          Never, MaxTime

VARIABLES now,      \* the clock
          seen,     \* ip -> every request recorded since its last block
          epSeen,   \* <<ip, endpoint>> -> every request ever recorded
          until,    \* ip -> when its block ends; 0 if it is not blocked
          verdict

vars == <<now, seen, epSeen, until, verdict>>

Limit   == MaxPerWindow + Burst
InForce(ip) == until[ip] # 0
Request(c) == [at |-> now, call |-> c]
Recent(S)  == {e \in S : now - e.at <= WindowMs}
Judged(n)  == [allowed |-> n <= Limit, count |-> n]
Answer(S)  == Judged(Cardinality(Recent(S)))
Refused    == [allowed |-> FALSE, count |-> 0]
NewCall(c) == /\ \A ip \in IPs : \A e \in seen[ip] : e.call # c
              /\ \A k \in IPs \X Endpoints : \A e \in epSeen[k] : e.call # c

Init == /\ now = 0
        /\ seen = [ip \in IPs |-> {}]
        /\ epSeen = [k \in IPs \X Endpoints |-> {}]
        /\ until = [ip \in IPs |-> 0]
        /\ verdict = [allowed |-> TRUE, count |-> 0]

Refuse(ip) == /\ InForce(ip)
              /\ verdict' = Refused
              /\ UNCHANGED <<now, seen, epSeen, until>>

Check(ip, c) ==
    /\ ~InForce(ip)
    /\ seen' = [seen EXCEPT ![ip] = @ \cup {Request(c)}]
    /\ verdict' = Answer(seen[ip] \cup {Request(c)})
    /\ UNCHANGED <<now, epSeen, until>>

CheckEndpoint(k, c) ==
    /\ ~InForce(k[1])
    /\ epSeen' = [epSeen EXCEPT ![k] = @ \cup {Request(c)}]
    /\ verdict' = Answer(epSeen[k] \cup {Request(c)})
    /\ UNCHANGED <<now, seen, until>>

\* A block of no duration is none, but it still forgives the past requests.
Block(ip, expiry) ==
    /\ until' = [until EXCEPT ![ip] = IF expiry = now THEN 0 ELSE expiry]
    /\ seen' = [seen EXCEPT ![ip] = {}]
    /\ UNCHANGED <<now, epSeen, verdict>>

Unblock(ip) == /\ until' = [until EXCEPT ![ip] = 0]
               /\ UNCHANGED <<now, seen, epSeen, verdict>>

\* A block ends the moment the clock reaches its end.
Tick == /\ now < MaxTime
        /\ now' = now + 1
        /\ until' = [ip \in IPs |-> IF until[ip] = now + 1 THEN 0 ELSE until[ip]]
        /\ UNCHANGED <<seen, epSeen, verdict>>

Next == \/ \E ip \in IPs : Refuse(ip) \/ Unblock(ip) \/ Block(ip, Never)
        \/ \E ip \in IPs, d \in Durations : Block(ip, now + d)
        \/ \E ip \in IPs, c \in Calls : NewCall(c) /\ Check(ip, c)
        \/ \E k \in IPs \X Endpoints, c \in Calls : NewCall(c) /\ CheckEndpoint(k, c)
        \/ Tick

Spec == Init /\ [][Next]_vars
==============================================================================
