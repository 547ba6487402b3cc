------------------------------- MODULE Metrics -------------------------------
(* The counters of waf-core/src/metrics.rs.  Each is an AtomicU64 touched with *)
(* Ordering::Relaxed, so each load, store and fetch_add is one action of its   *)
(* own: record_blocked is two of them.  The per-category counters are written  *)
(* but never read, neither by the exporter nor by anyone else, and are left    *)
(* out.                                                                        *)
EXTENDS Naturals

VARIABLES total_requests, blocked_requests, allowed_requests,
          challenged_requests, threat_score_current

vars == <<total_requests, blocked_requests, allowed_requests,
          challenged_requests, threat_score_current>>

\* WafMetrics::new, and reset().
Init == /\ total_requests = 0
        /\ blocked_requests = 0
        /\ allowed_requests = 0
        /\ challenged_requests = 0
        /\ threat_score_current = 0

RecordRequest ==
    /\ total_requests' = total_requests + 1
    /\ UNCHANGED <<blocked_requests, allowed_requests, challenged_requests,
                   threat_score_current>>

\* record_blocked, first half: the fetch_add.
CountBlocked ==
    /\ blocked_requests' = blocked_requests + 1
    /\ UNCHANGED <<total_requests, allowed_requests, challenged_requests,
                   threat_score_current>>

\* record_blocked, second half: the store.
StoreScore(score) ==
    /\ threat_score_current' = score
    /\ UNCHANGED <<total_requests, blocked_requests, allowed_requests,
                   challenged_requests>>

RecordAllowed ==
    /\ allowed_requests' = allowed_requests + 1
    /\ UNCHANGED <<total_requests, blocked_requests, challenged_requests,
                   threat_score_current>>

RecordChallenged ==
    /\ challenged_requests' = challenged_requests + 1
    /\ UNCHANGED <<total_requests, blocked_requests, allowed_requests,
                   threat_score_current>>

TypeOK == {total_requests, blocked_requests, allowed_requests,
           challenged_requests, threat_score_current} \subseteq Nat
==============================================================================
