---------------------------- MODULE MCRateLimiter ----------------------------
(* The rate limiter on small instances.                                        *)
EXTENDS RateLimiterHistory, TLC

CallSymmetry == Permutations(Calls)
==============================================================================
