---------------------------- MODULE MCWafPipeline ----------------------------
(* evaluate on small instances: the profiles of the requests, and the limits.  *)
EXTENDS WafPipeline, TLC

CONSTANTS ip1, login, api

\* One request for each way through evaluate.
CleanRequest  == [ip |-> ip1, denied |-> FALSE, endpoints |-> {}, oversized |-> FALSE,
                  threat |-> "none", score |-> 0]
LoginRequest  == [CleanRequest EXCEPT !.endpoints = {login}]
DeniedRequest == [CleanRequest EXCEPT !.denied = TRUE]
LargeRequest  == [CleanRequest EXCEPT !.oversized = TRUE]
AttackRequest == [CleanRequest EXCEPT !.threat = "score", !.score = 80]
DirectRequest == [CleanRequest EXCEPT !.threat = "direct", !.score = 20]

AllProfiles   == {CleanRequest, LoginRequest, DeniedRequest, LargeRequest,
                  AttackRequest, DirectRequest}
ListProfiles  == {CleanRequest, AttackRequest}
LimitProfiles == {[CleanRequest EXCEPT !.endpoints = limits] :
                     limits \in {{}, {api}, {login, api}}}

LoginLimit == [e \in {login} |-> 1]

\* Two limits, of which the one for "/api" also matches what "/api/login" matches.
NestedLimits == [e \in {login, api} |-> 1]

Interchangeable == Permutations(Workers) \cup Permutations(Requests)
==============================================================================
