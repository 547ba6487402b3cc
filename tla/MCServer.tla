------------------------------- MODULE MCServer -------------------------------
(* Server on small instances: the requests clients send and the files the      *)
(* server is started with.                                                     *)
EXTENDS Server

\* The digits of two secrets: the configured one, and the fallback.
Hashes == [s \in {"secret", FallbackSecret} |-> IF s = "secret" THEN "0f1e" ELSE "a1b2"]

Request(method, path) ==
    [client |-> "alice", method |-> method, path |-> path, query |-> FALSE,
     token |-> NoToken, body |-> "", size |-> 0, hits |-> 0, confidence |-> 0]

Api      == Request("GET", <<"/", "api", "/", "x">>)
Search   == [Api EXCEPT !.query = TRUE]
Sibling  == [Request("GET", <<"/", "api", "s">>) EXCEPT !.client = "bob"]
Admin    == Request("GET", <<"/", "admin", "istrator">>)
Certain1 == [Api EXCEPT !.hits = 1, !.confidence = 95]
Scored   == [Api EXCEPT !.hits = 2, !.confidence = 75]
Large    == [Request("POST", <<"/", "api">>) EXCEPT !.size = BodyLimit]
TooLarge == [Large EXCEPT !.size = BodyLimit + 1]

\* Calls of the admin API below the prefix of the configured secret.
Command(command, ip, token, body) ==
    [Request("POST", <<"/", "0f1e", command, "/", ip>>) EXCEPT !.token = token,
                                                               !.body = body]
Status2  == [Request("GET", <<"/", "0f1e", "status">>) EXCEPT !.token = "0f1e"]

ProxyCalls == {Api, Search, Sibling, Admin, Certain1, Scored, Large, TooLarge}
AdminCalls == {Command("block", "bob", "0f1e", "bob"),
               Command("whitelist", "bob", "guess", "bob"), Status2,
               CommandLine("alice", "block", "bob", "0f1e")}

AllCalls   == ProxyCalls \cup AdminCalls
QueryCalls == {Api, Search}

(***************************** files *******************************************)

NoKeys == [none \in {} |-> 0]
File(keys) == [garbled |-> FALSE, keys |-> keys]

Sane == [threat_threshold |-> 50, sql_injection_weight |-> 30]

\* The shipped file in small: a limit of two, a database, the audit log.
Shipped == File([scoring |-> Sane,
                 rate_limiting |-> [enabled |-> TRUE, requests_per_window |-> 1,
                                    burst_allowance |-> 1],
                 block |-> [auto_unblock |-> TRUE],
                 blocklist |-> [enabled |-> TRUE],
                 logging |-> [log_blocked |-> TRUE],
                 response_headers |-> WholeDefault.response_headers,
                 admin_auth |-> [token |-> "secret"],
                 waf |-> [max_body_size |-> 0], allowlist |-> [allowed |-> FALSE]])

\* The allowlist on, with an entry that is refused; no audit log; values out of
\* range; a threshold that is missing in its section; a header that is no value.
Strict == File([waf |-> [max_body_size |-> 1024],
                allowlist |-> [allowed |-> TRUE,
                               allowed_paths |-> <<<<"/", "api">>, <<"/", "..">>>>],
                scoring |-> [sql_injection_weight |-> 0, high_confidence_threshold |-> 5],
                rate_limiting |-> [requests_per_window |-> 1],
                block |-> [auto_unblock |-> TRUE],
                blocklist |-> [enabled |-> TRUE],
                response_headers |-> [WholeDefault.response_headers EXCEPT
                                        !.referrer_policy = "control",
                                        !.strict_transport_security = ""],
                admin_auth |-> [token |-> "secret", path_length |-> 64]])

\* Nothing in it: every section is missing.
Empty == File(NoKeys)

\* One header given of seven: the file does not parse and the default is used.
Partial == File([allowlist |-> [allowed |-> TRUE],
                 response_headers |-> [x_frame_options |-> "DENY"]])

AllFiles    == {Shipped, Strict, Empty, Partial}
StrictFiles == {Strict}
==============================================================================
