------------------------------ MODULE AdminAuth ------------------------------
(* AdminAuthService (waf-core/src/admin_auth): the token and the path prefix   *)
(* that are derived from the configuration, and the check of a call.  Paths    *)
(* are sequences of pieces as in Allowlist.                                    *)
EXTENDS Config, SequencesExt

CONSTANT Sha256      \* secret -> the hex digits of its hash

ASSUME HashAssumption ==
    /\ \A s, t \in DOMAIN Sha256 : Sha256[s] = Sha256[t] => s = t
    /\ \A s \in DOMAIN Sha256 :
          Sha256[s] \notin {"", "/", "block", "unblock", "whitelist", "status", "metrics"}

NoToken == ""

FallbackSecret == "gargouille-admin-fallback-secret-v1"

\* Both the token and the prefix come from the configured token or, when there
\* is none, from a fixed string.
Secret(conf) == IF conf.admin_auth.token # "" THEN conf.admin_auth.token
                ELSE FallbackSecret

\* Callers present the hash of the configured token, not the token itself.
ExpectedToken(conf) == Sha256[Secret(conf)]

\* The first path_length digits of the hash; its piece stands for them.
PathPrefix(conf) == <<"/", Sha256[Secret(conf)]>>

Refusal           == [authorized |-> FALSE]
Grant(action, ip) == [authorized |-> TRUE, action |-> action, target_ip |-> ip]

\* The byte comparison of const_time_eq, which tokens of another length never
\* pass.  The bound of 256 bytes is above the 64 of the expected token.
TokenAccepted(conf, token) == token # NoToken /\ token = ExpectedToken(conf)

\* What follows the first slash up to the next, and all that follows that one.
Parts(command) ==
    LET path  == Tail(command)
        slash == SelectInSeq(path, LAMBDA p : p = "/")
    IN  IF slash = 0 THEN <<path>>
        ELSE <<SubSeq(path, 1, slash - 1), SubSeq(path, slash + 1, Len(path))>>

\* AdminCommandValidator::from_path
FromPath(command) ==
    LET parts == SelectSeq(Parts(command), LAMBDA part : part # <<>>)
        bad   == {"control", "bytes", "..", "%2e%2e"}
    IN  IF \/ \E i \in DOMAIN command : command[i] \in bad
           \/ Head(command) # "/"
           \/ parts = <<>>
        THEN Refusal
        ELSE Grant(parts[1], IF Len(parts) >= 2 THEN parts[2] ELSE <<>>)

Authenticate(conf, token, raw_path) ==
    LET prefix  == PathPrefix(conf)
        command == SubSeq(raw_path, Len(prefix) + 1, Len(raw_path))
    IN  IF TokenAccepted(conf, token) /\ IsPrefix(prefix, raw_path) /\ command # <<>>
        THEN FromPath(command)
        ELSE Refusal
==============================================================================
