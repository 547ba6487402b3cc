------------------------------- MODULE Config -------------------------------
(* WafConfig (waf-core/src/config.rs): what load() makes of a TOML file and    *)
(* sanitize() of the result.  A file is what its author wrote: which sections, *)
(* with which of their keys.  Fractions (confidences, rates) are in percent,   *)
(* and the nested tables waf.allowlist and rate_limiting.block are sections.   *)
(*                                                                             *)
(* MissingKeyIsZero and ClampWeightFromZero are wrong versions of the          *)
(* definitions that follow them, used to see that the properties notice.       *)
EXTENDS Naturals, Sequences

\* The structs: their fields and what these hold.
KeyType ==
    [server |-> [listen_addr |-> "text", listen_port |-> "number",
                 reverse_proxy_port |-> "number", upstream_host |-> "text",
                 upstream_port |-> "number", tls_enabled |-> "flag",
                 tls_cert |-> "text", tls_key |-> "text"],
     waf |-> [default_action |-> "action", max_body_size |-> "number",
              upstream_timeout_ms |-> "number", strict_mode |-> "flag"],
     allowlist |-> [allowed |-> "flag", allowed_paths |-> "list"],
     scoring |-> [threat_threshold |-> "number", sql_injection_weight |-> "number",
                  xss_weight |-> "number", command_injection_weight |-> "number",
                  lfi_rfi_weight |-> "number", ssti_weight |-> "number",
                  ssrf_weight |-> "number", deserialization_weight |-> "number",
                  header_injection_weight |-> "number",
                  path_traversal_weight |-> "number",
                  protocol_violation_weight |-> "number", anomaly_score |-> "number",
                  bot_detection_weight |-> "number",
                  high_confidence_threshold |-> "number"],
     rate_limiting |-> [enabled |-> "flag", requests_per_window |-> "number",
                        window_seconds |-> "number", burst_allowance |-> "number",
                        endpoint_limits |-> "list"],
     block |-> [duration_minutes |-> "number", auto_unblock |-> "flag"],
     geo_ip |-> [enabled |-> "flag", db_path |-> "text", blocked_countries |-> "list",
                 min_reputation_score |-> "number"],
     blocklist |-> [enabled |-> "flag", database_path |-> "text"],
     logging |-> [level |-> "text", format |-> "text", log_file |-> "text",
                  log_blocked |-> "flag", sample_rate |-> "number"],
     metrics |-> [enabled |-> "flag", port |-> "number", path |-> "text"],
     tls_inspector |-> [enabled |-> "flag", deep_packet_inspection |-> "flag",
                        min_tls_version |-> "text", cipher_suites_blocked |-> "list"],
     bot_protection |-> [enabled |-> "flag", block_bad_bots |-> "flag",
                         captcha_threshold |-> "number", challenge_type |-> "text"],
     response_headers |-> [x_frame_options |-> "text", x_content_type_options |-> "text",
                           x_xss_protection |-> "text",
                           content_security_policy |-> "text", referrer_policy |-> "text",
                           permissions_policy |-> "text",
                           strict_transport_security |-> "text"],
     admin_auth |-> [enabled |-> "flag", token |-> "text", path_length |-> "number"]]

Sections == DOMAIN KeyType
Keys(section) == DOMAIN KeyType[section]

\* The Default of a field's type, and so of every field of a derived Default.
Zero == [text |-> "", number |-> 0, flag |-> FALSE, list |-> <<>>, action |-> "Block"]

\* The default_* functions, for the keys whose field names one.
Named ==
    [server |-> [listen_addr |-> "0.0.0.0", listen_port |-> 8443,
                 reverse_proxy_port |-> 8080, upstream_host |-> "127.0.0.1",
                 upstream_port |-> 3000],
     waf |-> [max_body_size |-> 10485760, upstream_timeout_ms |-> 30000],
     scoring |-> [threat_threshold |-> 50, sql_injection_weight |-> 30,
                  xss_weight |-> 25, command_injection_weight |-> 35,
                  lfi_rfi_weight |-> 30, ssti_weight |-> 30, ssrf_weight |-> 25,
                  deserialization_weight |-> 35, header_injection_weight |-> 20,
                  path_traversal_weight |-> 20, protocol_violation_weight |-> 15,
                  anomaly_score |-> 10, bot_detection_weight |-> 10,
                  high_confidence_threshold |-> 90],
     rate_limiting |-> [requests_per_window |-> 100, window_seconds |-> 60,
                        burst_allowance |-> 20],
     block |-> [duration_minutes |-> 60],
     geo_ip |-> [min_reputation_score |-> 40],
     blocklist |-> [database_path |-> "database/gargouille.db"],
     logging |-> [level |-> "info", format |-> "json", sample_rate |-> 100],
     metrics |-> [port |-> 9090, path |-> "/metrics"],
     tls_inspector |-> [min_tls_version |-> "TLS_1_2"],
     bot_protection |-> [captcha_threshold |-> 5, challenge_type |-> "js_challenge"],
     admin_auth |-> [enabled |-> TRUE, path_length |-> 16]]

\* Where WafConfig::default() gives more than those functions do.
Written ==
    [server |-> [tls_enabled |-> TRUE, tls_cert |-> "certs/server.crt",
                 tls_key |-> "certs/server.key"],
     waf |-> [strict_mode |-> TRUE],
     rate_limiting |-> [enabled |-> TRUE],
     block |-> [auto_unblock |-> TRUE],
     geo_ip |-> [db_path |-> "database/GeoLite2-Country.mmdb"],
     blocklist |-> [enabled |-> TRUE],
     logging |-> [log_file |-> "logs/gargouille.log", log_blocked |-> TRUE],
     metrics |-> [enabled |-> TRUE],
     bot_protection |-> [enabled |-> TRUE, block_bad_bots |-> TRUE],
     response_headers |-> [x_frame_options |-> "DENY",
                           x_content_type_options |-> "nosniff",
                           x_xss_protection |-> "0",
                           content_security_policy |->
                             "default-src 'self'; script-src 'self'",
                           referrer_policy |-> "strict-origin-when-cross-origin",
                           permissions_policy |->
                             "camera=(), microphone=(), geolocation=()",
                           strict_transport_security |->
                             "max-age=31536000; includeSubDomains"]]

\* The value in a table of sections and keys, if it is there.
Entry(table, section, key, otherwise) ==
    IF section \in DOMAIN table /\ key \in DOMAIN table[section]
    THEN table[section][key] ELSE otherwise

ZeroOf(section, key) == Zero[KeyType[section][key]]

\* #[serde(default)] on the field instead of #[serde(default = "...")].
MissingKeyIsZero(section, key) == ZeroOf(section, key)
KeyDefault(section, key) == Entry(Named, section, key, ZeroOf(section, key))

\* A section that is missing altogether: only admin_auth has a Default that was
\* written for it, the others are derived.
SectionDefault(section, key) ==
    IF section = "admin_auth" THEN KeyDefault(section, key) ELSE ZeroOf(section, key)

WholeDefault == [s \in Sections |->
                   [k \in Keys(s) |-> Entry(Written, s, k, KeyDefault(s, k))]]

\* The fields of ResponseHeadersConfig have no default: a file that gives some of
\* them and not all does not parse, like one that is not TOML.
Parses(file) == /\ ~file.garbled
                /\ "response_headers" \in DOMAIN file.keys =>
                      DOMAIN file.keys["response_headers"] = Keys("response_headers")

\* What TOML of the right types amounts to.
WellTyped(file) ==
    /\ file.garbled \in BOOLEAN
    /\ \A s \in DOMAIN file.keys : \A k \in DOMAIN file.keys[s] :
          KeyType[s][k] = "number" => file.keys[s][k] \in Nat

\* A section stands in a file if it or a table within it does.
Nested == [waf |-> {"allowlist"}, rate_limiting |-> {"block"}]
Given(file, section) ==
    \/ section \in DOMAIN file.keys
    \/ section \in DOMAIN Nested /\ Nested[section] \cap DOMAIN file.keys # {}

Load(file) ==
    IF ~Parses(file) THEN WholeDefault
    ELSE [s \in Sections |->
            [k \in Keys(s) |->
               IF Given(file, s) THEN Entry(file.keys, s, k, KeyDefault(s, k))
               ELSE SectionDefault(s, k)]]

(***************************** sanitize ****************************************)

WithinBounds(n, low, high) == IF n < low THEN low ELSE IF n > high THEN high ELSE n

ClampWeightFromZero(n) == WithinBounds(n, 0, 100)
ClampWeight(n)         == WithinBounds(n, 1, 100)
ClampPathLength(n)     == WithinBounds(n, 8, 32)
ClampThreshold(n)      == IF n > 100 THEN 100 ELSE n
ResetConfidence(n)     == IF n < 10 \/ n > 100 THEN 90 ELSE n

Weights == Keys("scoring") \ {"threat_threshold", "anomaly_score",
                              "high_confidence_threshold"}

Sanitize(conf) ==
    [conf EXCEPT
       !.scoring = [k \in Keys("scoring") |->
                      CASE k \in Weights                   -> ClampWeight(@[k])
                        [] k = "threat_threshold"          -> ClampThreshold(@[k])
                        [] k = "high_confidence_threshold" -> ResetConfidence(@[k])
                        [] OTHER                           -> @[k]],
       !.admin_auth.path_length = ClampPathLength(@)]

(***************************** validate, check-config **************************)

TotalWeight(s) ==
    s.sql_injection_weight + s.xss_weight + s.command_injection_weight
    + s.lfi_rfi_weight + s.ssti_weight + s.ssrf_weight + s.deserialization_weight
    + s.header_injection_weight + s.path_traversal_weight
    + s.protocol_violation_weight + s.bot_detection_weight

Warns(condition, warning) == IF condition THEN {warning} ELSE {}

Validate(conf) ==
    Warns(conf.server.listen_port = 0, "listen_port")
    \cup Warns(conf.waf.max_body_size > 100 * 1024 * 1024, "max_body_size")
    \cup Warns(TotalWeight(conf.scoring) < 10, "weights")
    \cup Warns(/\ conf.server.tls_enabled
               /\ conf.server.tls_cert = "" \/ conf.server.tls_key = "", "tls")
    \cup Warns(conf.metrics.enabled /\ conf.metrics.port = 0, "metrics_port")
    \cup Warns(conf.admin_auth.path_length < 8, "path_length")
    \cup Warns(conf.admin_auth.path_length > 32, "path_length")

\* The check-config command sanitizes before it validates.
CheckConfig(file) == Validate(Sanitize(Load(file)))
==============================================================================
