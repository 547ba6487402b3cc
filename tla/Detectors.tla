------------------------------ MODULE Detectors ------------------------------
(* The nine rule detectors of waf-core/src/rules that work through a table:    *)
(* for each text in order, every rule whose pattern the text matches reports a *)
(* threat of a fixed confidence.  Which texts match a pattern is an input.     *)
EXTENDS Naturals, Parser

\* A rule, by its id, and the confidence of its threats in percent.
Rule(id, confidence) == [id |-> id, confidence |-> confidence]

SqlInjectionRules == <<Rule("SQLI-001", 85), Rule("SQLI-002", 90), Rule("SQLI-003", 80),
                       Rule("SQLI-004", 75), Rule("SQLI-010", 70), Rule("SQLI-020", 50)>>
XssRules == <<Rule("XSS-001", 95), Rule("XSS-002", 85), Rule("XSS-003", 80),
              Rule("XSS-004", 75), Rule("XSS-005", 70)>>
CmdiRules == <<Rule("CMDI-001", 85), Rule("CMDI-002", 80), Rule("CMDI-003", 95),
               Rule("CMDI-010", 65), Rule("CMDI-020", 75)>>
LfiRfiRules == <<Rule("LFI-001", 95), Rule("LFI-002", 90), Rule("LFI-010", 60),
                 Rule("LFI-020", 80)>>
SstiRules == <<Rule("SSTI-001", 85), Rule("SSTI-010", 95), Rule("SSTI-020", 80)>>
SsrfRules == <<Rule("SSRF-001", 95), Rule("SSRF-002", 70), Rule("SSRF-003", 65),
               Rule("SSRF-010", 85)>>
DeserializationRules == <<Rule("DES-001", 95), Rule("DES-002", 90), Rule("DES-010", 85),
                          Rule("DES-020", 75)>>
HeaderInjectionRules == <<Rule("HJ-001", 85), Rule("HJ-002", 80), Rule("HJ-010", 95)>>
PathTraversalRules == <<Rule("PT-001", 90), Rule("PT-002", 75), Rule("PT-010", 85),
                        Rule("PT-020", 70)>>

RuleTable == [SqlInjection      |-> SqlInjectionRules,
              Xss               |-> XssRules,
              CommandInjection  |-> CmdiRules,
              LfiRfi            |-> LfiRfiRules,
              Ssti              |-> SstiRules,
              Ssrf              |-> SsrfRules,
              Deserialization   |-> DeserializationRules,
              HeaderInjection   |-> HeaderInjectionRules,
              PathTraversal     |-> PathTraversalRules,
              ProtocolViolation |-> <<>>]   \* has no detector

RuleIds == {rule.id : rule \in UNION {ToSet(RuleTable[c]) : c \in DOMAIN RuleTable}}

\* "body" | "query" | "cookie", but the texts of cookies are located at
\* "cookie:<name>", so never one of them.
IsBodyOrQueryContext(text) == text.location \in {"body", "query"}

\* SQLI-002 also looks at the decoded text, SQLI-020 only at some texts.
Matches(id, text) ==
    /\ \/ id \in text.value.matches
       \/ id = "SQLI-002" /\ id \in text.value.encoded
    /\ id = "SQLI-020" => IsBodyOrQueryContext(text)

Hits(rules, text) == Filtered(rules, {i \in DOMAIN rules : Matches(rules[i].id, text)})

Scan(rules, texts) == FlattenSeq([i \in DOMAIN texts |-> Hits(rules, texts[i])])
==============================================================================
