---------------------------- MODULE MCInspection ----------------------------
(* Requests from small parts: a path with or without something in it, up to    *)
(* three headers in each order, a body that is evidence or not UTF-8.  The     *)
(* second request has one or three cookies more, or a further header, in each  *)
(* order.                                                                      *)
EXTENDS Inspection

AllPatterns == RuleIds \cup BotPatterns

Plain       == [matches |-> {}, encoded |-> {}, shape |-> "plain", says |-> {}]
With(found_patterns) == [Plain EXCEPT !.matches = found_patterns]
Empty       == [Plain EXCEPT !.shape = "empty"]

Indicator   == With({"universal_bot"})
Paths   == {Plain, With({"XSS-001", "SQLI-001"}), Indicator}
Bodies  == {Nothing, With({"SQLI-020", "SQLI-010"})}
Referer == [With({"referer_scanner"}) EXCEPT !.says = {"referer"}]
Encoded == [Plain EXCEPT !.encoded = {"scanner", "SQLI-002"}]

Named(name, value) == [name |-> name, value |-> value, first |-> value]
HeaderSets ==
    {{Named("host", Plain), Named("user-agent", agent)} :
        agent \in {Plain, Empty, With({"scanner"})}}
    \cup {{Named("user-agent", Plain), Named("x-a", value), Named("referer", Plain)} :
        value \in {Plain, Indicator, Encoded}}
    \cup {{Named("content-type", Indicator), Named("x-a", Encoded)},
          {Named("content-type", Indicator), Named("user-agent", With({"scanner"}))},
          {Named("x-a", Indicator), Named("x-b", Indicator), Named("x-c", Indicator)},
          {Named("user-agent", Plain), Named("x-a", Indicator), Named("referer", Referer)}}

Requests1 ==
    {[path |-> p, query |-> IF p = Indicator THEN p ELSE Empty, headers |-> h, body |-> b, cookies |-> <<>>] :
        p \in Paths, h \in UNION {SetToSeqs(H) : H \in HeaderSets}, b \in Bodies}

Called(name, value) == [name |-> name, value |-> value]
CookieSets ==
    {{}} \cup {{Called("c-a", value)} : value \in {With({"XSS-005"}), Indicator, Referer,
                                                 With({"SSRF-001", "CMDI-002"})}}
         \cup {{Called("c-a", Indicator), Called("c-b", Indicator), Called("c-c", value)} :
                   value \in {Indicator, Referer}}
HeaderExtras == {{}, {Named("x-d", Referer)}, {Named("accept", Indicator)}}

\* The same in another order, cookies more, or a header more.
Variants1(req) ==
    {[req EXCEPT !.headers = h] :
        h \in UNION {SetToSeqs(ToSet(req.headers) \cup H) : H \in HeaderExtras}}
    \cup {[req EXCEPT !.cookies = c] :
        c \in UNION {SetToSeqs(ToSet(req.cookies) \cup C) : C \in CookieSets}}

DefaultOrder == <<"SqlInjection", "Xss", "CommandInjection", "LfiRfi", "Ssti", "Ssrf",
                  "Deserialization", "HeaderInjection", "PathTraversal",
                  "ProtocolViolation", "BotChallenge">>
AllCategories == ToSet(DefaultOrder)
DefaultWeights ==
    [SqlInjection |-> 30, Xss |-> 25, CommandInjection |-> 35, LfiRfi |-> 30, Ssti |-> 30,
     Ssrf |-> 25, Deserialization |-> 35, HeaderInjection |-> 20, PathTraversal |-> 20,
     ProtocolViolation |-> 15, BotChallenge |-> 10]
=============================================================================
