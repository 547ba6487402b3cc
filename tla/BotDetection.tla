----------------------------- MODULE BotDetection -----------------------------
(* BotDetectionDetector::scan (waf-core/src/rules/bot_detection.rs): the tests *)
(* made of each text, the one made of the whole request, and the suppression   *)
(* of duplicates that follows.                                                 *)
(*                                                                             *)
(* RefererAsWeak, AnomaliesPerHeader and DuplicateOfEarlier are wrong versions *)
(* of the definitions that follow them, used to see that the properties notice *)
EXTENDS Naturals, Parser

BotPatterns == {"scanner", "referer_scanner", "universal_bot"}

\* BOT-003 is located where its text is, all others among the headers.
Threat(id, confidence, location) ==
    [id |-> id, confidence |-> confidence, location |-> location]
InHeaders(id, confidence) == <<Threat(id, confidence, "header")>>

MapLocation(location) == IF location = "content_type" THEN "path" ELSE location

\* The pattern of line 24 does not compile, because regex has no look-ahead, and
\* what compile_regex puts in its place matches the empty text.
MatchesScanner(value) == "scanner" \in value.matches \/ value.shape = "empty"

\* A text passes for a header when it begins with the name of it.
PassesFor(name, text) == \/ text.location = "header" /\ text.name = name
                         \/ name \in text.value.says

OfAgent(text) ==
    IF PassesFor("user-agent", text) /\ MatchesScanner(text.value)
    THEN InHeaders("BOT-001", 95) ELSE <<>>
RefererAsWeak(text) ==
    IF PassesFor("referer", text) /\ "referer_scanner" \in text.value.matches
    THEN InHeaders("BOT-002", 85) ELSE <<>>
OfReferer(text) ==
    IF PassesFor("referer", text) /\ "referer_scanner" \in text.value.matches
    THEN InHeaders("BOT-002", 90) ELSE <<>>
OfAnyText(text) ==
    IF "universal_bot" \in text.value.matches
    THEN <<Threat("BOT-003", 75, MapLocation(text.location))>> ELSE <<>>
\* What has nothing to decode passes hex_decode as it is, so a fingerprint in
\* clear is found here as well.
OfEncoded(text) ==
    IF text.location = "header" /\ "scanner" \in text.value.matches \cup text.value.encoded
    THEN InHeaders("BOT-004", 85) ELSE <<>>

\* analyze_ua_anomaly
Anomaly(text) ==
    IF ~PassesFor("user-agent", text) THEN <<>>
    ELSE CASE text.value.shape = "empty"    -> InHeaders("BOT-010", 60)
           [] text.value.shape = "nulls"    -> InHeaders("BOT-011", 90)
           [] text.value.shape = "controls" -> InHeaders("BOT-012", 75)
           [] text.value.shape = "single"   -> InHeaders("BOT-013", 50)
           [] OTHER                         -> <<>>

OfText(text) == OfAgent(text) \o OfReferer(text) \o OfAnyText(text) \o OfEncoded(text)
                \o Anomaly(text)

HeadersOf(texts) == Filtered(texts, {i \in DOMAIN texts : texts[i].location = "header"})
HasHost(texts) == \E i \in DOMAIN texts : /\ texts[i].location = "header"
                                          /\ texts[i].name = "host"
                                          /\ texts[i].value.shape # "empty"

\* One threat for each header.
AnomaliesPerHeader(texts) ==
    IF HasHost(texts) THEN <<>>
    ELSE FlattenSeq([i \in DOMAIN HeadersOf(texts) |-> InHeaders("BOT-020", 45)])

\* Searched texts never include the Host header, so it always seems missing.
ProtocolAnomalies(texts) ==
    IF Len(HeadersOf(texts)) >= 2 /\ ~HasHost(texts) THEN InHeaders("BOT-020", 45)
    ELSE <<>>

Scanner(threat) == threat.id \in {"BOT-001", "BOT-002"}
Weak(threat)    == threat.id \in {"BOT-003", "BOT-004"} /\ threat.confidence < 85

\* Looks only at the signs that came before.
DuplicateOfEarlier(i, signs) ==
    /\ Weak(signs[i])
    /\ \E j \in 1..i : Scanner(signs[j]) /\ signs[j].location = signs[i].location

\* A weak indicator counts for nothing at the location where a scanner was found.
Duplicate(i, signs) ==
    /\ Weak(signs[i])
    /\ \E j \in DOMAIN signs :
          Scanner(signs[j]) /\ signs[j].location = signs[i].location

Deduplicated(signs) ==
    Filtered(signs, {i \in DOMAIN signs : ~Duplicate(i, signs)})

ScanForBots(texts) ==
    Deduplicated(FlattenSeq([i \in DOMAIN texts |-> OfText(texts[i])])
                 \o ProtocolAnomalies(texts))
==============================================================================
