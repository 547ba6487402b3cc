----------------------------- MODULE Inspection -----------------------------
(* RuleEngine::evaluate (waf-core/src/engine.rs) from the request on: its      *)
(* texts, what the ten detectors report of them, and the verdict.              *)
(*                                                                             *)
(* Two requests are inspected side by side.  The second has the headers and    *)
(* cookies of the first and perhaps further ones, in whatever order its hash   *)
(* maps are iterated: what is new may come first.                              *)
EXTENDS ScoringPair, Parser, Detectors, BotDetection

CONSTANTS Inspected,         \* the requests
          Variants(_)        \* the second requests for a first one

\* What the second request of a pair may be.
Extends(req, other) == /\ ToSet(req.headers) \subseteq ToSet(other.headers)
                       /\ ToSet(req.cookies) \subseteq ToSet(other.cookies)
                       /\ other = [req EXCEPT !.headers = other.headers,
                                              !.cookies = other.cookies]
Reorders(req, other) == Extends(req, other) /\ Extends(other, req)

ASSUME CategoriesAssumption == Categories = DOMAIN RuleTable \cup {"BotChallenge"}
ASSUME InspectedAssumption  == Inspected \subseteq HttpRequest
ASSUME VariantsAssumption   == \A req \in Inspected : \A other \in Variants(req) :
                                  other \in HttpRequest /\ Extends(req, other)

VARIABLES request, variant

inspectionVars == <<pairVars, request, variant>>

Report(c, texts) ==
    LET reported == IF c = "BotChallenge" THEN ScanForBots(texts)
                    ELSE Scan(RuleTable[c], texts)
    IN  [i \in DOMAIN reported |-> reported[i].confidence]

Found(req) == LET texts == SearchableText(req)
              IN  [c \in Categories |-> Report(c, texts)]

InspectionInit ==
    /\ request \in Inspected
    /\ variant \in Variants(request)
    /\ found = Found(request)
    /\ more = Found(variant)
    /\ Init
    /\ Second!Init

InspectionNext == PairNext /\ UNCHANGED <<request, variant>>

InspectionSpec == InspectionInit /\ [][InspectionNext]_inspectionVars

(***************************** properties **************************************)

\* A request that is blocked for its score is still blocked with further headers
\* and cookies, wherever they are iterated, although what the bot detector
\* reports then may be less: an indicator in a header is suppressed once a
\* scanner is found (bot_detection.rs:308), and only because that scanner is at
\* or above the confidence threshold does the request not profit (engine.rs:84);
\* 90 is what a scanner in a referer is worth.  A request that is blocked for one
\* match alone has no such protection: see AnyHighConfidenceBlocks.
MoreTextNeverUnblocks ==
    /\ HighConfidence <= 90
    /\ stage = "done" /\ action = "ThreatScoreExceeded"
    => more_action # "Allow"

\* Headers and cookies are searched in the order of hash maps, which differs
\* from one process to the next (parser.rs:145,153).  The order can decide which
\* threats of a category are the three that count, but never the score.
ScoreIgnoresOrder ==
    stage = "done" /\ Reorders(request, variant) => total = more_total

Quiet(text) == /\ text.value.matches = {} /\ text.value.encoded = {}
               /\ PassesFor("user-agent", text) => text.value.shape = "plain"

\* A request with nothing to find in it, from a client that names itself, is
\* let through with any threshold above the points of one bot threat: all that
\* it can be given is the missing Host header (bot_detection.rs:251), once, at a
\* confidence of 45.
QuietRequestPasses ==
    /\ HighConfidence > 45
    /\ stage = "done"
    /\ \A text \in ToSet(SearchableText(request)) : Quiet(text)
    /\ threshold > Weight["BotChallenge"]
    => action = "Allow"
==============================================================================
