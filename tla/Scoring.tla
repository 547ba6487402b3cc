------------------------------- MODULE Scoring -------------------------------
(* What the rule engine makes of the threats its detectors report for one      *)
(* request: ScoringEngine::evaluate (waf-core/src/scoring.rs), then the        *)
(* direct-block override of RuleEngine::evaluate (waf-core/src/engine.rs).     *)
(*                                                                             *)
(* A threat is its confidence in percent, a detector's report the sequence of  *)
(* its threats in the order the texts of the request were scanned.             *)
(*                                                                             *)
(* TakenLast, PointsOfAll, JudgeUncapped and AlwaysReachable are wrong         *)
(* versions of the definitions that follow them, used to see that the          *)
(* properties notice.                                                          *)
EXTENDS Naturals, Sequences

CONSTANTS
    Categories,      \* the categories of threats
    Order,           \* the order in which evaluate adds them
    Weight,          \* category -> points per hit, clamped by sanitize()
    Thresholds,      \* values of threat_threshold
    HighConfidence   \* high_confidence_threshold, in percent

MaxScore == 100      \* MAX_POSSIBLE_SCORE
MaxHits  == 3

Reports == Seq(0..100)

ASSUME OrderAssumption      == /\ Order \in Seq(Categories)
                               /\ \A i, j \in DOMAIN Order : Order[i] = Order[j] => i = j
ASSUME WeightAssumption     == Weight \in [Categories -> 0..100]
ASSUME ThresholdAssumption  == Thresholds \subseteq Nat
ASSUME ConfidenceAssumption == HighConfidence \in 0..100

VARIABLES
    found,      \* category -> the report of its detector
    threshold,
    next,       \* the category that is added next
    total,
    threats,    \* the confidences of the threats that were taken
    stage,      \* where the evaluation is
    action

evaluation == <<next, total, threats, stage, action>>
vars == <<found, threshold, evaluation>>

Init == /\ found \in [Categories -> Reports]
        /\ threshold \in Thresholds
        /\ next = 1
        /\ total = 0
        /\ threats = {}
        /\ stage = "add"
        /\ action = "Allow"

AtMost(n, bound) == IF n <= bound THEN n ELSE bound

Confidences(report) == {report[i] : i \in DOMAIN report}

\* Takes the last three.
TakenLast(report) ==
    SubSeq(report, Len(report) + 1 - AtMost(Len(report), MaxHits), Len(report))

\* The first three threats of a report count, the rest are dropped.
Taken(report) == SubSeq(report, 1, AtMost(Len(report), MaxHits))

\* Every threat scores.
PointsOfAll(c, report) == Weight[c] * Len(report)
Points(c, report)      == Weight[c] * Len(Taken(report))

\* add_category!
AddCategory ==
    LET c == Order[next]
    IN  /\ stage = "add" /\ next <= Len(Order)
        /\ total' = total + Points(c, found[c])
        /\ threats' = threats \cup Confidences(Taken(found[c]))
        /\ next' = next + 1
        /\ UNCHANGED <<found, threshold, stage, action>>

\* Compares the score, but forgets to cap what it returns.
JudgeUncapped ==
    /\ stage = "add" /\ next > Len(Order)
    /\ action' = IF AtMost(total, MaxScore) >= threshold
                 THEN "ThreatScoreExceeded" ELSE "Allow"
    /\ stage' = "override"
    /\ UNCHANGED <<found, threshold, next, total, threats>>

\* The cap and the comparison with the threshold.
Judge ==
    /\ stage = "add" /\ next > Len(Order)
    /\ total' = AtMost(total, MaxScore)
    /\ action' = IF total' >= threshold THEN "ThreatScoreExceeded" ELSE "Allow"
    /\ stage' = "override"
    /\ UNCHANGED <<found, threshold, next, threats>>

AlwaysReachable == TRUE
IsThresholdReachable == threshold <= MaxScore

\* One of the threats taken may be certain enough on its own.
Override ==
    /\ stage = "override"
    /\ action' = IF /\ action = "Allow"
                    /\ IsThresholdReachable
                    /\ \E t \in threats : t >= HighConfidence
                 THEN "DirectBlock" ELSE action
    /\ stage' = "done"
    /\ UNCHANGED <<found, threshold, next, total, threats>>

Next == AddCategory \/ Judge \/ Override
Spec == Init /\ [][Next]_vars

Actions == {"Allow", "ThreatScoreExceeded", "DirectBlock"}

\* The types of the state; the score that is reported is one of 0..100.
TypeOK == /\ found \in [Categories -> Reports]
          /\ threshold \in Thresholds
          /\ next \in 1..(Len(Order) + 1)
          /\ total \in Nat
          /\ stage # "add" => total <= MaxScore
          /\ threats \subseteq 0..100
          /\ stage \in {"add", "override", "done"}
          /\ action \in Actions

\* "An elevated threshold above the max possible score (100) indicates an
\* explicit pass-all policy that must not be overridden" (engine.rs:76): with
\* such a threshold no score and no confidence blocks a request.
PassAllHonoured == threshold > MaxScore => action = "Allow"

\* "Any single match at >= this confidence forces a direct block"
\* (README.md:115), unless the threshold is out of reach.
AnyHighConfidenceBlocks ==
    /\ stage = "done" /\ IsThresholdReachable
    /\ \E c \in Categories : \E t \in Confidences(found[c]) : t >= HighConfidence
    => action # "Allow"
==============================================================================
