---------------------------- MODULE Scoring_proofs ----------------------------
(* Proofs about the scoring engine, for any categories, weights of at most 100,*)
(* thresholds and reports of any length.                                       *)
EXTENDS ScoringPair, SequenceTheorems, TLAPS

(*************************** reports and points ********************************)

\* The elements of a sequence over S are in S.
LEMMA ElementsInRange ==
    ASSUME NEW S, NEW s \in Seq(S)
    PROVE  \A i \in DOMAIN s : s[i] \in S
OBVIOUS

\* The first n elements of a sequence.
LEMMA FirstElements ==
    ASSUME NEW S, NEW s \in Seq(S), NEW n \in 0..Len(s)
    PROVE  /\ SubSeq(s, 1, n) \in Seq(S)
           /\ Len(SubSeq(s, 1, n)) = n
           /\ \A i \in 1..n : SubSeq(s, 1, n)[i] = s[i]
<1>1. \A i \in 1..n : s[i] \in S
  OBVIOUS
<1> QED BY <1>1, SubSeqProperties, SMTT(20)

\* A prefix agrees with what it is a prefix of.
LEMMA PrefixAgrees ==
    ASSUME NEW S, NEW r \in Seq(S), NEW s \in Seq(S), IsPrefix(r, s)
    PROVE  /\ Len(r) <= Len(s)
           /\ \A i \in 1..Len(r) : r[i] = s[i]
<1>1. Len(r) <= Len(s) /\ SubSeq(r, 1, Len(r)) = SubSeq(s, 1, Len(r))
  BY DEF IsPrefix
<1>2. \A i \in 1..Len(r) : SubSeq(r, 1, Len(r))[i] = r[i]
  BY FirstElements
<1>3. \A i \in 1..Len(r) : SubSeq(s, 1, Len(r))[i] = s[i]
  BY <1>1, FirstElements
<1> QED BY <1>1, <1>2, <1>3

\* How many threats of a report are taken.
LEMMA HitsOfLength ==
    ASSUME NEW n \in Nat
    PROVE  /\ AtMost(n, MaxHits) \in 0..3
           /\ AtMost(n, MaxHits) \in 0..n
           /\ n >= MaxHits => AtMost(n, MaxHits) = MaxHits
           /\ \A m \in Nat : n <= m => AtMost(n, MaxHits) <= AtMost(m, MaxHits)
BY DEF AtMost, MaxHits

\* The threats taken are the first ones, at most three.
LEMMA TakenReport ==
    ASSUME NEW r \in Seq(0..100)
    PROVE  /\ Taken(r) \in Seq(0..100)
           /\ Len(Taken(r)) = AtMost(Len(r), MaxHits)
           /\ \A i \in 1..AtMost(Len(r), MaxHits) : Taken(r)[i] = r[i]
           /\ Confidences(Taken(r)) \subseteq 0..100
<1> DEFINE n == AtMost(Len(r), MaxHits)
<1>1. n \in 0..Len(r)
  BY DEF AtMost, MaxHits
<1>2. /\ Taken(r) \in Seq(0..100)
      /\ Len(Taken(r)) = n
      /\ \A i \in 1..n : Taken(r)[i] = r[i]
  BY <1>1, FirstElements DEF Taken
<1>3. Confidences(Taken(r)) \subseteq 0..100
  <2>1. \A i \in DOMAIN Taken(r) : Taken(r)[i] \in 0..100
    BY <1>2, ElementsInRange
  <2> QED BY <2>1 DEF Confidences
<1> QED BY <1>2, <1>3

\* More hits are worth at least as much: the products written out, since the
\* solver knows nothing of a product of variables.
LEMMA HitsAreMonotone ==
    ASSUME NEW w \in 0..100, NEW m \in 0..3, NEW n \in 0..3, m <= n
    PROVE  w * m \in Nat /\ w * m <= w * n
<1>1. w * 0 = 0 /\ w * 1 = w /\ w * 2 = w + w /\ w * 3 = w + w + w
  OBVIOUS
<1>2. m = 0 \/ m = 1 \/ m = 2 \/ m = 3
  OBVIOUS
<1>3. n = 0 \/ n = 1 \/ n = 2 \/ n = 3
  OBVIOUS
<1> QED BY <1>1, <1>2, <1>3

\* The points of a category are a number, whatever the report.
LEMMA PointsType ==
    ASSUME NEW c \in Categories, NEW r \in Reports
    PROVE  Points(c, r) \in Nat
<1>1. Len(Taken(r)) \in 0..3
  <2>1. r \in Seq(0..100) /\ Len(r) \in Nat
    BY DEF Reports
  <2> QED BY <2>1, TakenReport, HitsOfLength
<1>2. Weight[c] \in 0..100
  BY WeightAssumption
<1>3. Len(Taken(r)) <= Len(Taken(r))
  BY <1>1
<1>4. Weight[c] * Len(Taken(r)) \in Nat
  BY <1>1, <1>2, <1>3, HitsAreMonotone
<1> QED BY <1>4 DEF Points

\* A longer report scores at least as much and has all the threats taken from a
\* prefix of it.
LEMMA LongerReport ==
    ASSUME NEW c \in Categories, NEW r \in Reports, NEW s \in Reports,
           IsPrefix(r, s)
    PROVE  /\ Points(c, r) <= Points(c, s)
           /\ Confidences(Taken(r)) \subseteq Confidences(Taken(s))
<1> DEFINE m == Len(Taken(r))
           n == Len(Taken(s))
<1>1. r \in Seq(0..100) /\ s \in Seq(0..100)
  BY DEF Reports
<1>2. Len(r) <= Len(s) /\ \A i \in 1..Len(r) : r[i] = s[i]
  BY <1>1, PrefixAgrees
<1>3. m \in 0..3 /\ n \in 0..3 /\ m <= n /\ m <= Len(r)
  <2>1. m = AtMost(Len(r), MaxHits) /\ n = AtMost(Len(s), MaxHits)
    BY <1>1, TakenReport
  <2>2. Len(r) \in Nat /\ Len(s) \in Nat
    BY <1>1
  <2> HIDE DEF m, n
  <2> QED BY <1>2, <2>1, <2>2, HitsOfLength
<1>4. Weight[c] * m <= Weight[c] * n
  <2>1. Weight[c] \in 0..100
    BY WeightAssumption
  <2> HIDE DEF m, n
  <2> QED BY <1>3, <2>1, HitsAreMonotone
<1>5. \A i \in 1..m : Taken(r)[i] = Taken(s)[i]
  <2>1. /\ \A i \in 1..m : Taken(r)[i] = r[i]
        /\ \A i \in 1..n : Taken(s)[i] = s[i]
    BY <1>1, TakenReport
  <2> HIDE DEF m, n
  <2> QED BY <1>2, <1>3, <2>1
<1>6. Confidences(Taken(r)) \subseteq Confidences(Taken(s))
  <2>1. DOMAIN Taken(r) = 1..m /\ DOMAIN Taken(s) = 1..n
    BY <1>1, TakenReport
  <2> HIDE DEF m, n
  <2> QED BY <1>3, <1>5, <2>1 DEF Confidences
<1> QED BY <1>4, <1>6 DEF Points

\* What follows the third threat of a report changes nothing.
LEMMA FullReport ==
    ASSUME NEW r \in Reports, NEW s \in Reports, IsPrefix(r, s), Len(r) >= MaxHits
    PROVE  Taken(r) = Taken(s)
<1>1. r \in Seq(0..100) /\ s \in Seq(0..100)
  BY DEF Reports
<1>2. Len(r) <= Len(s) /\ \A i \in 1..Len(r) : r[i] = s[i]
  BY <1>1, PrefixAgrees
<1>3. AtMost(Len(r), MaxHits) = 3 /\ AtMost(Len(s), MaxHits) = 3
  <2>1. Len(r) \in Nat /\ Len(s) \in Nat /\ Len(s) >= MaxHits
    BY <1>1, <1>2 DEF MaxHits
  <2> QED BY <2>1, HitsOfLength DEF MaxHits
<1>4. /\ Taken(r) \in Seq(0..100) /\ Len(Taken(r)) = 3
      /\ Taken(s) \in Seq(0..100) /\ Len(Taken(s)) = 3
      /\ \A i \in 1..3 : Taken(r)[i] = r[i] /\ Taken(s)[i] = s[i]
  BY <1>1, <1>3, TakenReport
<1>5. \A i \in 1..3 : r[i] = s[i]
  BY <1>1, <1>2 DEF MaxHits
<1> QED BY <1>4, <1>5

(*************************** type correctness **********************************)

\* The scoring engine keeps its state of its types.
LEMMA EvaluationTypes ==
    ASSUME TypeOK, Next
    PROVE  TypeOK'
<1> USE DEF TypeOK, Actions
<1>1. CASE AddCategory
  <2>1. next \in 1..Len(Order) /\ Len(Order) \in Nat
    BY <1>1, OrderAssumption DEF AddCategory
  <2>2. Order[next] \in Categories
    BY <2>1, OrderAssumption
  <2>3. found[Order[next]] \in Reports
    BY <2>2
  <2>4. total' \in Nat
    BY <1>1, <2>2, <2>3, PointsType DEF AddCategory
  <2>5. threats' \subseteq 0..100
    BY <1>1, <2>3, TakenReport DEF AddCategory, Reports
  <2>6. next' \in 1..(Len(Order) + 1)
    BY <1>1, <2>1 DEF AddCategory
  <2> QED BY <1>1, <2>4, <2>5, <2>6 DEF AddCategory
<1>2. CASE Judge
  BY <1>2, OrderAssumption DEF Judge, AtMost, MaxScore
<1>3. CASE Override
  BY <1>3 DEF Override
<1> QED BY <1>1, <1>2, <1>3 DEF Next

\* The engine starts with its state of its types.
LEMMA InitialTypes ==
    ASSUME Init
    PROVE  TypeOK
BY OrderAssumption DEF Init, TypeOK, Actions

\* The scoring engine is type correct.
THEOREM ScoringTypes == Spec => []TypeOK
<1>1. Init => TypeOK
  BY InitialTypes
<1>2. TypeOK /\ [Next]_vars => TypeOK'
  <2>1. ASSUME TypeOK, UNCHANGED vars PROVE TypeOK'
    BY <2>1 DEF TypeOK, vars, evaluation
  <2> QED BY <2>1, EvaluationTypes
<1> QED BY <1>1, <1>2, PTL DEF Spec

(*************************** the pass-all policy *******************************)

\* A step of the engine keeps to the pass-all policy.
LEMMA PassAllKept ==
    ASSUME TypeOK, PassAllHonoured, Next
    PROVE  PassAllHonoured'
<1> USE ThresholdAssumption DEF PassAllHonoured, TypeOK, MaxScore
<1>1. CASE AddCategory
  BY <1>1 DEF AddCategory
<1>2. CASE Judge
  BY <1>2 DEF Judge, AtMost
<1>3. CASE Override
  BY <1>3 DEF Override, IsThresholdReachable
<1> QED BY <1>1, <1>2, <1>3 DEF Next

\* A threshold above the highest score lets every request through, whatever the
\* weights and the confidences (scoring.rs:149, engine.rs:81).
THEOREM PassAllPolicy == Spec => []PassAllHonoured
<1>1. Init => PassAllHonoured
  BY DEF Init, PassAllHonoured
<1>2. TypeOK /\ PassAllHonoured /\ [Next]_vars => PassAllHonoured'
  <2>1. ASSUME PassAllHonoured, UNCHANGED vars PROVE PassAllHonoured'
    BY <2>1 DEF vars, evaluation, PassAllHonoured
  <2> QED BY <2>1, PassAllKept
<1> QED BY <1>1, <1>2, ScoringTypes, PTL DEF Spec

(*************************** two requests compared *****************************)

\* Every report of the first request was full, or the same as the second's.
OnlyRepeated ==
    \A c \in Categories : Len(found[c]) >= MaxHits \/ found[c] = more[c]

\* The second evaluation has collected at least what the first has.
Collected == /\ total <= more_total
             /\ threats \subseteq more_threats
             /\ action # "Allow" => more_action # "Allow"

\* Both have collected the same.
Same == total = more_total /\ threats = more_threats /\ action = more_action

\* If its reports go on where the first one's end, the second evaluation is not
\* behind, and where it only had repetitions to add not ahead either.
PairInv == /\ TypeOK
           /\ Second!TypeOK
           /\ Extended => Collected
           /\ Extended /\ OnlyRepeated => Same

\* add_category! on both requests keeps the second ahead of the first.
LEMMA AddTogether ==
    ASSUME TypeOK, Second!TypeOK, Extended, AddCategory, Second!AddCategory
    PROVE  /\ Collected => Collected'
           /\ OnlyRepeated /\ Same => Same'
<1> DEFINE c == Order[next]
<1>1. c \in Categories
  BY OrderAssumption DEF AddCategory, TypeOK
<1>2. /\ found[c] \in Reports /\ more[c] \in Reports
      /\ IsPrefix(found[c], more[c])
  BY <1>1 DEF TypeOK, Second!TypeOK, Second!Reports, Reports, Extended
<1>3. /\ total' = total + Points(c, found[c])
      /\ threats' = threats \cup Confidences(Taken(found[c]))
      /\ more_total' = more_total + Points(c, more[c])
      /\ more_threats' = more_threats \cup Confidences(Taken(more[c]))
      /\ UNCHANGED <<found, more, action, more_action>>
  BY DEF AddCategory, Second!AddCategory, Points, Second!Points, Taken, Second!Taken,
         Confidences, Second!Confidences, AtMost, Second!AtMost, MaxHits, Second!MaxHits
<1>4. /\ Points(c, found[c]) \in Nat /\ Points(c, more[c]) \in Nat
      /\ Points(c, found[c]) <= Points(c, more[c])
      /\ Confidences(Taken(found[c])) \subseteq Confidences(Taken(more[c]))
  BY <1>1, <1>2, PointsType, LongerReport
<1>5. total \in Nat /\ more_total \in Nat
  BY DEF TypeOK, Second!TypeOK
<1>6. ASSUME Collected PROVE Collected'
  <2> HIDE DEF c
  <2>1. total <= more_total /\ threats \subseteq more_threats
    BY <1>6 DEF Collected
  <2>2. total' <= more_total' /\ threats' \subseteq more_threats'
    BY <1>3, <1>4, <1>5, <2>1
  <2> QED BY <1>3, <1>6, <2>2 DEF Collected
<1>7. ASSUME OnlyRepeated, Same PROVE Same'
  <2>1. Taken(found[c]) = Taken(more[c])
    BY <1>1, <1>2, <1>7, FullReport DEF OnlyRepeated
  <2> QED BY <1>3, <1>7, <2>1 DEF Points, Same
<1> QED BY <1>6, <1>7

\* The cap and the threshold, the same for both, keep the order.
LEMMA JudgeTogether ==
    ASSUME TypeOK, Second!TypeOK, Judge, Second!Judge
    PROVE  /\ Collected => Collected'
           /\ Same => Same'
<1>1. total \in Nat /\ more_total \in Nat /\ threshold \in Nat
  BY ThresholdAssumption DEF TypeOK, Second!TypeOK
<1>2. /\ total' = AtMost(total, MaxScore)
      /\ more_total' = AtMost(more_total, MaxScore)
      /\ action' = IF total' >= threshold THEN "ThreatScoreExceeded" ELSE "Allow"
      /\ more_action' = IF more_total' >= threshold THEN "ThreatScoreExceeded" ELSE "Allow"
      /\ UNCHANGED <<threats, more_threats>>
  BY DEF Judge, Second!Judge, AtMost, Second!AtMost, MaxScore, Second!MaxScore
<1>3. total' \in Nat /\ more_total' \in Nat
  BY <1>1, <1>2 DEF AtMost, MaxScore
<1>4. ASSUME Collected PROVE Collected'
  <2>1. total' <= more_total'
    BY <1>1, <1>2, <1>4 DEF AtMost, MaxScore, Collected
  <2>2. action' # "Allow" => more_action' # "Allow"
    BY <1>1, <1>2, <1>3, <2>1
  <2> QED BY <1>2, <1>4, <2>1, <2>2 DEF Collected
<1>5. ASSUME Same PROVE Same'
  BY <1>2, <1>5 DEF Same
<1> QED BY <1>4, <1>5

\* A threat certain enough to block the first request is among those of the
\* second.
LEMMA OverrideTogether ==
    ASSUME Override, Second!Override
    PROVE  /\ Collected => Collected'
           /\ Same => Same'
<1>1. /\ action' = IF /\ action = "Allow"
                      /\ IsThresholdReachable
                      /\ \E t \in threats : t >= HighConfidence
                   THEN "DirectBlock" ELSE action
      /\ more_action' = IF /\ more_action = "Allow"
                           /\ IsThresholdReachable
                           /\ \E t \in more_threats : t >= HighConfidence
                        THEN "DirectBlock" ELSE more_action
      /\ UNCHANGED <<total, more_total, threats, more_threats>>
  BY DEF Override, Second!Override, IsThresholdReachable, Second!IsThresholdReachable,
         MaxScore, Second!MaxScore
<1>2. Collected => Collected'
  BY <1>1 DEF Collected
<1>3. Same => Same'
  BY <1>1 DEF Same
<1> QED BY <1>2, <1>3

\* The engine keeps the state of the second evaluation of its types too.
LEMMA SecondTypes ==
    ASSUME TypeOK, Second!TypeOK, PairNext
    PROVE  Second!TypeOK'
<1> USE DEF Second!TypeOK, Second!Actions, Actions
<1>1. CASE AddCategory /\ Second!AddCategory
  <2>1. next \in 1..Len(Order) /\ Len(Order) \in Nat
    BY <1>1, OrderAssumption DEF AddCategory, TypeOK
  <2>2. Order[next] \in Categories
    BY <2>1, OrderAssumption
  <2>3. more[Order[next]] \in Reports
    BY <2>2 DEF Second!TypeOK, Second!Reports, Reports
  <2>4. /\ more_total' = more_total + Points(Order[next], more[Order[next]])
        /\ more_threats' = more_threats \cup Confidences(Taken(more[Order[next]]))
        /\ next' = next + 1
        /\ stage = "add" /\ UNCHANGED <<more, threshold, stage, more_action>>
    BY <1>1 DEF Second!AddCategory, Points, Second!Points, Taken, Second!Taken,
                Confidences, Second!Confidences, AtMost, Second!AtMost,
                MaxHits, Second!MaxHits
  <2>5. more_total' \in Nat
    BY <2>2, <2>3, <2>4, PointsType
  <2>6. more_threats' \subseteq 0..100
    BY <2>3, <2>4, TakenReport DEF Reports
  <2>7. next' \in 1..(Len(Order) + 1)
    BY <2>1, <2>4
  <2> QED BY <2>4, <2>5, <2>6, <2>7
<1>2. CASE Judge /\ Second!Judge
  BY <1>2, OrderAssumption DEF Second!Judge, Second!AtMost, Second!MaxScore
<1>3. CASE Override /\ Second!Override
  BY <1>3 DEF Second!Override
<1> QED BY <1>1, <1>2, <1>3 DEF PairNext

\* Two evaluations start alike.
LEMMA PairStart ==
    ASSUME PairInit
    PROVE  PairInv
<1>1. TypeOK
  BY InitialTypes DEF PairInit
<1>2. Second!TypeOK
  BY OrderAssumption DEF PairInit, Second!Init, Second!TypeOK, Second!Actions
<1>3. /\ total = 0 /\ more_total = 0 /\ threats = {} /\ more_threats = {}
      /\ action = "Allow" /\ more_action = "Allow"
  BY DEF PairInit, Init, Second!Init
<1> QED BY <1>1, <1>2, <1>3 DEF PairInv, Collected, Same

\* The comparison holds throughout.
LEMMA PairInvariant == PairSpec => []PairInv
<1>1. PairInit => PairInv
  BY PairStart
<1>2. PairInv /\ [PairNext]_pairVars => PairInv'
  <2> SUFFICES ASSUME PairInv, [PairNext]_pairVars PROVE PairInv'
    OBVIOUS
  <2>1. CASE PairNext
    <3>1. TypeOK' /\ Second!TypeOK'
      BY <2>1, EvaluationTypes, SecondTypes DEF PairInv, PairNext, Next
    <3>2. UNCHANGED <<found, more>>
      BY <2>1 DEF PairNext, AddCategory, Judge, Override,
                  Second!AddCategory, Second!Judge, Second!Override
    <3>3. (Extended' <=> Extended) /\ (OnlyRepeated' <=> OnlyRepeated)
      BY <3>2 DEF Extended, OnlyRepeated
    <3>4. ASSUME Extended PROVE Collected'
      BY <2>1, <3>4, AddTogether, JudgeTogether, OverrideTogether DEF PairInv, PairNext
    <3>5. ASSUME Extended, OnlyRepeated PROVE Same'
      BY <2>1, <3>5, AddTogether, JudgeTogether, OverrideTogether DEF PairInv, PairNext
    <3> QED BY <3>1, <3>3, <3>4, <3>5 DEF PairInv
  <2>2. CASE UNCHANGED pairVars
    BY <2>2 DEF pairVars, vars, evaluation, PairInv, TypeOK, Second!TypeOK,
                Extended, OnlyRepeated, Collected, Same
  <2> QED BY <2>1, <2>2
<1> QED BY <1>1, <1>2, PTL DEF PairSpec

\* Whatever a request gives the detectors on top of what got it blocked, it is
\* still blocked: for any categories, weights, threshold and reports
\* (scoring.rs:169-201, engine.rs:79-91).
THEOREM EvidenceNeverUnblocks == PairSpec => []MoreEvidenceNeverUnblocks
<1>1. PairInv => MoreEvidenceNeverUnblocks
  BY DEF PairInv, MoreEvidenceNeverUnblocks, Collected
<1> QED BY <1>1, PairInvariant, PTL

\* The fourth hit of a category and those after it are worth nothing
\* (scoring.rs:174), in score or in decision.
THEOREM RepetitionIsWorthNothing == PairSpec => []RepetitionIsFree
<1>1. PairInv => RepetitionIsFree
  BY DEF PairInv, OnlyRepeated, RepetitionIsFree, Same
<1> QED BY <1>1, PairInvariant, PTL

\* Each of two evaluations side by side is an evaluation of its own: comparing
\* them takes nothing from either.
THEOREM PairIsTwoEvaluations == PairSpec => Spec /\ Second!Spec
<1>1. PairInit => Init /\ Second!Init
  BY DEF PairInit
<1>2. [PairNext]_pairVars => [Next]_vars
  BY DEF PairNext, Next, pairVars
<1>3. [PairNext]_pairVars => [Second!Next]_(Second!vars)
  BY DEF PairNext, Second!Next, pairVars, vars, evaluation, Second!vars, Second!evaluation
<1> QED BY <1>1, <1>2, <1>3, PTL DEF PairSpec, Spec, Second!Spec
==============================================================================
