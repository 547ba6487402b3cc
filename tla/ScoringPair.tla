----------------------------- MODULE ScoringPair -----------------------------
(* The scoring engine on two requests: the two evaluations take the same steps *)
(* side by side, with the same threshold.                                      *)
EXTENDS Scoring, SequencesExt

VARIABLES
    more,                                         \* the reports on the second
    more_total, more_threats, more_action

Second == INSTANCE Scoring WITH found <- more, total <- more_total,
                                threats <- more_threats, action <- more_action

pairVars == <<vars, more, more_total, more_threats, more_action>>

\* The second gave every detector all that the first gave it and perhaps more
\* after that.
Extended == \A c \in Categories : IsPrefix(found[c], more[c])

PairInit == Init /\ Second!Init

PairNext == \/ AddCategory /\ Second!AddCategory
            \/ Judge /\ Second!Judge
            \/ Override /\ Second!Override

PairSpec == PairInit /\ [][PairNext]_pairVars

\* Once both are done, a request that was blocked is still blocked when it
\* gives the detectors more on top (scoring.rs:169-201, engine.rs:79-91): the
\* cut to three hits, the cap at 100 and the order of the two tests never turn
\* further evidence into a pass.
MoreEvidenceNeverUnblocks ==
    Extended /\ stage = "done" /\ action # "Allow" => more_action # "Allow"

\* "max 3 hits per category to prevent score inflation" (scoring.rs:174): what a
\* detector reports beyond its third hit changes neither score nor decision.
RepetitionIsFree ==
    Extended /\ (\A c \in Categories : Len(found[c]) >= MaxHits \/ found[c] = more[c])
        => total = more_total /\ action = more_action
==============================================================================
