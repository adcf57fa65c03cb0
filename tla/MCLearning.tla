----------------------------- MODULE MCLearning -----------------------------
(***************************************************************************)
(* Small instances of CandidateReview, with the verdicts OutcomeJudgement   *)
(* gives of some situations, and of ValueFeedback.  They have no state in   *)
(* common: a choice made at the start tells which of the two goes on, while *)
(* the other stays at its beginning.                                        *)
(***************************************************************************)
EXTENDS CandidateReview, ValueFeedback, TLC

J == INSTANCE OutcomeJudgement

\* What is seen of each kind of event when it is judged, so that the verdicts
\* lie on different sides of the thresholds of the buffer and the review: the
\* decision had its effect, or the guard kept it from having one; the effect
\* is felt and one of its thoughts came, or nothing did; all, one or none of
\* the two patterns predicted came, or the prediction shows only itself.
MCSeen(kind) == [kind |-> kind, age |-> 2, before |-> [pain |-> 0], now |-> [pain |-> 0],
                 expects |-> <<>>]
MCDecision(effects) ==
    MCSeen("decision") @@ [effect |-> "e", effects |-> effects, activation |-> 0]
MCEffect(activation, came) ==
    MCSeen("effect") @@ [activation |-> activation, memory |-> FALSE,
                            thoughts |-> <<[framed |-> came, activation |-> 0],
                                           [framed |-> FALSE, activation |-> 0]>>]
MCPrediction(shown) == MCSeen("prediction") @@ [ttl |-> 6, predicted |-> {"p", "q"}, shown |-> shown]
MCBehind(own, after) == <<[own |-> own, after |-> after,
                           marker |-> IF own THEN "prediction" ELSE "raw_input_write"]>>

MCEvents ==
    [decision |-> {MCDecision({"e"})},
     effect |-> {MCEffect(30, TRUE), MCEffect(0, FALSE)},
     barren |-> {MCDecision({})},
     prediction |-> {MCPrediction([p |-> MCBehind(FALSE, 1), q |-> MCBehind(FALSE, 2)]),
                     MCPrediction([p |-> MCBehind(FALSE, 1), q |-> MCBehind(FALSE, 0)]),
                     MCPrediction([p |-> MCBehind(TRUE, 0), q |-> MCBehind(TRUE, 0)])},
     mode |-> {MCDecision({"e"})}]

MCVerdicts ==
    [kind \in DOMAIN MCEvents |->
        {J!Judge(e) @@ [borne |-> J!Borne(e)] : e \in MCEvents[kind]}]

-----------------------------------------------------------------------------
VARIABLE component      \* "review" or "value"

\* Evidence of a target reached and felt to be useful, of harm done to one to
\* avoid, and of failures of something else nearby in spite of usefulness; and
\* none.
MCNear(status, own) ==
    [own |-> own, of |-> 0, kind |-> "decision", after |-> 1, status |-> status,
     mentions |-> own]
MCShows(dims) == [about |-> TRUE, of |-> 0, after |-> 1, shows |-> dims]
MCSilence == [effects |-> <<>>, outcomes |-> <<>>, signals |-> <<>>, entry |-> <<>>,
              active |-> FALSE, avoid |-> FALSE, mechanism |-> 800]
MCEvidence ==
    {MCSilence,
     [MCSilence EXCEPT !.outcomes = <<MCNear("confirmed", TRUE)>>,
                       !.effects = <<[own |-> TRUE, mentions |-> TRUE]>>,
                       !.signals = <<MCShows([usefulness |-> 900, safety |-> 600])>>],
     [MCSilence EXCEPT !.avoid = TRUE,
                       !.outcomes = <<MCNear("failed", TRUE)>>,
                       !.signals = <<MCShows([harmfulness |-> 1000, avoid |-> 1000])>>],
     [MCSilence EXCEPT !.outcomes = <<MCNear("failed", FALSE), MCNear("failed", FALSE)>>,
                       !.entry = [usefulness |-> 900]]}

ASSUME InstanceAssumption == ReviewAssumption /\ ValueAssumption

MCInit ==
    /\ Init
    /\ ValueInit
    /\ component \in {"review", "value"}
    /\ component = "review" => allowed

MCNext ==
    \/ component = "review" /\ Next /\ UNCHANGED <<component, valueVars>>
    \/ component = "value" /\ ValueNext /\ UNCHANGED <<component, vars>>

MCSpec == MCInit /\ [][MCNext]_<<component, vars, valueVars>>
=============================================================================
