------------------------- MODULE MCEvaluationChain -------------------------
(***************************************************************************)
(* EvaluationChain with one operation or a few of every kind the field      *)
(* updater knows, each in the phase that posts it.                         *)
(***************************************************************************)
EXTENDS EvaluationChain

Ev(marker, kind, amount, ttl, more) ==
    [marker |-> marker, kind |-> kind, amount |-> amount, ttl |-> ttl] @@ more

Tense == [CalmTone EXCEPT !.tension = 700, !.integrity = 900]
Content == [CalmTone EXCEPT !.stability = 850]

BeginFeed == {
    <<Ev("labels", "risk", 600, 3, [rate |-> 100])>>,
    <<Ev("labels", "rhythm", 400, NoTtl, [rate |-> 200]),
      Ev("predictions", "bad_state", 500, 2, [rate |-> 100, predicted |-> <<"high_tension", "risk">>])>>,
    <<Ev("neuromodulation_updates", "tone", 500, 4, [tone |-> Tense, patterns |-> <<>>]),
      Ev("self_generated_thought", "thought", 600, 3, [rate |-> 150, patterns |-> <<"risk">>])>>}

Decided(kind, source, rivals) ==
    Ev("decisions", kind, 700, 2, [source |-> source, rivals |-> rivals])
Change(status, amount, ttl, reasons) ==
    Ev("system_mode_changes", "mode", amount, ttl, [status |-> status, patterns |-> reasons])

ActFeed == {
    <<Decided("act", "expsm_activation",
        << [experience |-> "e1", activation |-> 1, action |-> "act", selected |-> TRUE],
           [experience |-> "e2", activation |-> 2, action |-> "wait", selected |-> FALSE] >>),
      Ev("effects", "state_integrity_preserved", 700, 5,
         [thoughts |-> <<"thought">>, secondary |-> <<"state_load_reduced", "calm">>])>>,
    <<Decided("act", "rule", <<>>),
      Ev("effects", "state_action_blocked", 600, NoTtl, [thoughts |-> <<>>, secondary |-> <<>>])>>,
    <<Decided(EnterAction, "rule", <<>>), Change("consolidation", 1000, 8, <<"pressure_high">>)>>,
    <<Decided("reduce_load", "rule", <<>>),
      Ev("effects", "state_load_reduced", 800, 4, [thoughts |-> <<>>, secondary |-> <<>>]),
      Change("recovery", 900, 5, <<ModePattern("consolidation")>>)>>,
    <<Change("active", 850, 4, <<>>)>>,
    <<Ev("consolidation_pressures", "pressure", 500, 6,
         [status |-> "pressure_medium", patterns |-> <<"pressure_high">>]),
      Ev("expsm_update_reviews", "update_review", 700, 14, [status |-> "ready"]),
      Decided(StoreAction, "rule", <<>>),
      Ev("decision_audits", "audit", 450, 8, [patterns |-> <<"confident">>]),
      Ev("action_guard_audits", "guard", 450, 8,
         [patterns |-> <<"low">>, allowed |-> TRUE, blocked |-> FALSE]),
      Ev("decision_cycle_summaries", "cycle", 450, 8,
         [status |-> "clean", confidence |-> "high", patterns |-> <<"single">>])>>}

StoreFeed == {
    <<Ev("consolidation_candidates", "candidate", 600, 12,
         [pending |-> TRUE, valence |-> -1, refs |-> <<"act">>]),
      Ev("memory_write_reviews", "review", 600, 14, [status |-> "approved", patterns |-> <<"act">>]),
      Ev("memory_draft_writes", "draft", 700, 12, [status |-> "draft_created"]),
      Ev("memory_draft_writes", "draft", 700, 12, [status |-> "draft_merged"]),
      Ev("memory_draft_commit_reviews", "gate", 700, 16, [status |-> "ready", patterns |-> <<"calm">>]),
      Ev("memory_commits", "commit", 800, 18, <<>>),
      Ev("committed_draft_observations", "seen", 700, 12, [pending |-> TRUE]),
      Ev("memory_updates", "update", 800, 18, [status |-> "metadata_only"])>>}

OutcomeOf(status, amount, ttl, matched, missing) ==
    Ev("outcomes", "outcome_" \o status, amount, ttl,
       [status |-> status, matched |-> matched, missing |-> missing])
Failed == OutcomeOf("failed", 600, 4, <<>>, <<"calm", "act">>)
Confirmed == OutcomeOf("confirmed", 700, 4, <<"calm">>, <<>>)
Inconclusive == OutcomeOf("inconclusive", 300, NoTtl, <<>>, <<>>)
Feedback(status) ==
    Ev("expsm_feedback", "feedback", 700, 12,
       [status |-> status, action |-> "act", matched |-> <<>>])
EvaluateFeed ==
    {<<Failed>>, <<Confirmed>>, <<Inconclusive>>,
     <<Failed, Feedback("miss")>>, <<Confirmed, Feedback("hit")>>}

CloseFeed == {
    <<Ev("experience_candidates", "candidate", 500, 8,
         [status |-> "new", pending |-> TRUE, refs |-> <<"act", "calm">>]),
      Ev("target_satisfaction_observations", "seen", 550, 10,
         [status |-> "satisfied", positive |-> TRUE, negative |-> FALSE, p |-> "calm", score |-> 600])>>,
    <<Ev("value_feedback_candidates", "positive", 550, 10, [operation |-> "strengthen"]),
      Ev("value_feedback_reviews", "review", 500, 12,
         [status |-> "approved", ready |-> TRUE, reason |-> "strong"]),
      Ev("value_feedback_updates", "update", 500, 12, [status |-> "mixed_or_unclear"]),
      Ev("neuromodulation_updates", "tone", 500, 4,
         [tone |-> Content, patterns |-> <<"recovery_needed">>])>>}

MCFeed(of) ==
    CASE of = "begin" -> BeginFeed
      [] of = "act" -> ActFeed
      [] of = "store" -> StoreFeed
      [] of = "evaluate" -> EvaluateFeed
      [] of = "close" -> CloseFeed

Edge(from, to, weight) == [from |-> from, to |-> to, type |-> "near", weight |-> weight]
MCEdges == << Edge("outcome_failed", "calm", 800), Edge("calm", "act", 500),
              Edge("outcome_failed", "act", 0), Edge("act", "outcome_failed", 900) >>

NoValue == [positive |-> 0, negative |-> 0, mixed |-> 0, inconclusive |-> 0,
            positiveTotal |-> 0, negativeTotal |-> 0, links |-> <<>>]
Exp(id, if, then, result) ==
    [id |-> id, status |-> "active", if |-> if, then |-> then, result |-> result,
     recommendation |-> <<>>, confidence |-> 700, repeatability |-> 600, hits |-> 2,
     misses |-> 1, mitigates |-> FALSE, value |-> NoValue]
MCExperiences ==
    << Exp("e1", <<"risk">>, <<"act">>, <<"calm">>),
       [Exp("e2", <<"risk", "act">>, <<"act">>, <<"calm">>) EXCEPT
           !.value = [NoValue EXCEPT !.negative = 4, !.negativeTotal = 800]],
       Exp("e3", <<"thought">>, <<"wait">>, <<"bored">>) >>
=============================================================================
