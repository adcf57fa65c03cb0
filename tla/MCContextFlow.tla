--------------------------- MODULE MCContextFlow ---------------------------
(***************************************************************************)
(* Small instances of ContextFlow and of ScenarioRun, which share the limits *)
(* of the log, told apart by a choice made at the start; the variables of   *)
(* the other stay as they began.                                           *)
(***************************************************************************)
EXTENDS ContextFlow, ScenarioRun

VARIABLE component

Sound(loud) == [source |-> "aud", loud |-> loud, risk |-> 0, matched |-> FALSE]
Sight(known) == [source |-> "img", known |-> known, risk |-> IF known THEN 600 ELSE 0,
                 matched |-> known]
Sense(alarm, risk) ==
    [source |-> "sen", alarm |-> alarm, risk |-> risk, matched |-> FALSE]

\* Two frames of any kind, the second perhaps in the tick of the first, then
\* enough sound for a rhythm.
MCInputs(n) ==
    LET At(frames, ticks) == {f @@ [later |-> t] : f \in frames, t \in ticks}
    IN  CASE n = 1 -> At({Sound(TRUE), Sight(TRUE), Sight(FALSE), Sense(900, 855)}, {0})
          [] n = 2 -> At({Sound(FALSE), Sight(FALSE), Sense(700, 455)}, {0, 1})
          [] OTHER -> At({Sound(n % 2 = 1)}, {1})

Statuses ==
    [effects |-> {"waiting", "more_thought", "load_reduced", "observation"},
     outcomes |-> {"confirmed", "partially_confirmed", "failed", "inconclusive"},
     experience_candidates |-> {"positive", "negative", "weak"},
     consolidation_candidates |-> {"positive", "negative"},
     memory_write_reviews |-> {"approved", "wait", "low_value", "incomplete"},
     memory_draft_writes |-> {"merged", "created"},
     memory_draft_commit_reviews |-> {"ready", "wait", "rejected", "duplicate"},
     memory_commits |-> {"done"}, committed_draft_observations |-> {"done"},
     expsm_update_reviews |-> {"approved", "wait", "no_delta"},
     memory_updates |-> {"done"}, expsm_activations |-> {"done"},
     expsm_feedback |-> {"hit", "partial_hit", "miss"},
     expsm_similarity_observations |-> {"done"},
     expsm_competition_observations |-> {"done"},
     evaluation_signals |-> {"good", "harm", "need"},
     evaluation_targets |-> {"mixed", "avoid", "wanted"},
     akbsm_association_probes |-> {"found", "none"},
     expsm_mechanism_searches |-> {"found", "avoiding", "none"},
     target_satisfaction_observations |-> {"satisfied", "not_satisfied", "inconclusive"},
     value_feedback_candidates |-> {"positive", "negative", "mixed"},
     value_feedback_reviews |-> {"ready", "wait", "reject"},
     value_feedback_updates |-> {"positive", "negative", "mixed"},
     decision_audits |-> {"narrow_win", "clear_win", "demoted"},
     action_guard_audits |-> {"low", "high"},
     decision_cycle_summaries |-> {"clean", "uncertain", "risky"}]

Event(k, status) == [marker |-> k, status |-> status, activation |-> 5]
Failed == Event("outcomes", "failed")

\* The n-th status of a kind, in some order, starting again after the last.
Nth(k, n) ==
    LET order == SetToSeq(Statuses[k])
    IN  order[((n - 1) % Len(order)) + 1]

\* Kinds that come together.
Groups ==
    {<<"effects", "outcomes", "experience_candidates", "consolidation_candidates">>,
     <<"memory_write_reviews", "memory_draft_writes", "memory_draft_commit_reviews",
       "memory_commits", "committed_draft_observations">>,
     <<"expsm_update_reviews", "memory_updates", "expsm_activations", "expsm_feedback",
       "expsm_similarity_observations", "expsm_competition_observations">>,
     <<"evaluation_signals", "evaluation_targets", "akbsm_association_probes",
       "expsm_mechanism_searches">>,
     <<"target_satisfaction_observations", "value_feedback_candidates",
       "value_feedback_reviews", "value_feedback_updates">>,
     <<"decision_audits", "action_guard_audits", "decision_cycle_summaries">>}

\* After the first frame one event of each kind of a group, or more of a kind
\* than its handler looks at; after the second late outcomes and a review.
MCBursts(n) ==
    CASE n = 1 -> {<<>>, <<Failed, Failed, Failed>>}
                    \cup {[i \in DOMAIN g |-> Event(g[i], Nth(g[i], m))] :
                            g \in Groups, m \in 1 .. 4}
                    \cup {[i \in 1 .. 3 |-> Event("experience_candidates", st)] :
                            st \in {"positive", "negative"}}
      [] n = 2 -> {<<>>, <<Event("outcomes", "confirmed"), Event("memory_commits", "done"),
                           Event("effects", "inspection")>>,
                 <<Event("consolidation_candidates", "negative"),
                   Event("consolidation_candidates", "positive"), Failed>>}
      [] OTHER -> {<<>>}

MCShown(n) == IF n = 2 THEN BOOLEAN ELSE {n = 4}

MCWindow == [k \in Markers |-> IF k \in {"labels", "predictions"} THEN 4 ELSE 2]
MCMaxEntries == [l \in SideLists |-> IF l = "raw_frames" THEN 4 ELSE 3]

(***************************************************************************)
(* Fixtures: one of each shape, some with bursts that nearly fill the log.   *)
(***************************************************************************)
Input(tick, kind) == [tick |-> tick, kind |-> kind]
BurstInput(tick, count) == [tick |-> tick, kind |-> "module_update_burst", count |-> count]
Expect == [required |-> {"labels"}, forbidden |-> {"memory_commits"},
           order |-> {<<"raw_input_write", "labels">>, <<"labels", "decisions">>}]
Fixture(inputs, summaries, expect) ==
    [version |-> 1, name |-> "s", max_ticks |-> NoValue, inputs |-> inputs,
     summaries |-> summaries, expect |-> expect]

Clean(tick) == [tick |-> tick, status |-> "clean_selection"]
Five == <<Clean(0), [Clean(0) EXCEPT !.status = "guarded_selection"], Clean(0), Clean(0), Clean(0)>>

Heard == Fixture(<<Input(1, "audio"), Input(1, "smell"), Input(1, "tick")>>, <<>>, Expect)
MCFixtures == {
    Heard,
    Fixture(<<BurstInput(0, 8), Input(1, "audio"), Input(1, "tick")>>, <<>>, Expect),
    Fixture(<<Input(2, "tick"), Input(1, "sensor")>>, <<Clean(0), Clean(2)>>, Expect),
    [Heard EXCEPT !.max_ticks = 0, !.expect = [required |-> {}]],
    Fixture(<<BurstInput(1, 10), Input(2, "image")>>, <<>>,
            [required |-> {"module_updates"}, retention_pruned_events |-> TRUE,
             side_list_caps_respected |-> TRUE]),
    Fixture(<<Input(0, "tick"), BurstInput(0, 12)>>, <<Clean(0)>>, Expect @@ [min_event_count |-> 4]),
    Fixture(<<[tick |-> 1, kind |-> "synthetic_policy_pressure_review",
               payload |-> [type |-> "guard_pressure"]], Input(1, "tick")>>, Five,
            [required |-> {}, reflection |-> [type |-> "guard_pressure", active |-> TRUE]]),
    Fixture(<<[tick |-> 0, kind |-> "synthetic_policy_pressure_review", payload |-> NoValue]>>,
            Five, [required |-> {"decision_cycle_summaries"}]),
    [Heard EXCEPT !.version = 2], [Heard EXCEPT !.name = NoValue],
    [Heard EXCEPT !.expect = [forbidden |-> {}]],
    [Heard EXCEPT !.inputs[2].tick = -1], [Heard EXCEPT !.summaries = <<Clean(-1)>>],
    [Heard EXCEPT !.expect = @ @@ [min_event_count |-> -1]]}

\* Decisions of a rule and of experience, audited or not.
Labels == <<"labels", NoValue>>
ByRule == <<"decisions", "rule">>
Audited == <<<<"decisions", "expsm_mechanism_search">>, <<"decision_audits", "clear_win">>,
             <<"action_guard_audits", "no_blocked_candidates">>>>
MCTicks == {<<>>, <<<<Labels>>, <<ByRule>>>>, <<<<ByRule, Labels>>>>, <<Audited>>,
            <<<<Labels, <<"memory_commits", NoValue>>>>,
              <<ByRule, <<"effects", NoValue>>, <<"outcomes", NoValue>>>>>>}
MCOwnPressures == {NoValue, [type |-> "no_policy_pressure", active |-> FALSE],
                   [type |-> "guard_pressure", active |-> TRUE]}

MCInit ==
    /\ Init
    /\ ScenarioInit
    /\ component \in {"tick", "scenario"}
    /\ component = "tick" => fixture = Heard

MCNext ==
    \/ component = "tick" /\ Next /\ UNCHANGED <<component, scenarioVars>>
    \/ component = "scenario" /\ ScenarioNext /\ UNCHANGED <<component, vars>>

MCSpec == MCInit /\ [][MCNext]_<<component, vars, scenarioVars>>
=============================================================================
