-------------------------- MODULE Neuromodulation --------------------------
(***************************************************************************)
(* NeuromodulationModule and HomeostasisModule: how what happened in a tick *)
(* moves the tone.  The tone has eight dimensions in thousandths, the grid  *)
(* ToneState rounds to.  For each kind of event one handler looks at the    *)
(* recent entries of its side list, takes those of this tick it has not     *)
(* handled, and emits one tone update that shifts the current tone by the   *)
(* sum of what the events say.                                             *)
(*                                                                         *)
(* An event says what it says by its status.  Statuses that a handler does  *)
(* not tell apart are one status here; activations, which scale two of the  *)
(* handlers, are given in fifths.                                          *)
(***************************************************************************)
EXTENDS ContextLog

CONSTANT
    Window          \* how many recent entries each handler looks at

ASSUME WindowAssumption == Window \in [Markers -> Nat \ {0}]

Dims == {"integrity", "stability", "curiosity", "risk_sensitivity",
         "fatigue", "tension", "satisfaction", "pain"}
Tones == [Dims -> 0 .. 1000]
InitialTone == [integrity |-> 1000, stability |-> 800, curiosity |-> 300,
                risk_sensitivity |-> 500, fatigue |-> 0, tension |-> 100,
                satisfaction |-> 0, pain |-> 0]

Nothing == [d \in Dims |-> 0]
By(changes) == Over(changes, Nothing)
Plus(a, b) == [d \in Dims |-> a[d] + b[d]]
Times(n, a) == [d \in Dims |-> n * a[d]]
Clamp(low, high, x) == IF x < low THEN low ELSE IF x > high THEN high ELSE x
Shifted(tone, delta) == [d \in Dims |-> Clamp(0, 1000, tone[d] + delta[d])]

(***************************************************************************)
(* The handlers.  A state s is the memory, what the module has handled, the *)
(* tick, the next operation id, and the deltas of all tone updates so far   *)
(* with the events each is based on.                                       *)
(***************************************************************************)
Emit(s, delta, based) ==
    LET op == [id |-> s.next, marker |-> ToneMarker, tick |-> s.tick,
               tone |-> Shifted(s.memory.tone, delta)]
    IN  [s EXCEPT !.memory = ApplyPending(@, <<op>>), !.next = @ + 1,
                  !.updates = Append(@, [delta |-> delta, based |-> based])]

\* The tone all updates together make of the first one.
Updated(tone, update) == Shifted(tone, update.delta)
ToneAfter(updates) == FoldLeft(Updated, InitialTone, updates)

\* The recent entries of a kind that are of these ticks, and which of them the module
\* has not handled.
During(s, kind, ticks) ==
    LET recent == RecentOf(s.memory, kind, Window[kind])
    IN  Picked(recent, {i \in DOMAIN recent : recent[i].tick \in ticks})

Unhandled(s, kind, ticks) ==
    LET recent == RecentOf(s.memory, kind, Window[kind])
    IN  Picked(recent, {i \in DOMAIN recent : /\ recent[i].tick \in ticks
                                             /\ recent[i].id \notin s.handled})

Fresh(s, kind) == Unhandled(s, kind, {s.tick})

\* What each event adds is found under its status, and may be scaled.
Said(events, says) == [i \in DOMAIN events |-> By(says[events[i].status])]
Scaled(events, says) ==
    [i \in DOMAIN events |-> Times(events[i].activation, By(says[events[i].status]))]

Total(shifts) == FoldLeft(Plus, Nothing, shifts)

\* The fresh events of a kind together shift the tone by delta.  Handled are also
\* those that say nothing; then no update is made.
AnswerAll(s, kind, delta) ==
    LET fresh == Fresh(s, kind)
        ids == {fresh[i].id : i \in DOMAIN fresh}
        done == [s EXCEPT !.handled = @ \cup ids]
    IN  IF fresh = <<>> \/ delta = Nothing THEN done ELSE Emit(done, delta, ids)

Answer(s, kind, says) == AnswerAll(s, kind, Total(Said(Fresh(s, kind), says)))

\* What each event of a kind adds whatever it says.
AnswerEach(s, kind, delta) ==
    AnswerAll(s, kind, Times(Len(Fresh(s, kind)), By(delta)))

\* What the executor lets each action announce, and what the consolidation
\* processor announces when it reviewed few or many candidates.
EffectSays ==
    [waiting |-> [tension |-> -30],
     attention |-> [tension |-> 20, fatigue |-> 30],
     inspection |-> [curiosity |-> 30],
     memory_candidate |-> [satisfaction |-> 20],
     commit_requested |-> [stability |-> 10],
     review_requested |-> [stability |-> 5, curiosity |-> 5],
     update_requested |-> [stability |-> 5],
     load_reduced |-> [fatigue |-> -80, tension |-> -50],
     integrity |-> [tension |-> -40, stability |-> 30],
     observation |-> <<>>,
     more_thought |-> <<>>,
     consolidation_entered |-> [tension |-> -30, curiosity |-> -20],
     consolidation_exited |-> [fatigue |-> -50, stability |-> 20],
     processing |-> [fatigue |-> -40, tension |-> -30, stability |-> 20, curiosity |-> -10],
     heavy_processing |->
        [fatigue |-> -20, tension |-> -30, stability |-> 20, curiosity |-> -10]]

RunEffects(s) == Answer(s, "effects", EffectSays)

OutcomeSays ==
    [confirmed |-> [satisfaction |-> 40, stability |-> 20, pain |-> -20],
     partially_confirmed |-> [satisfaction |-> 15, stability |-> 5],
     failed |-> [pain |-> 50, stability |-> -30, tension |-> 20],
     expired |-> [pain |-> 30, stability |-> -20],
     inconclusive |-> [tension |-> 5]]

RunOutcomes(s) == Answer(s, "outcomes", OutcomeSays)

\* A burst of candidates may not move the tone by more than this.
CapCandidateDelta(delta) ==
    LET caps == [satisfaction |-> 30, stability |-> 15, pain |-> 30,
                 tension |-> 25, curiosity |-> 20]
    IN  [d \in Dims |-> IF d \in DOMAIN caps THEN Clamp(-caps[d], caps[d], delta[d])
                        ELSE Clamp(-30, 30, delta[d])]

CandidatesDelta(events) ==
    CapCandidateDelta(Total(Scaled(events,
        [positive |-> [satisfaction |-> 4, stability |-> 2],
         negative |-> [pain |-> 4, tension |-> 3, stability |-> -2],
         weak |-> [curiosity |-> 2, tension |-> 1]])))

\* Mutant: the update is computed before that of the outcomes is applied.
RunCandidates_Batched(s) ==
    LET before == IF s.updates = <<>> THEN s.memory.tone ELSE ToneAfter(Front(s.updates))
        fresh == Fresh(s, "experience_candidates")
        after == AnswerAll(s, "experience_candidates", CandidatesDelta(fresh))
    IN  IF Len(after.updates) = Len(s.updates) THEN after
        ELSE [after EXCEPT !.memory.tone = Shifted(before, Last(after.updates).delta)]

RunCandidates(s) == AnswerAll(s, "experience_candidates",
    CandidatesDelta(Fresh(s, "experience_candidates")))

RunConsolidationCandidates(s) == AnswerAll(s, "consolidation_candidates",
    Total(Scaled(Fresh(s, "consolidation_candidates"),
        [positive |-> [satisfaction |-> 3, stability |-> 1],
         negative |-> [pain |-> 2, tension |-> 2, curiosity |-> 1]])))

RunMemoryWriteReviews(s) == Answer(s, "memory_write_reviews",
    [approved |-> [satisfaction |-> 15, stability |-> 10, fatigue |-> -10],
     wait |-> [curiosity |-> 5, tension |-> 3],
     low_value |-> [satisfaction |-> -3, fatigue |-> -5],
     incomplete |-> [tension |-> 5, curiosity |-> 5]])

RunMemoryDraftWrites(s) == Answer(s, "memory_draft_writes",
    [merged |-> [satisfaction |-> 12, stability |-> 15, fatigue |-> -10],
     created |-> [satisfaction |-> 20, stability |-> 10, fatigue |-> -15]])

RunMemoryDraftCommitReviews(s) == Answer(s, "memory_draft_commit_reviews",
    [ready |-> [satisfaction |-> 18, stability |-> 15, fatigue |-> -10],
     wait |-> [curiosity |-> 6, tension |-> 2],
     rejected |-> [tension |-> 4, curiosity |-> 4],
     duplicate |-> [stability |-> 6, fatigue |-> -4]])

\* Several commits of a tick count as one.
RunMemoryCommits(s) == AnswerAll(s, "memory_commits",
    By([satisfaction |-> 25, stability |-> 20, fatigue |-> -20]))

RunCommittedDraftObservations(s) == AnswerEach(s, "committed_draft_observations",
    [stability |-> 12, satisfaction |-> 8, fatigue |-> -4])

RunExpsmUpdateReviews(s) == Answer(s, "expsm_update_reviews",
    [approved |-> [stability |-> 10, satisfaction |-> 8, fatigue |-> -4],
     wait |-> [curiosity |-> 4],
     no_delta |-> [stability |-> 4, fatigue |-> -2]])

RunMemoryUpdates(s) == AnswerEach(s, "memory_updates",
    [satisfaction |-> 14, stability |-> 18, fatigue |-> -8])

RunExpsmActivations(s) == AnswerEach(s, "expsm_activations",
    [stability |-> 6, curiosity |-> -3])

RunExpsmFeedback(s) == Answer(s, "expsm_feedback",
    [hit |-> [satisfaction |-> 18, stability |-> 12, tension |-> -6],
     partial_hit |-> [satisfaction |-> 8, stability |-> 4],
     miss |-> [pain |-> 15, tension |-> 12, stability |-> -8]])

RunExpsmSimilarityObservations(s) == AnswerEach(s, "expsm_similarity_observations",
    [curiosity |-> 6, tension |-> 2])

RunExpsmCompetitionObservations(s) == AnswerEach(s, "expsm_competition_observations",
    [curiosity |-> 6, tension |-> 3])

RunDecisionAudits(s) == Answer(s, "decision_audits",
    [narrow_win |-> [curiosity |-> 3],
     clear_win |-> [stability |-> 2],
     demoted |-> [risk_sensitivity |-> 2, curiosity |-> 1]])

RunActionGuardAudits(s) == Answer(s, "action_guard_audits",
    [low |-> [stability |-> 1],
     high |-> [risk_sensitivity |-> 3, curiosity |-> 2]])

RunDecisionCycleSummaries(s) == Answer(s, "decision_cycle_summaries",
    [clean |-> [stability |-> 2],
     uncertain |-> [curiosity |-> 3],
     risky |-> [risk_sensitivity |-> 3, curiosity |-> 2]])

RunEvaluationSignals(s) == Answer(s, "evaluation_signals",
    [good |-> [stability |-> 6, satisfaction |-> 6],
     harm |-> [tension |-> 8, risk_sensitivity |-> 6],
     need |-> [curiosity |-> 4, tension |-> 3]])

RunEvaluationTargets(s) == Answer(s, "evaluation_targets",
    [mixed |-> [curiosity |-> 3, tension |-> 3],
     avoid |-> [tension |-> 6, risk_sensitivity |-> 6],
     wanted |-> [curiosity |-> 4, stability |-> 4]])

RunAkbsmAssociationProbes(s) == Answer(s, "akbsm_association_probes",
    [found |-> [curiosity |-> 6, stability |-> 2],
     none |-> [curiosity |-> 3]])

RunExpsmMechanismSearches(s) == Answer(s, "expsm_mechanism_searches",
    [found |-> [curiosity |-> 6, stability |-> 3],
     avoiding |-> [curiosity |-> 10, stability |-> 3, tension |-> -2],
     none |-> <<>>])

RunTargetSatisfactionObservations(s) == Answer(s, "target_satisfaction_observations",
    [satisfied |-> [stability |-> 6, curiosity |-> 2, tension |-> -3],
     not_satisfied |-> [curiosity |-> 4, risk_sensitivity |-> 5, tension |-> 4],
     inconclusive |-> [curiosity |-> 2]])

ValueSays ==
    [positive |-> [stability |-> 3, curiosity |-> 1],
     negative |-> [risk_sensitivity |-> 3, curiosity |-> 2],
     mixed |-> [curiosity |-> 2]]

RunValueFeedbackCandidates(s) == Answer(s, "value_feedback_candidates", ValueSays)

RunValueFeedbackReviews(s) == Answer(s, "value_feedback_reviews",
    [ready |-> [stability |-> 3, curiosity |-> 1],
     wait |-> [curiosity |-> 2],
     reject |-> [curiosity |-> 1, risk_sensitivity |-> 2]])

RunValueFeedbackUpdates(s) == Answer(s, "value_feedback_updates", ValueSays)

\* Mutant: a handler is not wired into the phase.
Projected_Unwired(s) ==
    RunMemoryDraftWrites(RunMemoryWriteReviews(RunConsolidationCandidates(
        RunCandidates(RunOutcomes(s)))))

\* _phase_08_neuromodulation_projection: one handler after the other, each
\* followed by apply_pending.
Projected(s) ==
    LET s1 == RunConsolidationCandidates(RunCandidates(RunOutcomes(s)))
        s2 == RunMemoryDraftCommitReviews(RunMemoryDraftWrites(RunMemoryWriteReviews(s1)))
        s3 == RunExpsmUpdateReviews(RunCommittedDraftObservations(RunMemoryCommits(s2)))
        s4 == RunExpsmFeedback(RunExpsmActivations(RunMemoryUpdates(s3)))
        s5 == RunExpsmCompetitionObservations(RunExpsmSimilarityObservations(s4))
        s6 == RunDecisionCycleSummaries(RunActionGuardAudits(RunDecisionAudits(s5)))
        s7 == RunAkbsmAssociationProbes(RunEvaluationTargets(RunEvaluationSignals(s6)))
        s8 == RunTargetSatisfactionObservations(RunExpsmMechanismSearches(s7))
    IN  RunValueFeedbackUpdates(RunValueFeedbackReviews(RunValueFeedbackCandidates(s8)))

(***************************************************************************)
(* neuromodulation.run, in the first phase: once per tick number, from the  *)
(* labels and predictions of the tick and from the outcomes of earlier      *)
(* ticks that no handler has seen.  It always makes an update.              *)
(***************************************************************************)
WorstRisk(list) == FoldLeft(LAMBDA m, x : IF x.risk > m THEN x.risk ELSE m, 0, list)

InputDelta(labels, predictions, outcomes) ==
    LET Worst(what) == WorstRisk(SelectSeq(labels, LAMBDA l : l.what \in what))
        Says(c, changes) == IF c THEN By(changes) ELSE Nothing
        risk == Worst({"known", "novel", "periodic", "internal", "experienced"})
        novelty == FoldLeft(LAMBDA m, l : IF l.what = "novel" /\ l.confidence > m
                                          THEN l.confidence ELSE m, 0, labels)
        said == <<By([fatigue |-> 20, satisfaction |-> -30, pain |-> -20]),
                  Says(risk >= 600, [tension |-> 180, risk_sensitivity |-> 120]),
                  Says(risk < 350, [tension |-> -40]),
                  Says(novelty >= 550 /\ risk < 400, [curiosity |-> 200]),
                  Says(Worst({"internal"}) >= 600, [integrity |-> -120, tension |-> 180])>>
    IN  Plus(Total(said),
             Plus(Total([i \in DOMAIN predictions |-> By(predictions[i].expects)]),
                  Total(Said(outcomes, OutcomeSays))))

\* Mutant: outcomes the projection has felt are felt again.
RunInputs_AllOutcomes(s) ==
    LET late == During(s, "outcomes", 0 .. s.tick - 1)
        ids == {late[i].id : i \in DOMAIN late}
    IN  IF s.tick = s.lastInputs THEN s
        ELSE Emit([s EXCEPT !.lastInputs = s.tick, !.handled = @ \cup ids],
                  InputDelta(<<>>, <<>>, late), ids)

RunInputs(s) ==
    LET late == Unhandled(s, "outcomes", 0 .. s.tick - 1)
        ids == {late[i].id : i \in DOMAIN late}
        delta == InputDelta(During(s, "labels", {s.tick}),
                            During(s, "predictions", {s.tick}), late)
    IN  IF s.tick = s.lastInputs THEN s
        ELSE Emit([s EXCEPT !.lastInputs = s.tick, !.handled = @ \cup ids], delta, ids)

(***************************************************************************)
(* HomeostasisModule.run, in the ninth phase, also once per tick number.    *)
(***************************************************************************)
HomeostasisDelta(tone, strongRisk, confirmed, failed) ==
    LET Says(c, changes) == IF c THEN By(changes) ELSE Nothing
        tense == tone.tension > 500 /\ ~strongRisk
        bold == tone.curiosity > 700 /\ tone.risk_sensitivity > 700
        dull == tone.curiosity < 200 /\ tone.risk_sensitivity < 600 /\ tone.fatigue < 500
    IN  Total(
          <<Says(tense /\ confirmed, [tension |-> -60, satisfaction |-> 10]),
            Says(tense /\ ~confirmed, [tension |-> -40]),
            Says(tone.risk_sensitivity > 750 /\ ~strongRisk /\ ~failed,
                 [risk_sensitivity |-> -30]),
            Says(tone.fatigue > 600, [tension |-> 20]),
            Says(tone.pain > 200 /\ ~failed, [pain |-> -30]),
            Says(tone.satisfaction > 0,
                 [satisfaction |-> -Clamp(0, 20, tone.satisfaction)]),
            Says(tone.stability < 750 /\ confirmed /\ ~failed, [stability |-> 20]),
            Says(bold, [curiosity |-> -30]),
            Says(~bold /\ dull, [curiosity |-> 10]),
            Says(tone.integrity < 900, [tension |-> 30])>>)

RecentRisk(s) ==
    \E i \in DOMAIN RecentOf(s.memory, "labels", Window["labels"]) :
        LET l == RecentOf(s.memory, "labels", Window["labels"])[i]
        IN  s.tick - l.tick <= 4 /\ l.risk > 600

RecentOutcome(s, status) ==
    \E i \in DOMAIN RecentOf(s.memory, "outcomes", Window["outcomes"]) :
        LET o == RecentOf(s.memory, "outcomes", Window["outcomes"])[i]
        IN  s.tick - o.tick <= 4 /\ o.status = status

\* shown is whether the field shows a risk pattern above 0.6.
Homeostasis(s, shown) ==
    LET delta == HomeostasisDelta(s.memory.tone, shown \/ RecentRisk(s),
                                  RecentOutcome(s, "confirmed"), RecentOutcome(s, "failed"))
        ran == [s EXCEPT !.lastHomeostasis = s.tick]
    IN  IF s.tick = s.lastHomeostasis \/ delta = Nothing THEN ran
        ELSE Emit(ran, delta, {})
=============================================================================
