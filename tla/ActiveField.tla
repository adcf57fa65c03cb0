---------------------------- MODULE ActiveField ----------------------------
(***************************************************************************)
(* ActiveContextField, the field of patterns that are active now, and       *)
(* FieldUpdater, which projects every operation of the log into it.        *)
(*                                                                         *)
(* The field is the code's insertion-ordered dict: a sequence of entries,   *)
(* one per pattern.  Activations are in thousandths and rounded down, decay *)
(* rates in thousandths per tick.  What one handler of the updater does to  *)
(* the field is the sequence of the touches it makes; what it reads from    *)
(* the payload are fields of the event.  An event's "amount" is its         *)
(* activation and "ttl" its ttl, which the producers always give, except    *)
(* labels, decisions, effects and outcomes, which may have none.            *)
(***************************************************************************)
EXTENDS Integers, Sequences, FiniteSets, SequencesExt

NoTtl == -1
Faint == 10             \* an activation not above this is dropped
Modes == {"active", "consolidation", "recovery"}
ModePattern(mode) == "system_mode_" \o mode
ModePatterns == {ModePattern(mode) : mode \in Modes}

Clamped(x) == IF x < 0 THEN 0 ELSE IF x > 1000 THEN 1000 ELSE x
Lower(a, b) == IF a < b THEN a ELSE b
Part(percent, amount) == (percent * amount) \div 100
Where(entries, p) == {i \in DOMAIN entries : entries[i].p = p}
Holds(entries, p) == Where(entries, p) # {}
At(entries, p) == CHOOSE i \in Where(entries, p) : TRUE
EntryOf(entries, p) == entries[At(entries, p)]

\* Python's sorted(..., reverse=True): stable, so equal ones stay in order.
RankedBy(entries, Score(_)) ==
    LET First(x) == CHOOSE i \in DOMAIN entries :
                        entries[i] = x /\ \A j \in 1 .. i - 1 : entries[j] # x
        Before(x, y) == \/ Score(x) > Score(y)
                        \/ Score(x) = Score(y) /\ First(x) < First(y)
    IN  SortSeq(entries, Before)
FirstOf(s, n) == SubSeq(s, 1, Lower(n, Len(s)))

(***************************************************************************)
(* ActiveContextField                                                      *)
(***************************************************************************)
\* _activation_for_mode
Level(mode, old, amount) ==
    CASE mode = "reinforce" -> old + (amount * (1000 - old)) \div 1000
      [] mode = "set"       -> amount
      [] mode = "max"       -> IF old > amount THEN old ELSE amount

\* Mutant: an entry lives as long as the longest ttl it was given.
Activate_KeepsLonger(field, touch, tick) ==
    LET amount == Clamped(touch.amount)
        new == [p |-> touch.p, act |-> amount, rate |-> touch.rate, last |-> tick,
                expires |-> IF touch.ttl = NoTtl THEN NoTtl ELSE tick + touch.ttl]
        Again(old) == [new EXCEPT !.act = Level(touch.mode, old.act, amount),
                                  !.rate = Lower(old.rate, touch.rate),
                                  !.expires = IF old.expires > @ THEN old.expires ELSE @]
    IN  IF amount = 0 /\ touch.mode # "set" THEN field
        ELSE IF ~Holds(field, touch.p) THEN Append(field, new)
        ELSE [field EXCEPT ![At(field, touch.p)] = Again(@)]

\* activate: the slower decay rate wins and the new ttl replaces the old one,
\* be it shorter or none.
Activate(field, touch, tick) ==
    LET amount == Clamped(touch.amount)
        new == [p |-> touch.p, act |-> amount, rate |-> touch.rate, last |-> tick,
                expires |-> IF touch.ttl = NoTtl THEN NoTtl ELSE tick + touch.ttl]
        Again(old) == [new EXCEPT !.act = Level(touch.mode, old.act, amount),
                                  !.rate = Lower(old.rate, touch.rate)]
    IN  IF amount = 0 /\ touch.mode # "set" THEN field
        ELSE IF ~Holds(field, touch.p) THEN Append(field, new)
        ELSE [field EXCEPT ![At(field, touch.p)] = Again(@)]

\* Mutant: the elapsed time is counted from the last reinforcement at every
\* decay, as docs/decay_semantics_audit.md tells of the older code.
DecayAll_Repeated(field, tick) ==
    LET Alive(e) == /\ e.expires = NoTtl \/ tick < e.expires
                    /\ tick = e.last \/ e.act - e.rate * (tick - e.last) > Faint
        Aged(e) == [e EXCEPT !.act = @ - e.rate * (tick - e.last)]
        alive == SelectSeq(field, Alive)
    IN  [i \in DOMAIN alive |-> Aged(alive[i])]

DecayAll(field, tick) ==
    LET Alive(e) == /\ e.expires = NoTtl \/ tick < e.expires
                    /\ tick = e.last \/ e.act - e.rate * (tick - e.last) > Faint
        Aged(e) == [e EXCEPT !.act = @ - e.rate * (tick - e.last), !.last = tick]
        alive == SelectSeq(field, Alive)
    IN  [i \in DOMAIN alive |-> Aged(alive[i])]

\* suppress with the amount of its two callers, 1.0, for each of ps: the updater
\* at a mode change and the clean-up after it.
Suppress(field, ps) == SelectSeq(field, LAMBDA e : e.p \notin ps)

TopPatterns(field, n) == FirstOf(RankedBy(field, LAMBDA e : e.act), n)
PatternsAbove(field, threshold) ==
    {field[i].p : i \in {j \in DOMAIN field : field[j].act >= threshold}}

(***************************************************************************)
(* FieldUpdater: the touches each handler makes                            *)
(***************************************************************************)
Touch(mode, p, amount, rate, ttl) ==
    [p |-> p, amount |-> amount, rate |-> rate, ttl |-> ttl, mode |-> mode]
Touches(mode, ps, amount, rate, ttl) ==
    [i \in DOMAIN ps |-> Touch(mode, ps[i], amount, rate, ttl)]
Each(ps, amount, rate, ttl) == Touches("reinforce", ps, amount, rate, ttl)
Own(e, ps, rate) == Each(ps, e.amount, rate, e.ttl)
Share(e, ps, percent, rate) == Each(ps, Part(percent, e.amount), rate, e.ttl)
Only(condition, p) == IF condition THEN <<p>> ELSE <<>>

Label(e) == Own(e, <<e.kind>>, e.rate)

Prediction(e) == Own(e, <<e.kind>> \o e.predicted, e.rate)

Thought(e) == Own(e, e.patterns, e.rate)

Tone(e) ==
    LET Set(dim, amount, rate, ttl) == Touches("set", <<dim>>, amount, rate, ttl)
    IN  Set("tension_high", e.tone.tension, 80, 3)
          \o Set("curiosity_high", e.tone.curiosity, 80, 3)
          \o Set("risk_sensitivity_high", e.tone.risk_sensitivity, 80, 3)
          \o Set("fatigue_high", e.tone.fatigue, 50, 4)
          \o Set("integrity_low", 1000 - e.tone.integrity, 80, 3)

Homeostasis(e) == Own(e, e.patterns, 100)

Decision(e) == Own(e, <<e.kind>>, 120)

Effect(e) == Own(e, <<e.kind>>, 100) \o Each(e.thoughts, 350, 120, e.ttl)
               \o Share(e, e.secondary, 80, 100)

Outcome(e) == Own(e, <<e.kind>>, 100) \o Share(e, e.matched, 20, 120)

ExperienceCandidate(e) ==
    Own(e, <<e.kind, e.status>>, 80)
      \o Share(e, Only(e.pending, "pending_consolidation"), 90, 80)
      \o Share(e, e.refs, 15, 120)

ConsolidationCandidate(e) ==
    Own(e, <<e.kind, "consolidation_ready">>
             \o Only(e.pending, "pending_memory_write")
             \o Only(e.valence > 0, "consolidation_positive")
             \o Only(e.valence < 0, "consolidation_negative"), 60)
      \o Share(e, e.refs, 12, 100)

ConsolidationPressure(e) ==
    Touches("set", <<e.kind, e.status>> \o e.patterns, e.amount, 80, e.ttl)

\* The pattern of every other mode goes, those of the reasons too.
ModeReasons(e) == SelectSeq(e.patterns, LAMBDA p : p \notin ModePatterns)

\* Mutant: a mode that is given as a reason is shown as well.
SystemMode_ReasonsShown(e) ==
    Touches("set", <<ModePattern(e.status)>>, 1000, 40, e.ttl)
      \o Touches("max", e.patterns, e.amount, 80, e.ttl)

SystemMode(e) ==
    Touches("set", <<ModePattern(e.status)>>, 1000, 40, e.ttl)
      \o Touches("max", ModeReasons(e), e.amount, 80, e.ttl)

MemoryWriteReview(e) ==
    Own(e, <<e.kind, e.status>>, 50) \o Share(e, e.patterns, 75, 60)

MemoryDraftWrite(e) ==
    Own(e, <<e.kind, "draft_pending_commit", "draft_for_expsm", "draft_success">>
             \o Only(e.status = "draft_created", "draft_created")
             \o IF e.status = "draft_merged"
                THEN <<"draft_merged", "draft_strengthened", "draft_duplicate_merged">>
                ELSE <<>>, 50)

MemoryDraftCommitReview(e) ==
    Own(e, <<"draft_commit_review", e.status>>, 50) \o Share(e, e.patterns, 65, 60)

MemoryCommit(e) == Own(e, <<e.kind, "commit_expsm", "commit_success">>, 40)

CommittedDraftObservation(e) ==
    Own(e, <<e.kind, "committed_draft_strengthened">>
             \o Only(e.pending, "pending_expsm_update"), 50)

ExpsmUpdateReview(e) == Own(e, <<"expsm_update_review", e.status>>, 50)

MemoryUpdate(e) ==
    Own(e, <<e.kind, "update_expsm", "memory_update_success">>
             \o Only(e.status = "metadata_only", "update_metadata_only"), 40)

ExpsmActivation(e) ==
    LET Marked(marker, ps) ==
            FlattenSeq([i \in DOMAIN ps |-> Share(e, <<marker, ps[i]>>, 65, 100)])
    IN  Own(e, <<e.kind, "expsm_matched", "expsm_recommendation">>, 80)
          \o Marked("expsm_then", e.then)
          \o Share(e, e.recommended, 65, 100)
          \o Marked("expsm_result", e.result)

ExpsmFeedback(e) ==
    Own(e, <<e.kind, "feedback_updated">>
             \o CASE e.status = "hit" -> <<"feedback_hit", "expsm_feedback_success">>
                  [] e.status = "partial_hit" ->
                        <<"feedback_partial_hit", "expsm_feedback_success">>
                  [] e.status = "miss" -> <<"feedback_miss", "expsm_feedback_failure">>
                  [] OTHER -> <<>>, 50)

ExpsmSimilarity(e) ==
    Own(e, <<e.kind, "similarity_group", "future_competition",
             IF e.score >= 700 THEN "similarity_high" ELSE "similarity_medium">>, 40)

ExpsmCompetition(e) ==
    Own(e, <<e.kind, "competition_selected", "competition_alternative", "not_punished",
             IF e.same THEN "same_action" ELSE "different_actions">>, 40)

\* _patterns_for_dimensions of the signal, which the projection repeats.
DimensionPatterns(d) ==
    Only(d.usefulness >= 500, "evaluation_useful")
      \o Only(d.usefulness <= 150 /\ d.priority >= 200, "evaluation_useless")
      \o Only(d.harmfulness >= 500, "evaluation_harmful")
      \o Only(d.safety >= 500, "evaluation_safe")
      \o Only(d.need >= 500, "evaluation_needed")
      \o Only(d.want >= 500, "evaluation_wanted")
      \o Only(d.avoid >= 500, "evaluation_avoid")
      \o <<IF d.priority >= 700 THEN "evaluation_priority_high"
           ELSE IF d.priority >= 400 THEN "evaluation_priority_medium"
           ELSE "evaluation_priority_low">>

EvaluationSignal(e) ==
    LET said == DimensionPatterns(e.dimensions)
    IN  Own(e, <<"evaluation_signal">> \o <<"evaluation_signal">> \o said \o said, 50)
          \o Share(e, e.targets, 45, 80)

EvaluationTarget(e) ==
    Own(e, <<"evaluation_target_observed">> \o e.roles \o <<e.kind>>, 50)
      \o Share(e, <<e.p>>, 40, 80)

AkbsmAssociationProbe(e) ==
    LET Associated(a) ==
            Touch("reinforce", a.p, Part(35, a.score), 80, Lower(e.ttl, 8))
    IN  Own(e, <<"akbsm_probe", "akbsm_target_probe">>
                 \o IF e.found # <<>>
                    THEN <<"akbsm_found", "akbsm_associated_pattern", "akbsm_relation_observed">>
                    ELSE <<"akbsm_missing">>, 50)
          \o [i \in DOMAIN e.found |-> Associated(e.found[i])]

ExpsmMechanismSearch(e) ==
    LET Found(m) ==
            Each(<<m.purpose>>, Part(35, m.score), 60, e.ttl)
              \o Each(m.matched \o m.associated \o m.then, Part(35, m.score), 80, e.ttl)
    IN  Own(e, <<"mechanism_search", "mechanism_found", "mechanism_candidate">>, 50)
          \o Share(e, <<e.p>>, 30, 80)
          \o FlattenSeq([i \in DOMAIN e.mechanisms |-> Found(e.mechanisms[i])])

TargetSatisfaction(e) ==
    Own(e, <<"satisfaction_observer", "satisfaction_observed", e.status>>, 50)
      \o Share(e, Only(e.positive, "positive_evidence")
                    \o Only(e.negative, "negative_evidence"), 75, 60)
      \o Each(<<e.p>>, Part(25, e.score), 80, e.ttl)

ValueFeedbackCandidate(e) ==
    Own(e, <<"value_candidate", e.kind>>, 50) \o Share(e, <<e.operation>>, 85, 50)

ValueFeedbackReview(e) ==
    Own(e, <<"value_review", e.status>>, 50)
      \o Share(e, <<IF e.ready THEN "value_ready" ELSE "value_not_ready">>, 85, 50)
      \o Share(e, <<e.reason>>, 75, 50)

\* _value_feedback_update_bucket: whatever is not one of three is mixed.
UpdateBucket(direction) ==
    IF direction \in {"positive", "negative", "inconclusive"} THEN direction ELSE "mixed"

ValueFeedbackUpdate(e) ==
    Own(e, <<"value_updated", "value_metadata", "value_" \o UpdateBucket(e.status)>>, 50)
      \o Share(e, <<"value_semantic_preserved", "value_technical_preserved">>, 85, 50)

DecisionAudit(e) ==
    Own(e, <<"decision_audit">>, 60) \o Share(e, e.patterns, 85, 60)

ActionGuardAudit(e) ==
    Own(e, <<"guard_audit">>, 60)
      \o Share(e, e.patterns, 85, 60)
      \o Share(e, Only(e.allowed, "guard_allowed")
                    \o Only(e.blocked, "guard_blocked"), 70, 60)

DecisionCycleSummary(e) ==
    Own(e, <<"cycle_summary">>, 60) \o Share(e, <<e.status>>, 90, 60)
      \o Share(e, <<e.confidence>>, 80, 60) \o Share(e, e.patterns, 75, 60)

\* The markers of update_from_memory that touch the field; all other events
\* (input frames, reasons without patterns) are only marked as processed.
TouchesOf(e) ==
    CASE e.marker = "labels" -> Label(e)
      [] e.marker = "predictions" -> Prediction(e)
      [] e.marker = "self_generated_thought" -> Thought(e)
      [] e.marker = "neuromodulation_updates" -> Tone(e) \o Homeostasis(e)
      [] e.marker = "decisions" -> Decision(e)
      [] e.marker = "effects" -> Effect(e)
      [] e.marker = "outcomes" -> Outcome(e)
      [] e.marker = "experience_candidates" -> ExperienceCandidate(e)
      [] e.marker = "consolidation_candidates" -> ConsolidationCandidate(e)
      [] e.marker = "consolidation_pressures" -> ConsolidationPressure(e)
      [] e.marker = "system_mode_changes" -> SystemMode(e)
      [] e.marker = "memory_write_reviews" -> MemoryWriteReview(e)
      [] e.marker = "memory_draft_writes" -> MemoryDraftWrite(e)
      [] e.marker = "memory_draft_commit_reviews" -> MemoryDraftCommitReview(e)
      [] e.marker = "memory_commits" -> MemoryCommit(e)
      [] e.marker = "committed_draft_observations" -> CommittedDraftObservation(e)
      [] e.marker = "expsm_update_reviews" -> ExpsmUpdateReview(e)
      [] e.marker = "memory_updates" -> MemoryUpdate(e)
      [] e.marker = "expsm_activations" -> ExpsmActivation(e)
      [] e.marker = "expsm_feedback" -> ExpsmFeedback(e)
      [] e.marker = "expsm_similarity_observations" -> ExpsmSimilarity(e)
      [] e.marker = "expsm_competition_observations" -> ExpsmCompetition(e)
      [] e.marker = "evaluation_signals" -> EvaluationSignal(e)
      [] e.marker = "evaluation_targets" -> EvaluationTarget(e)
      [] e.marker = "akbsm_association_probes" -> AkbsmAssociationProbe(e)
      [] e.marker = "expsm_mechanism_searches" -> ExpsmMechanismSearch(e)
      [] e.marker = "target_satisfaction_observations" -> TargetSatisfaction(e)
      [] e.marker = "value_feedback_candidates" -> ValueFeedbackCandidate(e)
      [] e.marker = "value_feedback_reviews" -> ValueFeedbackReview(e)
      [] e.marker = "value_feedback_updates" -> ValueFeedbackUpdate(e)
      [] e.marker = "decision_audits" -> DecisionAudit(e)
      [] e.marker = "action_guard_audits" -> ActionGuardAudit(e)
      [] e.marker = "decision_cycle_summaries" -> DecisionCycleSummary(e)
      [] OTHER -> <<>>

\* A mode change first silences the other modes.
Silenced(e) ==
    IF e.marker = "system_mode_changes"
    THEN ModePatterns \ {ModePattern(e.status)} ELSE {}

Project(field, e) ==
    FoldLeft(LAMBDA f, t : Activate(f, t, e.tick), Suppress(field, Silenced(e)), TouchesOf(e))
=============================================================================
