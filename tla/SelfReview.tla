----------------------------- MODULE SelfReview -----------------------------
(***************************************************************************)
(* The runtime's opinion of its own decisions.  A decision is audited      *)
(* (DecisionAuditObserver, ActionGuardAuditObserver) and summarised        *)
(* (DecisionCycleSummaryObserver) in the tick it is made in; summaries of  *)
(* earlier ones come again with it.  Every tick ends with a chain of views *)
(* of the recent summaries: history, reflection candidates, the signal     *)
(* that more evidence is needed, review, policy pressure, its review, and  *)
(* what Mode C would advise the memory gates.  Nothing of it feeds back.   *)
(***************************************************************************)
EXTENDS ActionChoice

CONSTANTS
    Window,         \* recent audits a summary is made from, 12
    HistoryWindow,  \* summaries the history looks at, 20
    Again,          \* DECISION_CYCLE_SUMMARY_COOLDOWN_TICKS, 6
    MinObserved,    \* min_observed_count of the reflection, 5
    Advised         \* mode_c_memory_gate_advisory_enabled

ReviewAssumption ==
    /\ Window \in Nat \ {0} /\ HistoryWindow \in Nat \ {0} /\ Again \in Nat \ {0}
    /\ MinObserved \in Nat \ {0} /\ Advised \in BOOLEAN

VARIABLES
    audits,         \* recent decision audits
    guards,         \* recent guard audits
    summaries,      \* recent summaries
    emitted,        \* DecisionCycleSummaryObserver._emitted, of decisions still audited
    made,           \* decisions made so far, numbered by this
    opinion         \* what phase 10 left: history and the chain of views

review == <<audits, guards, summaries, emitted, made, opinion>>
vars == <<tick, pc, choice, review>>

-----------------------------------------------------------------------------
(* DecisionAuditObserver._audit: the margin over the best alternative and  *)
(* what value did to the score and to the rank of a mechanism.             *)
AuditConfidence(snapshot) ==
    IF Len(snapshot) = 1 THEN "single_candidate"
    ELSE LET margin == snapshot[1].score - snapshot[2].score
         IN  IF margin >= 200 THEN "clear_win" ELSE IF margin >= 50 THEN "narrow_win" ELSE "tie_like"

FromMechanism(j) == j.source = "expsm_mechanism_search"

ValueInfluence(selected) ==
    LET delta == IF FromMechanism(selected) THEN selected.memory.score - selected.memory.base ELSE 0
    IN  IF delta >= 10 THEN "positive_bonus" ELSE IF delta <= -10 THEN "negative_penalty" ELSE "none_or_tiny"

RankingEffect(snapshot) ==
    LET mechanisms == SelectSeq(snapshot, FromMechanism)
        Rank(Score(_)) == SelectInSeq(BestFirst(mechanisms, Score), LAMBDA j : j.key = snapshot[1].key)
        base == Rank(LAMBDA j : j.memory.base)
        adjusted == Rank(LAMBDA j : j.memory.score)
    IN  IF base = 0 THEN "unknown"
        ELSE IF adjusted < base THEN "promoted" ELSE IF adjusted > base THEN "demoted" ELSE "unchanged"

DecisionAudit ==
    [id |-> made, made |-> tick, source |-> decision.snapshot[1].source,
     confidence |-> AuditConfidence(decision.snapshot),
     influence |-> ValueInfluence(decision.snapshot[1]),
     ranking |-> RankingEffect(decision.snapshot)]

(* ActionGuardAuditObserver._summary.                                      *)
GuardEffect(guard, score) ==
    LET blocked == SelectSeq(guard, LAMBDA j : ~j.allowed)
    IN  IF blocked = << >> THEN "no_blocked_candidates"
        ELSE IF \E i \in DOMAIN blocked : blocked[i].score > score THEN "blocked_high_score_candidate"
        ELSE IF Len(guard) = Len(blocked) + 1 /\ Len(blocked) >= 2 THEN "selected_was_only_allowed_candidate"
        ELSE "blocked_low_score_only"

GuardSeverity(effect, blocked) ==
    IF blocked = 0 THEN "none"
    ELSE IF effect = "blocked_high_score_candidate" THEN "high"
    ELSE IF blocked >= 2 THEN "medium" ELSE "low"

GuardAudit ==
    LET effect == GuardEffect(decision.guard, decision.score)
        blocked == Len(SelectSeq(decision.guard, LAMBDA j : ~j.allowed))
    IN  [id |-> made, effect |-> effect, severity |-> GuardSeverity(effect, blocked), blocked |-> blocked]

-----------------------------------------------------------------------------
(* DecisionCycleSummaryObserver: status, confidence and flags.             *)
CycleStatus(audit, guard) ==
    IF guard.severity = "high" THEN "risky_or_constrained_selection"
    ELSE IF guard.effect \in {"blocked_high_score_candidate", "selected_was_only_allowed_candidate"}
         THEN "guard_constrained_selection"
    ELSE IF audit.influence # "none_or_tiny" THEN "value_influenced_selection"
    ELSE IF audit.confidence \in {"narrow_win", "tie_like"} THEN "uncertain_selection"
    ELSE "clean_selection"

CycleConfidence(audit, guard) ==
    IF audit.confidence = "clear_win" /\ guard.severity \in {"none", "low"} THEN "high"
    ELSE IF audit.confidence \in {"narrow_win", "single_candidate"} \/ guard.severity = "medium" THEN "medium"
    ELSE "low"

Flags(audit, guard) ==
    (CASE audit.influence = "positive_bonus" -> {"value_promoted_selected"}
       [] audit.influence = "negative_penalty" -> {"value_penalized_selected"}
       [] OTHER -> {"no_value_influence"})
    \cup (CASE audit.confidence = "narrow_win" -> {"narrow_decision"}
            [] audit.confidence = "tie_like" -> {"tie_like_decision"}
            [] audit.confidence = "single_candidate" -> {"single_candidate"}
            [] OTHER -> {})
    \cup (IF guard.effect = "blocked_high_score_candidate" THEN {"guard_blocked_high_score"} ELSE {})

Summary(audit, guard) ==
    [decision |-> audit.id, tick |-> tick, status |-> CycleStatus(audit, guard),
     confidence |-> CycleConfidence(audit, guard), flags |-> Flags(audit, guard)]

\* Mutant: a summary is made whenever there is an audit.
Due_Always(audit) == TRUE

(* What makes a summary due: none was made yet, or the last one is old.    *)
(* The signature of audit and guard audit cannot change while the two are  *)
(* remembered for equally long, and is left out.                           *)
Due(audit) == audit.id \notin DOMAIN emitted \/ tick - emitted[audit.id] >= Again

-----------------------------------------------------------------------------
(* DecisionCycleHistoryView.refresh: the counts and the trend.             *)
History(recent) ==
    LET Count(Test(_)) == Len(SelectSeq(recent, Test))
        Clean(s) == s.status = "clean_selection"
        Risky(s) == s.status = "risky_or_constrained_selection"
        Guarded(s) == s.status \in {"guard_constrained_selection", "risky_or_constrained_selection"}
                        \/ "guard_blocked_high_score" \in s.flags
        Uncertain(s) == s.status = "uncertain_selection"
                        \/ s.flags \cap {"narrow_decision", "tie_like_decision"} # {}
        Valued(s) == s.flags \cap {"value_promoted_selected", "value_penalized_selected"} # {}
    IN  [observed |-> Len(recent), clean |-> Count(Clean), risky |-> Count(Risky),
         guarded |-> Count(Guarded), uncertain |-> Count(Uncertain), valued |-> Count(Valued)]

(* _trend_label.                                                           *)
Trend(h) ==
    IF h.observed = 0 THEN "no_data"
    ELSE IF 10 * h.clean >= 6 * h.observed THEN "mostly_clean"
    ELSE IF 10 * h.guarded >= 3 * h.observed THEN "guard_constrained_recent_history"
    ELSE IF 10 * h.uncertain >= 3 * h.observed THEN "uncertain_recent_history"
    ELSE IF 10 * h.valued >= 3 * h.observed THEN "value_influenced_recent_history"
    ELSE "mixed_recent_history"

(* ReflectionCandidateBuilder: each with its severity; its confidence is   *)
(* how full the window is, and a little more when it is severe.            *)
Candidate(h, type, severity) ==
    [type |-> type, severity |-> severity,
     confidence |-> Clamp(Min({1000, (1000 * h.observed) \div HistoryWindow})
                            + (CASE severity = "medium" -> 50 [] severity = "high" -> 100 [] OTHER -> 0))]

ReflectionCandidates(h) ==
    LET trend == Trend(h)
    IN  IF h.observed = 0 THEN {Candidate(h, "no_decision_history", "info")}
        ELSE (IF h.observed < MinObserved THEN {Candidate(h, "insufficient_decision_confidence", "low")} ELSE {})
             \cup (CASE trend = "uncertain_recent_history" ->
                            {Candidate(h, "repeated_uncertain_selection", "medium")}
                     [] trend = "guard_constrained_recent_history" ->
                            {Candidate(h, "guard_policy_tension", IF h.risky > 0 THEN "high" ELSE "medium")}
                     [] trend = "mostly_clean" -> {Candidate(h, "stable_clean_selection", "info")}
                     [] trend = "mixed_recent_history" -> {Candidate(h, "mixed_cycle_history", "low")}
                     [] OTHER -> {})
             \cup (IF h.observed >= MinObserved /\ h.valued = 0 /\ trend # "value_influenced_recent_history"
                   THEN {Candidate(h, "weak_value_influence", "low")} ELSE {})

-----------------------------------------------------------------------------
\* Mutant: repeated uncertainty asks for nothing.
AsksForEvidence_NotUncertain(c) ==
    \/ c.type \in {"insufficient_decision_confidence", "mixed_cycle_history"}
    \/ c.type = "guard_policy_tension" /\ c.severity \in {"medium", "high"}

(* _active_option of NeedMoreEvidenceSignalBuilder.                        *)
AsksForEvidence(c) ==
    \/ c.type \in {"repeated_uncertain_selection", "insufficient_decision_confidence", "mixed_cycle_history"}
    \/ c.type = "guard_policy_tension" /\ c.severity \in {"medium", "high"}

SeverityRank(s) == CASE s = "high" -> 3 [] s = "medium" -> 2 [] s = "low" -> 1 [] OTHER -> 0
ReasonRank(t) ==
    CASE t = "repeated_uncertain_selection" -> 0 [] t = "insufficient_decision_confidence" -> 1
      [] t = "guard_policy_tension" -> 2 [] OTHER -> 3

(* The most severe gap, then the first reason.                             *)
Signal(candidates) ==
    LET gaps == {c \in candidates : AsksForEvidence(c)}
        Ahead(c, d) == \/ SeverityRank(c.severity) > SeverityRank(d.severity)
                       \/ SeverityRank(c.severity) = SeverityRank(d.severity)
                            /\ ReasonRank(c.type) <= ReasonRank(d.type)
        first == CHOOSE c \in gaps : \A d \in gaps : Ahead(c, d)
    IN  IF gaps = {} THEN [active |-> FALSE, severity |-> "info", reason |-> "no_evidence_gap_detected", confidence |-> 0]
        ELSE [active |-> TRUE, severity |-> first.severity, reason |-> first.type, confidence |-> first.confidence]

(* ReflectionReviewBuilder: the first that applies.                        *)
ReviewStatus(h, candidates, signal) ==
    LET types == {c.type : c \in candidates}
    IN  IF h.observed = 0 THEN "no_reflection_data"
        ELSE IF signal.active THEN "needs_more_evidence"
        ELSE IF "guard_policy_tension" \in types THEN "guard_policy_tension"
        ELSE IF "weak_value_influence" \in types THEN "weak_value_signal"
        ELSE IF Trend(h) = "mostly_clean" THEN "stable_recent_behavior"
        ELSE IF Trend(h) = "uncertain_recent_history" THEN "uncertain_recent_behavior"
        ELSE "mixed_reflection_state"

ReviewConfidence(h, candidates, signal) ==
    IF signal.active THEN signal.confidence
    ELSE IF candidates # {} THEN Max({c.confidence : c \in candidates})
    ELSE Clamp((1000 * h.observed) \div HistoryWindow)

(* PolicyPressureBuilder.                                                  *)
Pressure(status, confidence) ==
    LET Of(type, active) == [type |-> type, active |-> active, confidence |-> confidence]
    IN  CASE status = "no_reflection_data" -> [Of("no_policy_pressure", FALSE) EXCEPT !.confidence = 0]
          [] status = "needs_more_evidence" -> Of("evidence_pressure", TRUE)
          [] status = "uncertain_recent_behavior" -> Of("uncertainty_pressure", TRUE)
          [] status = "guard_policy_tension" -> Of("guard_pressure", TRUE)
          [] status = "weak_value_signal" -> Of("value_signal_pressure", TRUE)
          [] status = "mixed_reflection_state" -> Of("mixed_policy_pressure", TRUE)
          [] status = "stable_recent_behavior" -> Of("stability_pressure", FALSE)

(* PolicyPressureReviewBuilder, with the issue it names.                   *)
PressureReview(pressure, reason) ==
    [type |-> pressure.type, active |-> pressure.active, confidence |-> pressure.confidence,
     issue |-> CASE pressure.type = "no_policy_pressure" -> "none"
                 [] pressure.type = "stability_pressure" -> "stable_recent_behavior"
                 [] pressure.type = "evidence_pressure" -> reason
                 [] pressure.type = "uncertainty_pressure" -> "repeated_uncertain_selection"
                 [] pressure.type = "guard_pressure" -> "guard_policy_tension"
                 [] pressure.type = "value_signal_pressure" -> "weak_value_influence"
                 [] pressure.type = "mixed_policy_pressure" -> "mixed_cycle_history"]

(* ModeCMemoryGateAdvisoryProvider.                                        *)
Advisories(pressureReview) ==
    IF ~Advised THEN << >>
    ELSE <<[type |-> pressureReview.type, confidence |-> pressureReview.confidence,
            reason |-> pressureReview.issue, apply |-> FALSE]>>

-----------------------------------------------------------------------------
Init ==
    /\ tick = 0 /\ pc = "idle"
    /\ InitChoice
    /\ audits = << >> /\ guards = << >> /\ summaries = << >>
    /\ emitted = [i \in {} |-> 0] /\ made = 0
    /\ opinion = None

Tick ==
    /\ pc = "idle" /\ tick < MaxTick
    /\ tick' = tick + 1 /\ pc' = "propose"
    /\ UNCHANGED <<choice, review>>

Propose ==
    /\ pc = "propose" /\ pc' = "select"
    /\ \E in \in Inputs : ProposeStep(in)
    /\ UNCHANGED <<tick, review>>

Select ==
    /\ pc = "select"
    /\ SelectStep
    /\ pc' = (IF decision' = None THEN "search" ELSE "audit")
    /\ made' = made + (IF decision' = None THEN 0 ELSE 1)
    /\ UNCHANGED <<tick, mode, searches, audits, guards, summaries, emitted, opinion>>

(* Phase 4: both audits, one after the other.                              *)
Audit ==
    /\ pc = "audit" /\ pc' = "summarise"
    /\ audits' = LastN(Append(audits, DecisionAudit), Window)
    /\ guards' = LastN(Append(guards, GuardAudit), Window)
    /\ UNCHANGED <<tick, choice, summaries, emitted, made, opinion>>

(* Phase 4: every remembered audit whose summary is due, oldest first.     *)
Summarise ==
    /\ pc = "summarise" /\ pc' = "search"
    /\ LET due == SelectSeq(audits, Due)
           GuardOf(audit) == guards[SelectInSeq(guards, LAMBDA g : g.id = audit.id)]
           new == [i \in DOMAIN due |-> Summary(due[i], GuardOf(due[i]))]
           ids == {audits[i].id : i \in DOMAIN audits}
       IN  /\ summaries' = LastN(summaries \o new, HistoryWindow)
           /\ emitted' = [i \in ids |-> IF \E k \in DOMAIN due : due[k].id = i THEN tick ELSE emitted[i]]
    /\ UNCHANGED <<tick, choice, audits, guards, made, opinion>>

(* Phases 5 and 6: the mode may change, a search may come.                 *)
Search ==
    /\ pc = "search" /\ pc' = "view"
    /\ \E to \in Modes : ModeStep(to)
    /\ \E in \in Inputs : SearchStep(in)
    /\ UNCHANGED <<tick, cooldowns, decision, review>>

(* Phase 10.                                                               *)
View ==
    /\ pc = "view" /\ pc' = "idle"
    /\ LET history == History(summaries)
           candidates == ReflectionCandidates(history)
           signal == Signal(candidates)
           status == ReviewStatus(history, candidates, signal)
           pressure == Pressure(status, ReviewConfidence(history, candidates, signal))
           pressureReview == PressureReview(pressure, signal.reason)
       IN  opinion' = [history |-> history, signal |-> signal, status |-> status,
                       pressure |-> pressure, advice |-> Advisories(pressureReview)]
    /\ UNCHANGED <<tick, choice, audits, guards, summaries, emitted, made>>

Next == Tick \/ Propose \/ Select \/ Audit \/ Summarise \/ Search \/ View

Spec == Init /\ [][Next]_vars
-----------------------------------------------------------------------------
(***************************************************************************)
(* Properties                                                              *)
(***************************************************************************)
\* What is decided is the best there is among what the guard lets through and
\* is not silenced, and nothing is decided only if there is nothing good
\* enough: unless TopLimit candidates that score higher before the guard,
\* silenced or blocked ones among them, crowd it out.
BestUnlessCrowded ==
    pc \in {"audit", "summarise", "search"} =>
        \A i \in DOMAIN field :
            LET c == field[i]
                ahead == {k \in DOMAIN field : FinalScore(field[k]) >= FinalScore(c)}
                chosen == decision # None /\ decision.pattern = c.pattern
                best == IF decision = None THEN Threshold - 1 ELSE decision.score
            IN  (Factor(c.pattern) > 0 /\ ~chosen /\ ~Suppressed(cooldowns, c.pattern)
                    /\ FinalScore(Adjusted(c)) > best)
                => Cardinality(ahead) + (IF decision = None THEN 0 ELSE 1) > TopLimit

\* However long the searches of before are remembered, what experience
\* proposed is gone from the field when a consolidation has lasted a ttl.
ExperienceIsForgotten ==
    pc = "select" /\ mode.name = "consolidation" /\ tick - mode.entered >= Ttl =>
        \A i \in DOMAIN field : field[i].source = "rule"

\* A decision is summarised in the tick it is made in, then at most every Again
\* ticks, though it stays among the audited.
RecountedSlowly ==
    /\ \A i, j \in DOMAIN summaries : i < j /\ summaries[i].decision = summaries[j].decision
            => summaries[j].tick - summaries[i].tick >= Again
    /\ pc # "summarise" /\ Len(summaries) < HistoryWindow =>
            \A i \in DOMAIN audits : \E k \in DOMAIN summaries :
                summaries[k].decision = audits[i].id /\ summaries[k].tick = audits[i].made

\* The views are those of the present summaries.  Fewer than MinObserved of
\* them give no verdict but that more evidence is needed, and since a decision
\* comes again only with another, that many take at least so many decisions
\* that they add up to it one by one.  Tension with the guard and uncertainty
\* always ask for evidence and never press by themselves; a lack of value weighs
\* only on decisions that are clean, and they pass for stable only when value
\* has played a part in them.
VerdictsAreEarned ==
    opinion # None =>
        /\ pc = "idle" => opinion.history = History(summaries)
        /\ opinion.pressure.type \notin {"no_policy_pressure", "evidence_pressure"} =>
                /\ opinion.history.observed >= MinObserved
                /\ made * (made + 1) >= 2 * MinObserved
        /\ opinion.pressure.type \notin {"guard_pressure", "uncertainty_pressure"}
        /\ opinion.pressure.type \in {"value_signal_pressure", "stability_pressure"} =>
                /\ 10 * opinion.history.clean >= 6 * opinion.history.observed
                /\ opinion.pressure.type = "stability_pressure" <=> opinion.history.valued > 0
        /\ \A i \in DOMAIN opinion.advice :
                /\ Advised /\ ~opinion.advice[i].apply
                /\ opinion.advice[i].reason = "insufficient_decision_confidence" => opinion.history.observed < MinObserved
=============================================================================
