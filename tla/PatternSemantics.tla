-------------------------- MODULE PatternSemantics --------------------------
(***************************************************************************)
(* What a pattern means, inferred from its name when it is registered, and *)
(* the filters that memory writing puts on patterns.  A name is known here *)
(* by what the code asks of it: the prefixes, suffixes and parts it has,   *)
(* and for some sets of names whether it is one of them.                   *)
(***************************************************************************)
EXTENDS Integers, Sequences, FiniteSets

CONSTANTS
    Starts,     \* name -> its prefix up to the first underscore
    Holds,      \* name -> the words the code searches for anywhere in it
    Semantics   \* name -> what the registry keeps of it

-----------------------------------------------------------------------------
OrdinaryActions == {"action_increase_attention", "action_preserve_integrity", "action_reduce_load",
    "action_wait_more_data", "action_continue_observation", "action_inspect_pattern",
    "action_generate_more_thought"}

OrdinaryEffects == {"state_attention_increased", "state_integrity_preservation", "state_load_reduced",
    "state_observation_continues", "state_pattern_inspection", "state_waiting_for_more_data",
    "state_more_thought_requested"}

ModeManagement == {"action_enter_consolidation_mode", "action_exit_consolidation_mode",
    "state_consolidation_mode_entered", "state_consolidation_mode_exited", "system_mode_active",
    "system_mode_consolidation", "system_mode_recovery"}

ConsolidationInternal == {"state_consolidation_processing", "state_pending_candidates_reviewed",
    "state_context_load_reduced", "state_memory_candidate_created", "action_commit_memory_draft",
    "state_memory_draft_commit_requested", "committed_draft_observed", "committed_draft_strengthened",
    "committed_draft_pending_expsm_update", "action_review_committed_memory_update",
    "state_committed_memory_update_review_requested", "action_update_committed_expsm_record",
    "state_committed_expsm_update_requested", "state_memory_updated", "state_memory_update_failed"}

Maintenance == {"consolidation_pressure", "consolidation_pressure_low",
    "consolidation_pressure_medium", "consolidation_pressure_high"}

MemoryWrite == {"memory_write_review", "memory_draft_written", "memory_draft_commit_review",
    "memory_committed", "committed_draft_observed", "expsm_update_review", "memory_updated",
    "value_feedback_review", "value_feedback_updated", "module_update", "system_mode_change"}

Integrity == {"action_preserve_integrity", "state_integrity_preservation", "tone_stability_low",
    "tone_integrity_low", "tone_risk_sensitivity_high", "internal_instability",
    "internal_preserve_integrity", "experienced_risk_pattern", "internal_state_risk",
    "sen_integrity_warning", "sen_resource_pressure"}

Load == {"sen_resource_pressure", "action_reduce_load", "state_load_reduced", "tone_fatigue_high",
    "tone_tension_high", "sen_memory_pressure"}

Attention == {"action_increase_attention", "state_attention_increased", "periodic_audio_pattern",
    "novel_activation_pattern", "prediction_future_state", "internal_attention_audio",
    "internal_attention_visual", "label_novelty", "label_risk"}

Inspection == {"novel_activation_pattern", "label_novelty", "action_inspect_pattern",
    "state_pattern_inspection", "known_memory_pattern", "related_memory_pattern"}

-----------------------------------------------------------------------------
(* infer_pattern_semantics: the first kind that the name is of.            *)
Kind(starts, holds, class, tags) ==
    [starts |-> starts, holds |-> holds, class |-> class, tags |-> tags]

Kinds == <<
    Kind({}, {"decision_audit"}, "audit", {"audit", "decision_audit"}),
    Kind({}, {"action_guard_audit"}, "audit", {"audit", "guard_audit"}),
    Kind({}, {"decision_cycle"}, "audit", {"audit", "cycle_summary"}),
    Kind({"aud"}, {}, "input", {"input", "audio_input"}),
    Kind({"img"}, {}, "input", {"input", "visual_input"}),
    Kind({"sen"}, {}, "input", {"input", "sensor_input"}),
    Kind({"action"}, {}, "action", {"action", "runtime"}),
    Kind({"label"}, {"_pattern$", "label"}, "label", {"label"}),
    Kind({"prediction", "future"}, {"prediction"}, "prediction", {"prediction"}),
    Kind({"state"}, {}, "effect", {"effect"}),
    Kind({"outcome"}, {}, "outcome", {"outcome"}),
    Kind({"memory"}, {"^draft_commit", "^committed_draft"}, "memory", {"memory"}),
    Kind({"consolidation"}, {}, "consolidation", {"consolidation"}),
    Kind({"value"}, {"value_feedback"}, "evaluation", {"evaluation", "value_feedback"}),
    Kind({"evaluation"}, {}, "evaluation", {"evaluation"}),
    Kind({"akbsm"}, {}, "akbsm", {"akbsm", "association"}),
    Kind({"expsm"}, {}, "expsm", {"expsm"}),
    Kind({"target"}, {"target_"}, "target", {"target"}),
    Kind({"system"}, {}, "system", {"system"}),
    Kind({"homeostasis"}, {}, "tone", {"tone", "internal"}),
    Kind({"tone", "high"}, {}, "tone", {"tone"}),
    Kind({}, {"retention"}, "retention", {"retention"}),
    Kind({"debug"}, {}, "debug", {"debug"}),
    Kind({"internal", "thought", "learnability"}, {}, "system", {"internal"}),
    Kind({Starts[n] : n \in DOMAIN Starts}, {}, "unknown", {}) >>

KindOf(n) ==
    LET Is(k) == Starts[n] \in Kinds[k].starts \/ Holds[n] \cap Kinds[k].holds # {}
    IN  Kinds[CHOOSE k \in DOMAIN Kinds : Is(k) /\ \A j \in 1..(k - 1) : ~Is(j)]

Unlearnable == {"audit", "memory", "consolidation", "evaluation", "target", "akbsm", "expsm",
    "system", "tone", "retention", "debug"}

InternalOnly(n) == n \in ModeManagement \cup ConsolidationInternal \cup Maintenance
                      \/ Starts[n] = "homeostasis"

If(condition, tags) == IF condition THEN tags ELSE {}

(* The class, the tags and the learnability of a name.                     *)
InferPatternSemantics ==
    [n \in DOMAIN Starts |->
        LET kind == KindOf(n)
        IN  [semantic_class |-> kind.class,
             tags |-> kind.tags
                \cup If(n \in OrdinaryActions, {"ordinary_action"})
                \cup If(n \in OrdinaryEffects, {"ordinary_effect"})
                \cup If(kind.class = "expsm" /\ "mechanism" \in Holds[n], {"mechanism"})
                \cup If(n \in ModeManagement, {"mode_management"})
                \cup If(n \in ConsolidationInternal, {"consolidation_internal"})
                \cup If(n \in Maintenance, {"maintenance"})
                \cup If(Starts[n] = "homeostasis", {"homeostasis"})
                \cup If(InternalOnly(n), {"internal"})
                \cup If(InternalOnly(n) \/ kind.class \in Unlearnable, {"non_learnable"})
                \cup If(n \in MemoryWrite, {"memory_write_technical", n})
                \cup If(n \in Integrity, {"draft_family_integrity"})
                \cup If(n \in Load, {"draft_family_load"})
                \cup If(n \in Attention, {"draft_family_attention"})
                \cup If(n \in Inspection, {"draft_family_inspection"})
                \cup If(n = "internal_attention_visual", {"visual_attention"})
                \cup If(n \in {"internal_learning_candidate", "prediction_future_state"},
                        {"generic_draft_context"})
                \cup If(n = "outcome_confirmed", {"confirmed_outcome"}),
             learnability |->
                IF InternalOnly(n) \/ kind.class \in Unlearnable THEN "internal_only"
                ELSE IF kind.class \in {"action", "input", "label", "prediction", "effect", "outcome"}
                THEN "normal" ELSE "unknown"]]

SemanticsAssumption == Semantics = InferPatternSemantics

Class(n) == Semantics[n].semantic_class
Tags(n) == Semantics[n].tags
IsAudit(n) == Class(n) = "audit" \/ "audit" \in Tags(n)
IsInternalOnly(n) == Semantics[n].learnability = "internal_only" \/ "internal" \in Tags(n)
IsNonLearnable(n) ==
    \/ Semantics[n].learnability \in {"non_learnable", "internal_only"}
    \/ "non_learnable" \in Tags(n)

-----------------------------------------------------------------------------
(* draft_semantic_filters.                                                 *)
DraftMaterialClasses == {"input", "label", "prediction", "action", "effect", "outcome", "target",
    "evaluation", "expsm", "akbsm", "memory", "tone"}

IsDraftTechnicalNoise(n) ==
    \/ IsAudit(n)
    \/ Class(n) \in {"system", "debug", "retention"}
    \/ Tags(n) \cap {"audit", "internal", "memory_write_technical", "mode_management",
                     "consolidation_internal", "maintenance", "homeostasis"} # {}
    \/ IsNonLearnable(n) /\ Class(n) \notin DraftMaterialClasses

IsDraftContextMaterial(n) == ~IsDraftTechnicalNoise(n) /\ Class(n) \in DraftMaterialClasses

DraftFamilies(n) == Tags(n) \cap {"draft_family_integrity", "draft_family_load",
                                  "draft_family_attention", "draft_family_inspection"}

DraftCoreFamilies(names) == UNION {DraftFamilies(n) : n \in names}

DifferentModalityWithoutLink(n, families) ==
    \/ "draft_family_integrity" \in families /\ "visual_attention" \in Tags(n)
    \/ "draft_family_load" \in families /\ "visual_input" \in Tags(n)

CompetingDraftFamily(n, families) ==
    \/ "draft_family_integrity" \in families /\ "draft_family_attention" \in Tags(n)
    \/ "draft_family_attention" \in families /\ "draft_family_integrity" \in Tags(n)

(* memory_write_filters: what a record of experience may not be made of.   *)
IsMemoryWriteTechnicalPattern(n) ==
    LET material == Class(n) \in {"input", "action", "effect", "outcome", "prediction", "target",
                                  "evaluation", "expsm", "akbsm"}
    IN  \/ IsAudit(n)
        \/ (IsInternalOnly(n) \/ IsNonLearnable(n)) /\ ~material
        \/ Class(n) \in {"system", "debug", "retention"}
        \/ Tags(n) \cap {"audit", "internal", "memory_write_technical", "memory_write_review",
                "memory_draft_written", "memory_draft_commit_review", "memory_committed",
                "committed_draft_observed", "expsm_update_review", "memory_updated",
                "value_feedback_review", "value_feedback_updated", "module_update",
                "system_mode_change", "consolidation_pressure", "retention"} # {}
=============================================================================
