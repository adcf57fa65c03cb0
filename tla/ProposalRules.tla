--------------------------- MODULE ProposalRules ---------------------------
(***************************************************************************)
(* The rules of ActionProposer: which actions the active patterns and the  *)
(* tone call for, by how much and with what urgency.  Thousandths, rounded *)
(* down.  What the proposer sees: shows, the activations of the patterns   *)
(* of the field; tone; pending, how many consolidation candidates are      *)
(* recent; labelled, the risk of the labels of the tick.                   *)
(***************************************************************************)
EXTENDS Integers, Sequences, FiniteSets, FiniteSetsExt, SequencesExt

CONSTANTS
    None,           \* no experience behind a rule, no activation or search
    ExitAfter       \* ticks of consolidation before a rule asks to leave it, 3

LOCAL Of(x, share) == (x * share) \div 1000

\* What a pattern that is not shown proposes is proposed by nothing.
Activation(sees, pattern) == IF pattern \in DOMAIN sees.shows THEN sees.shows[pattern] ELSE 0

(* _propose.                                                               *)
Rule(pattern, amount, confidence, urgency, risk, cost) ==
    [pattern |-> pattern, amount |-> amount, confidence |-> confidence, urgency |-> urgency,
     risk |-> risk, cost |-> cost, source |-> "rule", memory |-> None,
     origin |-> None]

LOCAL When(condition, rules) == IF condition THEN rules ELSE <<>>

(* Pressure asks for consolidation, in the active mode only; a medium one  *)
(* only where there is no high one.                                        *)
EnterRules(sees, mode) ==
    LET high == Activation(sees, "consolidation_pressure_high")
        medium == Activation(sees, "consolidation_pressure_medium")
        urgency == Min({950, 720 + Of(sees.tone.fatigue, 200) + Min({25 * sees.pending, 150})})
    IN  IF mode # "active" THEN <<>>
        ELSE IF high > 0 THEN <<Rule("enter_consolidation_mode", high, 900, urgency, 20, 80)>>
        ELSE <<Rule("enter_consolidation_mode", Of(medium, 750), 660, 350, 20, 80)>>

(* In consolidation only work on memory is proposed, and after a while the *)
(* way out.                                                                *)
ConsolidationRules(sees, elapsed) ==
    LET A(pattern) == Activation(sees, pattern)
    IN  <<Rule("commit_memory_draft", A("draft_commit_ready"), 880, 460, 30, 160),
          Rule("review_committed_memory_update", A("committed_draft_pending_update"), 820, 380, 20, 100),
          Rule("update_committed_expsm_record", A("expsm_update_approved"), 780, 340, 20, 120),
          Rule("store_memory_candidate", A("memory_review_approved"), 860, 550, 40, 180),
          Rule("continue_observation", Of(A("memory_review_needs_more_support"), 600), 580, 180, 20, 50),
          Rule("inspect_pattern", Max({A("memory_review_rejected_incomplete"),
                                       A("memory_review_rejected_unstable")}), 620, 280, 60, 120)>>
        \o When(elapsed >= ExitAfter, <<Rule("exit_consolidation_mode", 720, 780, 450, 20, 80)>>)

(* What thoughts and homeostasis ask for.                                  *)
ThoughtRules(sees) ==
    LET A(pattern) == Activation(sees, pattern)
        Load == A("homeostasis_reduce_load")
        Whole == A("homeostasis_preserve_integrity")
        Relief == A("homeostasis_tension_relief")
    IN  <<Rule("wait_more_data", A("thought_need_more_data"), 620, 200, 50, 100),
          Rule("continue_observation", Of(A("thought_need_more_data"), 800), 580, 150, 20, 50),
          Rule("increase_attention", A("thought_increase_attention"), 720, 350, 80, 180),
          Rule("inspect_pattern", A("thought_inspect_pattern"), 680, 180, 80, 120),
          Rule("store_memory_candidate", A("thought_store_candidate"), 600, 120, 120, 200),
          Rule("preserve_integrity", A("thought_preserve_integrity"), 820, 650, 50, 220),
          Rule("reduce_load", A("thought_reduce_load"), 720, 450, 40, 180),
          Rule("reduce_load", Load, 820, Min({750, 350 + Of(Load, 400)}), 30, 140),
          Rule("preserve_integrity", Whole, 840, Min({800, 450 + Of(Whole, 350)}), 40, 200),
          Rule("wait_more_data", Of(Relief, 550), 550, 80, 20, 80),
          Rule("continue_observation", Of(Relief, 650), 580, 80, 10, 40)>>

ToneRules(tone) ==
    When(tone.tension > 500, <<Rule("increase_attention", tone.tension, 650, 450, 100, 180)>>)
    \o When(tone.curiosity > 500 /\ tone.risk_sensitivity < 800,
            <<Rule("inspect_pattern", tone.curiosity, 600, 200, 80, 120)>>)
    \o When(tone.integrity < 800,
            <<Rule("preserve_integrity", Max({650, 1000 - tone.integrity}), 820, 750, 50, 250),
              Rule("reduce_load", Max({550, 1000 - tone.integrity}), 720, 550, 40, 200)>>)
    \o When(tone.fatigue > 600, <<Rule("reduce_load", tone.fatigue, 680, 350, 30, 150)>>)

(* What waits to be remembered, where no risk is near; and risk itself.    *)
MemoryRules(sees) ==
    LET A(pattern) == Activation(sees, pattern)
        risk == Max({A("risk_label"), A("internal_risk_label")})
    IN  When(risk >= 600, <<Rule("increase_attention", risk, 780, 750, 120, 200)>>)
        \o When(risk < 650,
                <<Rule("store_memory_candidate", A("experience_pending_consolidation"), 700, 280, 80, 200),
                  Rule("store_memory_candidate", A("consolidation_pending_memory_write"), 820, 420, 80, 200)>>)

(* What went badly, and what is new and not risky.                         *)
LessonRules(sees) ==
    LET A(pattern) == Activation(sees, pattern)
        Failed == A("experience_negative_candidate")
        Grouped == A("consolidation_negative_candidate")
        New == A("novelty_label")
    IN  <<Rule("inspect_pattern", Failed, 720, 320, 80, 120),
          Rule("generate_more_thought", Of(Failed, 700), 620, 220, 50, 80),
          Rule("inspect_pattern", Grouped, 780, 420, 80, 120),
          Rule("generate_more_thought", Of(Grouped, 750), 680, 280, 50, 80)>>
        \o When(New >= 450 /\ sees.labelled < 400,
                <<Rule("inspect_pattern", New, 700, 250, 60, 120),
                  Rule("store_memory_candidate", Of(New, 800), 580, 150, 100, 220)>>)

Moved(rules) == SelectSeq(rules, LAMBDA r : r.amount > 0)

(* propose: in consolidation the proposer returns before it comes to       *)
(* experience and to the other rules.                                      *)
Wanted(sees, mode, elapsed, remembered) ==
    Moved(IF mode = "consolidation" THEN ConsolidationRules(sees, elapsed)
          ELSE EnterRules(sees, mode) \o remembered \o ThoughtRules(sees)
                 \o ToneRules(sees.tone) \o MemoryRules(sees) \o LessonRules(sees))
=============================================================================
