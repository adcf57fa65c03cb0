-------------------------- MODULE EvaluationChain --------------------------
(***************************************************************************)
(* From what happens in a tick to what the active field shows and what the *)
(* system values: the phases of CLCRuntime._run_tick that run the field     *)
(* updater, the ExpSM activation and its observers, the evaluation signals, *)
(* the evaluation field, its targets, the AKBSM probe with the association  *)
(* field, and the mechanism search.                                        *)
(*                                                                         *)
(* The operations that other modules post are taken from Feed, each in the  *)
(* phase that posts it.  Retention is not modelled here (see ContextFlow):  *)
(* the log keeps everything, so that the operations the updater has         *)
(* projected are a prefix of it.                                           *)
(*                                                                         *)
(* The tick is the caller's (feed_audio, feed_sensor, feed_image): a later  *)
(* call may have the number of the one before it, or leave some out.       *)
(***************************************************************************)
EXTENDS ExperienceRecall

CONSTANTS
    Feed(_),        \* the sequences of operations a phase may be given
    Edges,          \* AKBSM: a sequence of [from, to, type, weight]
    Experiences,    \* ExpSM: a sequence of records
    MaxSignals,     \* MAX_EVALUATIONS_PER_TICK
    MaxTargets,     \* MAX_TARGETS_PER_TICK of the target observer
    MaxProbes,      \* MAX_PROBES_PER_TICK
    MaxSearched,    \* MAX_TARGETS_PER_TICK of the mechanism search
    MaxGroups,      \* MAX_GROUPS_PER_RUN of the similarity observer
    Recent,         \* the signals and probes a field's updater looks back at
    MaxApplied,     \* the ids of applied ones it remembers at most
    KeptApplied,    \* how many are left when it forgets some
    Apart,          \* by how much a caller's tick is after the last one
    MaxCalls,       \* bound: calls of _run_tick
    MaxFed          \* bound: phases that are given something

ASSUME ChainAssumption ==
    /\ {MaxTargets, MaxProbes, MaxSearched, MaxGroups, MaxCalls, MaxFed} \subseteq Nat
    /\ MaxSignals \in Nat \ {0} /\ Recent \in Nat \ {0} /\ Apart \subseteq Nat
    /\ MaxApplied \in Nat /\ KeptApplied \in 0 .. MaxApplied

VARIABLES
    ran,            \* the tick of every call of _run_tick so far
    phase,          \* which group of phases is next
    mode,           \* SystemState.mode
    processing,     \* active_processing: the mode was not consolidation at its start
    fed,            \* phases given something so far
    log,            \* ContextMemory.events
    projected,      \* how many of them the field updater has processed
    field,          \* ActiveContextField
    values,         \* EvaluationField and its updater: entries, ids, _last_decay_tick
    links,          \* AKBSMAssociationField and its updater, likewise
    emitted,        \* _emitted_keys of the evaluation signals
    observed,       \* _last_observations: (pattern, roles) -> tick and score
    probed,         \* _last_probes: (pattern, kind, roles) -> tick and score
    searched,       \* _last_emissions: target observation -> experiences found
    grouped         \* _emitted_group_keys of the similarity observer
vars == <<ran, phase, mode, processing, fed, log, projected, field, values,
          links, emitted, observed, probed, searched, grouped>>

Never == -1
Tick == IF ran = <<>> THEN 0 ELSE Last(ran)
Active(m) == m \in {"active", "recovery"}
Post(events, ops, calls) ==
    events \o [i \in DOMAIN ops |->
        [tick |-> Last(calls), call |-> Len(calls), id |-> Len(events) + i] @@ ops[i]]
OfMarker(events, marker) == SelectSeq(events, LAMBDA e : e.marker = marker)
LastOf(events, marker, n) ==
    LET all == OfMarker(events, marker)
    IN  SubSeq(all, Higher(1, Len(all) - n + 1), Len(all))
OfTick(events, now) == SelectSeq(events, LAMBDA e : e.tick = now)

\* update_from_memory: what was posted after the first n events.  The choice
\* from one element has TLC finish with an event before it begins the next.
Updated(shown, n, events) ==
    LET Projected(f, e) == CHOOSE g \in {Project(h, e) : h \in {f}} : TRUE
    IN  FoldLeft(Projected, shown, SubSeq(events, n + 1, Len(events)))

(***************************************************************************)
(* EvaluationSignalModule                                                  *)
(***************************************************************************)
Dimensions == {"usefulness", "harmfulness", "need", "want", "avoid", "safety", "priority"}
Saying(said) == said @@ [d \in Dimensions |-> 0]
PositiveSaid == Saying([usefulness |-> 650, need |-> 550, safety |-> 700, priority |-> 550])
HarmSaid == Saying([harmfulness |-> 650, avoid |-> 700, need |-> 450, priority |-> 700])
LowValueSaid == Saying([usefulness |-> 100, safety |-> 300, priority |-> 200])
ToneHarmSaid == Saying([harmfulness |-> 500, avoid |-> 600, need |-> 550, priority |-> 650])
TonePositiveSaid == Saying([usefulness |-> 450, want |-> 350, safety |-> 500, priority |-> 350])

PositivePatterns ==
    {"state_integrity_preserved", "state_integrity_preservation", "state_memory_updated",
     "memory_update_success", "expsm_feedback_success", "state_load_reduced",
     "state_recovery_progress", "outcome_confirmed", "outcome_partially_confirmed"}
HarmPatterns ==
    {"state_integrity_risk", "state_action_blocked", "expsm_feedback_failure",
     "memory_update_failed", "prediction_failed", "outcome_failed", "high_tension",
     "high_pain", "high_fatigue", "tone_tension_high", "tone_pain_high", "tone_fatigue_high"}
LowValuePatterns == {"state_no_change", "outcome_inconclusive"}

Unique(s) ==
    FoldLeft(LAMBDA seen, x : IF Contains(seen, x) THEN seen ELSE Append(seen, x), <<>>, s)
Signal(scope, source, targets, said) ==
    <<[marker |-> "evaluation_signals", scope |-> scope, source |-> source,
       targets |-> Unique(targets), dimensions |-> said, ttl |-> 10,
       amount |-> Best({said.usefulness, said.harmfulness, said.need, said.safety,
                        said.priority, 350})]>>

\* _operation_for_targets: harm is looked for first.
ByTargets(scope, source, targets) ==
    LET named == ToSet(targets)
    IN  IF named \cap HarmPatterns # {} THEN Signal(scope, source, targets, HarmSaid)
        ELSE IF named \cap LowValuePatterns # {}
             THEN Signal(scope, source, targets, LowValueSaid)
        ELSE IF named \cap PositivePatterns # {}
             THEN Signal(scope, source, targets, PositiveSaid)
        ELSE <<>>

\* _event_evaluations, for one event of the tick.
Judgement(e) ==
    CASE e.marker = "effects" ->
            ByTargets("effect", e.id, <<e.kind>> \o e.secondary)
      [] e.marker = "outcomes" ->
            LET targets == <<e.kind>> \o e.matched \o e.missing
            IN  IF e.status = "failed" THEN Signal("outcome", e.id, targets, HarmSaid)
                ELSE IF e.status = "inconclusive"
                     THEN Signal("outcome", e.id, targets, LowValueSaid)
                ELSE ByTargets("outcome", e.id, targets)
      [] e.marker = "expsm_feedback" ->
            Signal("expsm_feedback", e.id, <<e.kind, e.action>> \o e.matched,
                   CASE e.status = "hit" -> PositiveSaid
                     [] e.status = "miss" -> HarmSaid
                     [] OTHER -> LowValueSaid)
      [] OTHER -> <<>>

CalmTone == [integrity |-> 1000, stability |-> 800, curiosity |-> 300,
             risk_sensitivity |-> 500, fatigue |-> 0, tension |-> 100,
             satisfaction |-> 0, pain |-> 0]
CurrentTone(events) ==
    LET updates == SelectSeq(events, LAMBDA e : e.marker = "neuromodulation_updates")
    IN  IF updates = <<>> THEN CalmTone ELSE Last(updates).tone

ToneEvaluations(tone) ==
    LET strained == Only(tone.tension >= 650, "high_tension")
                      \o Only(tone.pain >= 450, "high_pain")
                      \o Only(tone.fatigue >= 650, "high_fatigue")
                      \o Only(tone.risk_sensitivity >= 700, "tone_risk_sensitivity_high")
        content == Only(tone.stability >= 820, "state_stability_high")
                     \o Only(tone.satisfaction >= 550, "state_satisfaction_high")
        Of(targets, said) == IF targets = <<>> THEN <<>>
                             ELSE Signal("internal_state", 0, targets, said)
    IN  Of(strained, ToneHarmSaid) \o Of(content, TonePositiveSaid)

\* Those of the twelve strongest patterns that mean something.
ActivePatternEvaluations(shown) ==
    LET top == TopPatterns(shown, 12)
    IN  FlattenSeq([i \in DOMAIN top |-> ByTargets("active_pattern", 0, <<top[i].p>>)])

\* _operation refuses what it has made before: of an event for ever, of the
\* state of the system for ticks of one number.
SignalKey(signal, now) ==
    <<IF signal.source = 0 THEN <<"tick", now>> ELSE <<"event", signal.source>>,
      signal.scope, signal.targets>>

\* Mutant: what was evaluated in an earlier call of the tick is again.
Unsaid_Forgetful(signals, said, now) == signals

Unsaid(signals, said, now) ==
    SelectSeq(signals, LAMBDA s : SignalKey(s, now) \notin said)

\* Mutant: the state of the system is evaluated before what has happened.
Offered_ToneFirst(events, shown, said, now) ==
    LET happened == OfTick(events, now)
        judged == Unsaid(FlattenSeq([i \in DOMAIN happened |-> Judgement(happened[i])]), said, now)
    IN  Unsaid(ToneEvaluations(CurrentTone(events)), said, now) \o judged

\* The signals run makes, in their order: all of the events of the tick, and
\* of the tone and of two patterns as long as there is room.
Offered(events, shown, said, now) ==
    LET happened == OfTick(events, now)
        judged == Unsaid(FlattenSeq([i \in DOMAIN happened |-> Judgement(happened[i])]), said, now)
        toned == Unsaid(ToneEvaluations(CurrentTone(events)), said, now)
        seen == FirstOf(Unsaid(ActivePatternEvaluations(shown), said, now), 2)
    IN  IF Len(judged) >= MaxSignals THEN judged
        ELSE IF Len(judged \o toned) >= MaxSignals THEN judged \o toned
        ELSE judged \o toned \o seen

(***************************************************************************)
(* EvaluationField and AKBSMAssociationField, with their updaters.  An      *)
(* entry is told measures (dimensions, or score; and activation) and a ttl. *)
(***************************************************************************)
Weaker(x) == (85 * x) \div 100
Faded(x) == (92 * x) \div 100

\* Mutant: what is said now is weakened with what was said before.
Told_Weakened(entries, new) ==
    LET Again(old) == [new EXCEPT
            !.said = [m \in DOMAIN @ |-> Weaker(Higher(old.said[m], @[m]))],
            !.ttl = Higher(old.ttl, @)]
    IN  IF ~Holds(entries, new.p) THEN Append(entries, new)
        ELSE [entries EXCEPT ![At(entries, new.p)] = Again(@)]

\* update_pattern and update_association.
Told(entries, new) ==
    LET Again(old) == [new EXCEPT
            !.said = [m \in DOMAIN @ |-> Higher(Weaker(old.said[m]), @[m])],
            !.ttl = Higher(old.ttl, @)]
    IN  IF ~Holds(entries, new.p) THEN Append(entries, new)
        ELSE [entries EXCEPT ![At(entries, new.p)] = Again(@)]

\* Mutant: every run of an updater lets its field fade.
Aged_EveryRun(f, measures, now) ==
    LET Older(e) == [e EXCEPT !.said = [m \in DOMAIN @ |-> Faded(@[m])], !.ttl = Higher(0, @ - 1)]
        older == [i \in DOMAIN f.entries |-> Older(f.entries[i])]
    IN  [f EXCEPT !.decayed = now,
                  !.entries = SelectSeq(older, LAMBDA e :
                                e.ttl > 0 \/ \E m \in measures : e.said[m] >= 30)]

\* decay, once in a tick: after the ttl an entry goes when all of it is faint.
Aged(f, measures, now) ==
    LET Older(e) == [e EXCEPT !.said = [m \in DOMAIN @ |-> Faded(@[m])], !.ttl = Higher(0, @ - 1)]
        older == [i \in DOMAIN f.entries |-> Older(f.entries[i])]
    IN  IF f.decayed = now THEN f
        ELSE [f EXCEPT !.decayed = now,
                       !.entries = SelectSeq(older, LAMBDA e :
                                     e.ttl > 0 \/ \E m \in measures : e.said[m] >= 30)]

\* Mutant: what was applied is not remembered.
Unapplied_All(f, events, marker) == LastOf(events, marker, Recent)

Unapplied(f, events, marker) ==
    SelectSeq(LastOf(events, marker, Recent), LAMBDA e : e.id \notin f.applied)

SignalTells(s) ==
    [i \in DOMAIN s.targets |-> [p |-> s.targets[i], ttl |-> s.ttl,
                                 said |-> s.dimensions @@ [act |-> s.amount]]]
UpdateValues(f, events, now) ==
    LET new == Unapplied(f, events, "evaluation_signals")
        tells == FlattenSeq([i \in DOMAIN new |-> SignalTells(new[i])])
    IN  Aged([f EXCEPT !.entries = FoldLeft(Told, @, tells),
                       !.applied = @ \cup {e.id : e \in ToSet(new)}], Dimensions, now)

ProbeTells(b) ==
    [i \in DOMAIN b.found |-> [p |-> <<b.p, b.found[i].p, b.found[i].relation>>, ttl |-> b.ttl,
                               said |-> [score |-> b.found[i].score, act |-> b.amount],
                               distance |-> b.found[i].distance]]
ToldNearer(entries, new) ==
    Told(entries, IF ~Holds(entries, new.p) THEN new
                  ELSE [new EXCEPT !.distance = Lower(@, EntryOf(entries, new.p).distance)])
UpdateLinks(f, events, now) ==
    LET new == Unapplied(f, events, "akbsm_association_probes")
        tells == FlattenSeq([i \in DOMAIN new |-> ProbeTells(new[i])])
    IN  Aged([f EXCEPT !.entries = FoldLeft(ToldNearer, @, tells),
                       !.applied = @ \cup {e.id : e \in ToSet(new)}], {"score", "act"}, now)

\* The end of both updaters: too many ids are cut to some of them, which may
\* be any, for a set of strings has no order.
Remembered(f) ==
    IF Cardinality(f.applied) <= MaxApplied THEN {f}
    ELSE {[f EXCEPT !.applied = kept] : kept \in kSubset(KeptApplied, f.applied)}

(***************************************************************************)
(* EvaluationTargetObserver                                                *)
(***************************************************************************)
EntryScore(e) == Best({e.said[m] : m \in DOMAIN e.said})
Roles(e) ==
    LET said == e.said
    IN  Only(said.need >= 500 /\ said.priority >= 450, "needed_target")
          \o Only(said.want >= 500 /\ said.priority >= 300, "wanted_target")
          \o Only(said.usefulness >= 600 /\ said.harmfulness < 300, "useful_target")
          \o Only(said.avoid >= 500, "avoidance_target")
          \o Only(said.harmfulness >= 500, "harmful_target")
          \o Only(said.safety >= 600 /\ said.need >= 400, "safety_target")
TargetKind(roles) ==
    LET avoiding == ToSet(roles) \cap {"avoidance_target", "harmful_target"}
    IN  IF avoiding = {} THEN "positive_target"
        ELSE IF ToSet(roles) = avoiding THEN "avoidance_target" ELSE "mixed_target"
TargetScore(e) ==
    Clamped((250 * e.said.need + 200 * e.said.want + 200 * e.said.usefulness
               + 150 * e.said.safety + 100 * e.said.avoid + 100 * e.said.harmfulness
               + 250 * e.said.priority) \div 1000)

\* _should_emit and _should_probe: the last time is long ago, or the score moved.
Due(memo, key, score, now, cooldown, delta) ==
    \/ key \notin DOMAIN memo
    \/ now - memo[key].tick >= cooldown
    \/ Abs(score - memo[key].score) >= delta

TargetOf(e) ==
    [marker |-> "evaluation_targets", p |-> e.p, roles |-> Roles(e),
     kind |-> TargetKind(Roles(e)), score |-> TargetScore(e),
     amount |-> TargetScore(e), ttl |-> 12]

\* Both go through what is offered, the best first, until enough is chosen.
Chosen(offers, memo, Key(_), now, cooldown, delta, limit) ==
    LET Choose(so, t) ==
            IF Len(so.chosen) >= limit \/ ~Due(so.memo, Key(t), t.score, now, cooldown, delta)
            THEN so
            ELSE [chosen |-> Append(so.chosen, t),
                  memo |-> (Key(t) :> [tick |-> now, score |-> t.score]) @@ so.memo]
    IN  FoldLeft(Choose, [chosen |-> <<>>, memo |-> memo], RankedBy(offers, LAMBDA t : t.score))

TargetKey(t) == <<t.p, t.roles>>
Targeting(entries, memo, now) ==
    LET top == FirstOf(RankedBy(entries, EntryScore), 16)
        wanted == SelectSeq([i \in DOMAIN top |-> TargetOf(top[i])], LAMBDA t : t.roles # <<>>)
    IN  Chosen(wanted, memo, TargetKey, now, 3, 80, MaxTargets)

\* The targets of a tick among the last twelve, as the probe and the search see them.
TargetsIn(events, now) == OfTick(LastOf(events, "evaluation_targets", 12), now)

(***************************************************************************)
(* AKBSMAssociationProbe and AKBSMAdapter                                  *)
(***************************************************************************)
EdgesFrom(p) == SelectSeq(Edges, LAMBDA e : e.from = p)

\* find_associations to depth 2: the edges of p, then those of each pattern
\* they lead to, once; at most eight, the strongest and nearest first.
FindAssociations(p) ==
    LET Step(e, distance, score) ==
            [p |-> e.to, relation |-> e.type, distance |-> distance,
             score |-> (score * (IF e.weight = 0 THEN 100 ELSE e.weight)) \div 1000]
        Steps(q, distance, score) ==
            LET out == EdgesFrom(q)
            IN  [i \in DOMAIN out |-> Step(out[i], distance, score)]
        near == Steps(p, 1, 1000)
        New(i) == near[i].p # p /\ \A j \in 1 .. i - 1 : near[j].p # near[i].p
        far == FlattenSeq([i \in DOMAIN near |->
                    IF New(i) THEN Steps(near[i].p, 2, near[i].score) ELSE <<>>])
    IN  RankedBy(FirstOf(near \o far, 8), LAMBDA a : 10 * a.score - a.distance)

ProbeKey(t) == <<t.p, t.kind, t.roles>>

\* Mutant: the strongest targets are cut before it is asked which are due.
Probing_CutFirst(targets, memo, now) ==
    Chosen(FirstOf(RankedBy(targets, LAMBDA t : t.score), MaxProbes), memo, ProbeKey,
           now, 4, 100, MaxProbes)

\* The targets of this tick that are probed.
Probing(targets, memo, now) == Chosen(targets, memo, ProbeKey, now, 4, 100, MaxProbes)

Probe(t) ==
    LET found == FindAssociations(t.p)
        strength == Higher(350, Lower(750, IF t.score = 0 THEN 550 ELSE t.score))
        best == (650 * Best({found[i].score : i \in DOMAIN found})) \div 1000
    IN  [marker |-> "akbsm_association_probes", p |-> t.p, kind |-> t.kind,
         roles |-> t.roles, score |-> t.score,
         found |-> found, amount |-> Higher(strength, best), ttl |-> 10]

GetAssociations(entries, p) ==
    FirstOf(RankedBy(SelectSeq(entries, LAMBDA e : e.p[1] = p),
                     LAMBDA e : 1000000 * e.said.act + 100 * e.said.score - e.distance), 8)

(***************************************************************************)
(* ExpSMMechanismSearch.run                                                *)
(***************************************************************************)
SearchOf(t, mechanisms) ==
    [marker |-> "expsm_mechanism_searches", p |-> t.p, target |-> t.id, ttl |-> 10,
     mechanisms |-> mechanisms]

\* _should_emit: an observation, which has one score and one tick, is searched
\* for again only when other experiences are found.
Experienced(mechanisms) == [i \in DOMAIN mechanisms |-> mechanisms[i].experience]
Searching(targets, memo, known, shown) ==
    LET first == FirstOf(RankedBy(targets, LAMBDA t : t.score), MaxSearched)
        Related(t) == LET near == GetAssociations(known, t.p)
                      IN  {t.p} \cup {near[i].p[2] : i \in DOMAIN near}
        asked == [i \in DOMAIN first |-> [target |-> first[i], related |-> Related(first[i])]]
        Ask(ops, q) == Append(ops, SearchOf(q.target,
            MechanismsFor(q.target, q.related, PatternsAbove(shown, 250), Experiences)))
        New(op) == op.target \notin DOMAIN memo \/ memo[op.target] # Experienced(op.mechanisms)
        Emit(ops, op) ==
            IF op.mechanisms = <<>> \/ ~New(op) THEN ops
            ELSE Append(ops, op @@ [amount |-> Best({600} \cup
                                {op.mechanisms[i].adjusted : i \in DOMAIN op.mechanisms})])
    IN  FoldLeft(Emit, <<>>, FoldLeft(Ask, <<>>, asked))

\* What the similarity observer reports of a group.
Alike(group) ==
    [marker |-> "expsm_similarity_observations", kind |-> "similarity_observed",
     score |-> GroupScore(group), amount |-> 650, ttl |-> 20]

(***************************************************************************)
(* ModeTransitionCleanup: the actions of a transition that is over         *)
(***************************************************************************)
EnterAction == "action_enter_consolidation_mode"
ExitAction == "action_exit_consolidation_mode"
StoreAction == "action_store_memory_candidate"

\* _patterns_for_transition: only the mode that is entered tells.
EndedActions(entered) ==
    CASE entered = "consolidation" -> {EnterAction}
      [] entered = "recovery" -> {EnterAction, ExitAction, StoreAction}
      [] entered = "active" -> {EnterAction, ExitAction}

\* Mutant: the last mode changes are cleaned up after in later ticks as well.
Stale_AnyTick(events, now) ==
    LET changes == LastOf(events, "system_mode_changes", 4)
    IN  UNION {EndedActions(changes[i].status) : i \in DOMAIN changes}

\* _cleanup_mode_transitions: of the last four changes those of this tick, be
\* it an earlier call that made them.
Stale(events, now) ==
    LET changes == OfTick(LastOf(events, "system_mode_changes", 4), now)
    IN  UNION {EndedActions(changes[i].status) : i \in DOMAIN changes}

(***************************************************************************)
(* The tick                                                                *)
(***************************************************************************)
Init ==
    /\ ran = <<>> /\ phase = "begin" /\ mode = "active" /\ processing = TRUE /\ fed = 0
    /\ log = <<>> /\ projected = 0 /\ field = <<>>
    /\ values = [entries |-> <<>>, applied |-> {}, decayed |-> Never] /\ links = values
    /\ emitted = {} /\ observed = <<>> /\ probed = <<>> /\ searched = <<>> /\ grouped = {}

\* What a phase is given: nothing, or one of the sequences Feed has for it.
Given(of, ops) ==
    \/ ops = <<>> /\ fed' = fed
    \/ ops \in Feed(of) /\ fed < MaxFed /\ fed' = fed + 1

\* Phases 00 to 02, in the first call or one whose tick is some steps later.
\* What phase 01 posted, when awake, is projected before the decay.
Begin ==
    /\ phase = "begin" /\ Len(ran) < MaxCalls
    /\ phase' = "act" /\ processing' = Active(mode)
    /\ \E now \in IF ran = <<>> THEN {1} ELSE {Tick + step : step \in Apart} :
       \E ops \in {<<>>} \cup Feed("begin") :
        /\ Given("begin", ops)
        /\ ops # <<>> => Active(mode)
        /\ LET calls == Append(ran, now)
               posted == Post(log, ops, calls)
               decayed == DecayAll(Updated(field, projected, posted), now)
               recalled == IF mode # "active" THEN <<>>
                           ELSE Activations(Experiences, PatternsAbove(decayed, 250))
               recorded == Post(posted, recalled, calls)
           IN  /\ ran' = calls /\ log' = recorded
               /\ field' = Updated(decayed, Len(posted), recorded)
    /\ projected' = Len(log')
    /\ UNCHANGED <<mode, values, links, emitted, observed, probed, searched, grouped>>

\* The decisions of the tick that are compared with what they were chosen from.
Compared(events, now) ==
    LET seen == LastOf(events, "expsm_competition_observations", 24)
        decisions == SelectSeq(OfTick(LastOf(events, "decisions", 8), now), LAMBDA d :
                        /\ d.source = "expsm_activation"
                        /\ \A i \in DOMAIN seen : seen[i].decision # d.id)
    IN  FlattenSeq([i \in DOMAIN decisions |-> CompetitionOf(decisions[i])])

\* From the end of phase 02 to the mode manager of phase 05 with the clean-up:
\* what leads to the decision and audits it, its rivals, effects, mode changes.
Act ==
    /\ phase = "act" /\ phase' = "store"
    /\ \E ops \in {<<>>} \cup Feed("act") :
        /\ Given("act", ops)
        /\ LET Later(e) == e.marker \in {"effects", "system_mode_changes"}
               decided == Post(log, SelectSeq(ops, LAMBDA e : ~Later(e)), ran)
               rivals == IF mode = "active" THEN Compared(decided, Tick) ELSE <<>>
               changes == OfMarker(ops, "system_mode_changes")
               recorded == Post(decided, rivals \o SelectSeq(ops, Later), ran)
           IN  /\ mode' = IF changes = <<>> THEN mode ELSE Last(changes).status
               /\ \A i \in DOMAIN changes : changes[i].status # mode
               /\ log' = recorded
               /\ field' = Suppress(Updated(field, projected, recorded), Stale(recorded, Tick))
    /\ projected' = Len(log')
    /\ UNCHANGED <<ran, processing, values, links, emitted, observed, probed, searched, grouped>>

\* The rest of phase 05: the memory chain, and what is alike in ExpSM.
Store ==
    /\ phase = "store" /\ phase' = "evaluate"
    /\ \E ops \in {<<>>} \cup Feed("store") :
        /\ Given("store", ops)
        /\ LET alike == IF mode # "consolidation" THEN <<>>
                        ELSE SimilarGroups(Experiences, grouped, MaxGroups)
               recorded == Post(log, ops \o [i \in DOMAIN alike |-> Alike(alike[i])], ran)
           IN  /\ log' = recorded /\ field' = Updated(field, projected, recorded)
               /\ grouped' = grouped \cup {{r.id : r \in alike[i]} : i \in DOMAIN alike}
    /\ projected' = Len(log')
    /\ UNCHANGED <<ran, mode, processing, values, links, emitted, observed, probed, searched>>

\* Phase 06, in a call that began awake and did not fall asleep: outcomes and
\* feedback, the signals about the tick, the evaluation field.
Evaluate ==
    /\ phase = "evaluate" /\ phase' = "aim"
    /\ processing /\ mode # "consolidation"
    /\ \E ops \in {<<>>} \cup Feed("evaluate") :
        /\ Given("evaluate", ops)
        /\ LET happened == Post(log, ops, ran)
               signals == Offered(happened, field, emitted, Tick)
               recorded == Post(happened, FirstOf(signals, MaxSignals), ran)
           IN  /\ log' = recorded
               /\ emitted' = emitted \cup {SignalKey(s, Tick) : s \in ToSet(signals)}
               /\ values' \in Remembered(UpdateValues(values, recorded, Tick))
    /\ UNCHANGED <<ran, mode, processing, projected, field, links, observed, probed,
                   searched, grouped>>

Aim ==
    /\ phase = "aim" /\ phase' = "search"
    /\ LET aimed == Targeting(values.entries, observed, Tick)
       IN  log' = Post(log, aimed.chosen, ran) /\ observed' = aimed.memo
    /\ UNCHANGED <<ran, mode, processing, fed, projected, field, values, links, emitted,
                   probed, searched, grouped>>

\* The end of phase 06: probes, the association field, mechanisms.
Search ==
    /\ phase = "search" /\ phase' = "close"
    /\ LET targets == TargetsIn(log, Tick)
           asked == Probing(targets, probed, Tick)
           probes == Post(log, [i \in DOMAIN asked.chosen |-> Probe(asked.chosen[i])], ran)
           told == UpdateLinks(links, probes, Tick)
       IN  /\ probed' = asked.memo /\ links' \in Remembered(told)
           /\ \E found \in {Searching(targets, searched, told.entries, field)} :
                LET recorded == Post(probes, found, ran)
                IN  /\ log' = recorded /\ field' = Updated(field, projected, recorded)
                    /\ searched' = [t \in {op.target : op \in ToSet(found)} |->
                            Experienced((CHOOSE op \in ToSet(found) : op.target = t).mechanisms)]
                          @@ searched
    /\ projected' = Len(log')
    /\ UNCHANGED <<ran, mode, processing, fed, values, emitted, observed, grouped>>

\* Phase 06 is skipped: what the call did is not evaluated now.
Sleep ==
    /\ phase = "evaluate" /\ phase' = "close"
    /\ ~processing \/ mode = "consolidation"
    /\ UNCHANGED <<ran, mode, processing, fed, log, projected, field, values, links,
                   emitted, observed, probed, searched, grouped>>

\* Phases 07 to 09: value feedback, candidates, tone and homeostasis; the
\* updaters of both fields run again, and are alone in it after Sleep.
Close ==
    /\ phase = "close" /\ phase' = "begin"
    /\ \E ops \in {<<>>} \cup Feed("close") :
        /\ Given("close", ops)
        /\ LET recorded == Post(log, ops, ran)
           IN  /\ log' = recorded /\ field' = Updated(field, projected, recorded)
               /\ values' \in Remembered(UpdateValues(values, recorded, Tick))
               /\ links' \in Remembered(UpdateLinks(links, recorded, Tick))
    /\ projected' = Len(log')
    /\ UNCHANGED <<ran, mode, processing, emitted, observed, probed, searched, grouped>>

Next == Begin \/ Act \/ Store \/ Evaluate \/ Aim \/ Search \/ Sleep \/ Close
Spec == Init /\ [][Next]_vars

(***************************************************************************)
(* Properties                                                              *)
(***************************************************************************)
\* The field never shows a mode the system is not in, whatever events, late
\* reasons and expiries come between (_activate_system_mode).
ModeShown ==
    \A i \in DOMAIN field :
        field[i].p \in ModePatterns => field[i].p = ModePattern(mode)

\* What the field says of a pattern is what the last operation that touched it
\* said: it expires when that one says, not later and not earlier, and neither
\* was its mode left nor its transition ended since.  What was touched in this
\* tick is shown, unless its mode was left or its transition ended later; the
\* clean-up of another call of the tick ends the transition once more
\* (activate, update_from_memory, _cleanup_mode_transitions).
Taken(e) ==
    IF e.marker = "system_mode_changes" THEN Silenced(e) \cup EndedActions(e.status) ELSE {}
Touched(ops, n) ==
    {[by |-> n, nth |-> k, touch |-> ops[k]] :
        k \in {m \in DOMAIN ops : ops[m].amount > 0 \/ ops[m].mode = "set"}}
FieldFollowsLog ==
    LET touches == UNION {Touched(TouchesOf(log[n]), n) : n \in 1 .. projected}
        Follows(e, own) ==
            \E last \in own :
                /\ \A t \in own : t.by < last.by \/ (t.by = last.by /\ t.nth <= last.nth)
                /\ e.expires = IF last.touch.ttl = NoTtl THEN NoTtl
                               ELSE log[last.by].tick + last.touch.ttl
                /\ e.rate <= last.touch.rate
                /\ \A n \in last.by + 1 .. projected : e.p \notin Taken(log[n])
        Lost(t) ==
            \E m \in {k \in 1 .. projected : log[k].tick = Tick} :
                t.touch.p \in Taken(log[m]) /\ (m > t.by \/ log[m].call < log[t.by].call)
    IN  /\ \A i \in DOMAIN field :
            Follows(field[i], {t \in touches : t.touch.p = field[i].p})
        /\ \A t \in {u \in touches : u.touch.amount > 0 /\ log[u.by].tick = Tick} :
            Holds(field, t.touch.p) \/ Lost(t)

\* The field says what the log says, and of the mode what the system says.
FieldIsTrue == ModeShown /\ FieldFollowsLog

\* An entry loses its rate for every tick that passed, once, and goes at its
\* time or when it is faint; but for that it goes only when another mode comes
\* or its transition ended in this tick, and else nothing takes any of it
\* (docs/decay_semantics_audit.md, decay_all, suppress).
DecayIsStepwise ==
    [][LET new == SubSeq(log', projected + 1, projected')
           touched == {t.touch.p : t \in UNION {Touched(TouchesOf(new[n]), n) : n \in DOMAIN new}}
           taken == UNION {Silenced(new[n]) : n \in DOMAIN new}
           over == IF phase # "act" THEN {}
                   ELSE UNION {EndedActions(e.status) : e \in
                            {f \in ToSet(log') : f.marker = "system_mode_changes" /\ f.tick = Tick}}
           passed == IF phase = "begin" THEN Tick' - Tick ELSE 0
           Ages(e) ==
               LET left == e.act - e.rate * passed
               IN  IF e.p \in over THEN ~Holds(field', e.p)
                   ELSE IF \/ phase = "begin" /\ e.expires # NoTtl /\ e.expires <= Tick'
                           \/ passed > 0 /\ left <= Faint
                        THEN ~Holds(field', e.p)
                   ELSE Holds(field', e.p) /\ EntryOf(field', e.p).act = left
       IN  \A p \in {field[i].p : i \in DOMAIN field} \ ((touched \cup taken) \ over) :
            Ages(EntryOf(field, p))]_vars

\* Whatever happens in a tick is evaluated by the first call of that tick that
\* is awake, once, unless as many earlier events of the tick as fit are; the
\* state of the system never crowds out an event, and what happens in a tick
\* nobody is awake in is never evaluated (EvaluationSignalModule.run, _phase_06).
ModeAfter(call) ==
    LET changes == SelectSeq(log, LAMBDA e : e.marker = "system_mode_changes" /\ e.call <= call)
    IN  IF changes = <<>> THEN "active" ELSE Last(changes).status
Awake(call) == Active(ModeAfter(call - 1)) /\ ModeAfter(call) # "consolidation"
Judged(call) == Awake(call) /\ (call < Len(ran) \/ phase \in {"aim", "search", "close", "begin"})
JudgedUnlessCrowded ==
    LET signals == OfMarker(log, "evaluation_signals")
        Of(call) == {i \in DOMAIN signals : signals[i].call = call}
        Sources(call) == {signals[i].source : i \in Of(call)}
    IN  /\ \A call \in DOMAIN ran : Of(call) # {} => Judged(call)
        /\ \A n \in {m \in DOMAIN log : Judgement(log[m]) # <<>>} :
            LET judging == {call \in log[n].call .. Len(ran) :
                                ran[call] = log[n].tick /\ Judged(call)}
                first == CHOOSE call \in judging : \A other \in judging : call <= other
                said == {i \in DOMAIN signals : signals[i].source = n}
            IN  IF judging = {} THEN said = {}
                ELSE \/ Cardinality(said) = 1 /\ n \in Sources(first)
                     \/ /\ said = {} /\ Cardinality(Of(first)) = MaxSignals
                        /\ Sources(first) \subseteq 1 .. n - 1

\* What a field says of an entry is at most what some signal (or probe) about
\* it said, faded by the ticks since, and at least what the last one said, so
\* faded: neither the two runs of the updater in a call, nor two calls of one
\* tick, apply a signal or fade a value twice.  Only from the first cut of the
\* remembered ids on may a signal be applied again, and others' be weakened,
\* as long as it is among the recent ones (EvaluationFieldUpdater.run,
\* AKBSMAssociationFieldUpdater.run, EvaluationField.decay).
FadedFor(x, n) ==
    LET after[k \in 0 .. n] == IF k = 0 THEN x ELSE Faded(after[k - 1]) IN after[n]
Tracks(f, told, Tells(_), Fades(_)) ==
    LET Ticks(call) == {ran[c] : c \in {d \in call .. Len(ran) : Fades(d)}}
                        \ {ran[c] : c \in 1 .. call - 1}
        cut == Len(told) > MaxApplied
        \* The first call that cannot have applied it again.
        Over(i) == IF ~cut THEN told[i].call
                   ELSE IF i + Recent > Len(told) THEN Len(ran) + 1 ELSE told[i + Recent].call
        About(p) == {i \in DOMAIN told : \E t \in ToSet(Tells(told[i])) : t.p = p}
    IN  /\ \A k \in DOMAIN f.entries :
            LET e == f.entries[k]
            IN  \A m \in DOMAIN e.said : \E i \in About(e.p) :
                    \E t \in ToSet(Tells(told[i])) :
                        /\ t.p = e.p
                        /\ e.said[m] <= FadedFor(t.said[m], Cardinality(Ticks(Over(i))))
        /\ \A i \in DOMAIN told : \A p \in {t.p : t \in ToSet(Tells(told[i]))} :
            LET t == Last(SelectSeq(Tells(told[i]), LAMBDA u : u.p = p))
                faded == Cardinality(Ticks(told[i].call))
            IN  /\ i = Best(About(p)) /\ faded < t.ttl
                /\ cut => \A j \in About(p) \ {i} : i - j >= Recent
                => /\ Holds(f.entries, p)
                   /\ \A m \in DOMAIN t.said :
                        EntryOf(f.entries, p).said[m] >= FadedFor(t.said[m], faded)
FadesIn(call, phases) ==
    call < Len(ran) \/ phase \in (IF Awake(call) THEN phases ELSE {"begin"})
ValuesTrackSignals ==
    Tracks(values, OfMarker(log, "evaluation_signals"), SignalTells,
           LAMBDA call : FadesIn(call, {"aim", "search", "close", "begin"}))
LinksTrackProbes ==
    Tracks(links, OfMarker(log, "akbsm_association_probes"), ProbeTells,
           LAMBDA call : FadesIn(call, {"close", "begin"}))

\* Both fields are told once and fade once a tick.
FieldsTrackLog == ValuesTrackSignals /\ LinksTrackProbes

\* A target that was observed has been probed within the last four ticks at
\* about this score, or as many others were probed by its call as fit
\* (AKBSMAssociationProbe.run, _should_probe).
ProbedUnlessCrowded ==
    LET probes == OfMarker(log, "akbsm_association_probes")
        Missed(t) ==
            \A i \in DOMAIN probes :
                \/ ProbeKey(probes[i]) # ProbeKey(t) \/ probes[i].call > t.call
                \/ t.tick - probes[i].tick > 3 \/ Abs(probes[i].score - t.score) >= 100
    IN  \A t \in ToSet(OfMarker(log, "evaluation_targets")) :
            t.call < Len(ran) \/ phase \in {"close", "begin"} =>
                \/ ~Missed(t)
                \/ Cardinality({i \in DOMAIN probes : probes[i].call = t.call}) = MaxProbes

\* Events wait for no evaluation and observed targets for no probe but those
\* that fill the tick.
NoneIsOverlooked == JudgedUnlessCrowded /\ ProbedUnlessCrowded
=============================================================================
