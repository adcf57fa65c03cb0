---------------------------- MODULE NativeMemory ----------------------------
(***************************************************************************)
(* The way of an NFP experience: the world's field becomes a window of      *)
(* frames, a window, an action and the next window a transition, its signed *)
(* change an observed effect; transitions that are alike support a group, a *)
(* group with enough support a proposal, a proposal a native record of      *)
(* ExpSM_data.json.  A record that stands for a situation like the present  *)
(* one is recalled, activated, selected and acted upon, and its prediction  *)
(* is judged by what came of it.                                           *)
(*                                                                         *)
(* The steps of a caller who has these objects in its hands may come in any *)
(* order and again; between them time goes on.  CausalLoop has the failures *)
(* of one action, NativeCreate those of one creation; here both succeed or  *)
(* are refused.  The world is the closed loop world: one place in a row of  *)
(* Columns is lit, and an action moves it, up to the ends of the row.       *)
(* Values are in percent, the topology of a pattern is its size, ids are    *)
(* positions in what they number; similarities are compared without         *)
(* division.                                                               *)
(***************************************************************************)
EXTENDS Integers, Sequences, FiniteSets, SequencesExt

CONSTANTS
    None,
    Columns,        \* of the world's one row
    Motors,         \* the actions of the harness: two values
    WindowSize,     \* of NFPWindowAssembler
    ContextLevel, ActionLevel, EffectLevel, MinSupport,    \* of the grouper
    RecallLevel,    \* context_similarity_threshold
    AgreementLevel, \* native_effect_agreement_threshold
    DecisionLevel,  \* decision_threshold, in thousandths
    Stores,         \* what the file may hold at the start
    MaxTick, MaxRecords     \* bounds

MemoryAssumption ==
    /\ Columns \in Nat \ {0} /\ WindowSize \in Nat \ {0} /\ MinSupport \in Nat \ {0}
    /\ {ContextLevel, ActionLevel, EffectLevel, RecallLevel, AgreementLevel} \subseteq 0..100
    /\ \A m \in Motors : Len(m) = 2 /\ ToSet(m) \subseteq 0..100

VARIABLES
    world,          \* its tick and the lit column
    assembled,      \* NFPWindowAssembler._frames
    window, pending,        \* of the ContextMemoryManager
    transitions,    \* completed, in the hands of the callers
    groups,         \* _candidates of ExperienceEvidenceGrouper
    observed,       \* _observed_evidence_ids: which transitions
    proposals,      \* those made
    store,          \* the experiences in the file
    selection,      \* the last request to act, with what was seen (history)
    execution,      \* the last result of acting
    verdicts        \* hits and misses

manager == <<window, pending, transitions>>
learner == <<groups, observed, proposals>>
vars == <<world, assembled, manager, learner, store, selection, execution, verdicts>>

Init ==
    /\ world \in [tick : {0}, column : 1..Columns]
    /\ assembled = <<>>
    /\ window = None /\ pending = None /\ transitions = <<>>
    /\ groups = <<>> /\ observed = {} /\ proposals = {}
    /\ store \in Stores
    /\ selection = None /\ execution = None /\ verdicts = {}

-----------------------------------------------------------------------------
(* The world, its frames and windows.                                      *)

Field(column) == [c \in 1..Columns |-> IF c = column THEN 100 ELSE 0]

Moved(column, motor) ==
    IF motor[2] > motor[1] THEN (IF column < Columns THEN column + 1 ELSE column)
    ELSE IF motor[2] < motor[1] THEN (IF column > 1 THEN column - 1 ELSE column)
    ELSE column

\* A signal of another tick is refused.
Apply(motor, tick) ==
    /\ tick = world.tick /\ world.tick < MaxTick
    /\ world' = [tick |-> tick + 1, column |-> Moved(world.column, motor)]

\* What the transducer makes of a snapshot, and what comes of a frame that is
\* imagined again.
Transduced(w) == [origin |-> "external_sensory", tick |-> w.tick, values |-> Field(w.column)]
Reactivated(frame) == [frame EXCEPT !.origin = "internal_reactivation"]

\* Activations are between 0 and 1; an actuator takes two of them.
Unit(values) == values # <<>> /\ ToSet(values) \subseteq 0..100
Actuates(values) == Len(values) = 2 /\ Unit(values)

Ended(w) == Last(w).tick
External(w) == \A i \in DOMAIN w : w[i].origin = "external_sensory"

\* The frames of a window have one topology and later and later ticks.
FrameOk(frame) == frame.tick >= 0 /\ Unit(frame.values)
IsWindow(w) ==
    /\ w # <<>> /\ \A i \in DOMAIN w : FrameOk(w[i])
    /\ \A i \in 2..Len(w) : Len(w[i].values) = Len(w[1].values) /\ w[i].tick > w[i - 1].tick

\* The assembler's window slides by one frame.
Pushed(frame) ==
    LET all == Append(assembled, frame)
    IN  IF Len(all) > WindowSize THEN Tail(all) ELSE all

\* ContextMemoryManager takes a window: see CausalLoop.
Takes(w, opened) ==
    /\ IsWindow(w) /\ External(w)
    /\ window' = w
    /\ pending' = IF opened # None /\ Ended(w) > opened.frame.tick THEN None ELSE opened
    /\ transitions' = IF opened # None /\ Ended(w) = opened.frame.tick + 1
                      THEN Append(transitions, [before |-> opened.before, frame |-> opened.frame,
                                                after |-> w])
                      ELSE transitions

Sense ==
    /\ \A i \in DOMAIN assembled : assembled[i].tick < world.tick
    /\ assembled' = Pushed(Transduced(world))
    /\ IF Len(assembled') < WindowSize THEN UNCHANGED manager ELSE Takes(assembled', pending)
    /\ UNCHANGED <<world, learner, store, selection, execution, verdicts>>

\* The harness acts, with the manager's knowledge once there is a window.
Act(motor) ==
    /\ Apply(motor, world.tick)
    /\ IF window = None THEN UNCHANGED pending
       ELSE /\ pending = None /\ Ended(window) = world.tick
            /\ pending' = [before |-> window,
                           frame |-> [by |-> "harness", tick |-> world.tick, values |-> motor]]
    /\ UNCHANGED <<assembled, window, transitions, learner, store, selection, execution, verdicts>>

-----------------------------------------------------------------------------
(* Similarity: one less the mean distance of the cells.                    *)

AbsoluteSum(s) == FoldSeq(LAMBDA x, sum : sum + (IF x < 0 THEN -x ELSE x), 0, s)
Distance(u, v) == AbsoluteSum([i \in DOMAIN u |-> u[i] - v[i]])
FrameComparable(u, v) == Len(u) = Len(v)
FrameAlike(u, v, level) ==
    FrameComparable(u, v) /\ Distance(u, v) <= (100 - level) * Len(u)

\* Windows, live or stored, are sequences of the values of their frames.
Values(w) == [i \in DOMAIN w |-> w[i].values]
WindowComparable(s, t) == Len(s) = Len(t) /\ \A i \in DOMAIN s : FrameComparable(s[i], t[i])
WindowDistance(s, t) == AbsoluteSum([i \in DOMAIN s |-> Distance(s[i], t[i])])
Cells(s) == Len(s) * Len(s[1])
WindowAlike(s, t, level) ==
    WindowComparable(s, t) /\ WindowDistance(s, t) <= (100 - level) * Cells(s)

\* ObservedEffectExtractor: the change from the last frame before to the last after.
Delta(t) ==
    LET before == Last(t.before).values
        after == Last(t.after).values
    IN  [i \in DOMAIN before |-> after[i] - before[i]]

\* Effects range over twice as much as values.
EffectAlike(d, e, level) ==
    FrameComparable(d, e) /\ Distance(d, e) <= 2 * (100 - level) * Len(d)

-----------------------------------------------------------------------------
(* ExperienceEvidenceGrouper.  Evidence is a transition with its effect.    *)

\* ExperienceEvidence: the context the senses saw, the action of its last tick,
\* and what the next tick showed of the same field.
IsEvidence(t) ==
    /\ External(t.before) /\ External(t.after)
    /\ Ended(t.before) <= t.frame.tick /\ Ended(t.after) = t.frame.tick + 1
    /\ Len(Delta(t)) = Len(t.before[1].values)

\* Mutant: two occurrences that ended differently are taken for one experience.
Eligible_AnyEffect(s, t) ==
    /\ WindowAlike(Values(s.before), Values(t.before), ContextLevel)
    /\ FrameAlike(s.frame.values, t.frame.values, ActionLevel)

Eligible(s, t) ==
    /\ WindowAlike(Values(s.before), Values(t.before), ContextLevel)
    /\ FrameAlike(s.frame.values, t.frame.values, ActionLevel)
    /\ EffectAlike(Delta(s), Delta(t), EffectLevel)

\* What belongs to two groups is remembered and supports neither.  The ticks of
\* the first and last support follow from the supporters.
Observe(i) ==
    LET eligible == {g \in DOMAIN groups : Eligible(transitions[i], transitions[groups[g].representative])}
    IN  /\ IsEvidence(transitions[i])
        /\ i \notin observed
        /\ observed' = observed \cup {i}
        /\ groups' = IF eligible = {}
                     THEN Append(groups, [representative |-> i, supporters |-> <<i>>])
                     ELSE IF Cardinality(eligible) > 1 THEN groups
                     ELSE [groups EXCEPT ![CHOOSE g \in eligible : TRUE].supporters = Append(@, i)]
        /\ UNCHANGED <<world, assembled, manager, proposals, store, selection, execution, verdicts>>

\* Mutant: one occurrence is enough.
Enough_One(support) == support >= MinSupport - 1

Enough(support) == support >= MinSupport

\* make_proposal; a group may be proposed again, with more support.
Propose(g) ==
    /\ Enough(Len(groups[g].supporters))
    /\ Cardinality(proposals) < MaxRecords
    /\ proposals' = proposals \cup {[representative |-> groups[g].representative,
                                     supporters |-> groups[g].supporters,
                                     support |-> Len(groups[g].supporters), tick |-> world.tick]}
    /\ UNCHANGED <<world, assembled, manager, groups, observed, store, selection, execution, verdicts>>

-----------------------------------------------------------------------------
(* Records of the file.                                                    *)

Topology(context) == Len(context[1])
ContextOk(context) ==
    context # <<>> /\ \A i \in DOMAIN context : Len(context[i]) = Topology(context) /\ Unit(context[i])
ActionOk(action) == Unit(action)
EffectOk(effect) == effect # <<>> /\ ToSet(effect) \subseteq -100..100
OperationalOk(r) ==
    r.hits >= 0 /\ r.misses >= 0 /\ r.confidence \in 0..1000 /\ r.repeatability \in 0..1000
CreationOk(r) == r.support > 0 /\ r.tick >= 0

\* NFPExpSMRecordV1: the parts, and context and effect of one topology.
NativeOk(r) ==
    /\ ContextOk(r.context) /\ ActionOk(r.action) /\ EffectOk(r.effect)
    /\ OperationalOk(r) /\ CreationOk(r)
    /\ Topology(r.context) = Len(r.effect)

LegacyOk(r) == r.whole /\ OperationalOk(r)

\* ExpSMRecordAdapter.parse.
Parsed(r) ==
    IF (r.kind = None) # (r.version = None) THEN "malformed"
    ELSE IF r.kind = None THEN (IF LegacyOk(r) THEN "legacy" ELSE "malformed")
    ELSE IF r.kind # "nfp_native" \/ r.version # 1 THEN "unsupported"
    ELSE IF NativeOk(r) THEN "nfp_native_v1" ELSE "malformed"

\* The request of a proposal and its own evidence, with the default counters.
Requested(p) ==
    LET t == transitions[p.representative]
    IN  [kind |-> "nfp_native", version |-> 1, context |-> Values(t.before),
         action |-> t.frame.values, effect |-> Delta(t), hits |-> 0, misses |-> 0,
         confidence |-> 500, repeatability |-> 500,
         support |-> p.support, tick |-> p.tick, grown |-> TRUE]

\* A store in which any record cannot be read offers nothing, and nothing is
\* added to it.
Readable == \A i \in DOMAIN store : Parsed(store[i]) \notin {"malformed", "unsupported"}

\* The caller hands over a proposal with the evidence it names, and all its
\* support is of different occurrences.
Create(p, i) ==
    /\ i = p.representative
    /\ p.support = Cardinality(ToSet(p.supporters))
    /\ Len(store) < MaxRecords
    /\ NativeOk(Requested(p)) /\ Readable
    /\ store' = Append(store, Requested(p))
    /\ UNCHANGED <<world, assembled, manager, learner, selection, execution, verdicts>>

-----------------------------------------------------------------------------
(* Recall: NFPExpSMRetriever, activate_native, select_native.              *)

Retrieved(live) ==
    {i \in DOMAIN store : /\ Parsed(store[i]) = "nfp_native_v1"
                          /\ WindowAlike(live, store[i].context, RecallLevel)}

Similarity(live, context) == 1000 - (10 * WindowDistance(live, context)) \div Cells(live)
Effective(r) == IF r.confidence > 750 THEN 750 ELSE r.confidence
Viability(r) == (1000 * (r.hits + 1)) \div (r.hits + r.misses + 2)
Activation(live, r) ==
    (550 * Similarity(live, r.context) + 200 * Effective(r)
       + 150 * r.repeatability + 100 * Viability(r)) \div 1000

\* The most active, the earlier of equals; the first three are all it may be.
Selected(live) ==
    LET active == {i \in Retrieved(live) : Activation(live, store[i]) >= 350}
        best == {i \in active : \A j \in active :
                    \/ Activation(live, store[i]) > Activation(live, store[j])
                    \/ Activation(live, store[i]) = Activation(live, store[j]) /\ i <= j}
    IN  {i \in best : Activation(live, store[i]) >= DecisionLevel}

\* Mutant: what is imagined may be acted upon.
Authorized_Any(w) == w # <<>>

Authorized(w) == External(w)

\* NFPFeedbackTargetCore: what the record was when it was recalled.
Core(r) == [context |-> r.context, action |-> r.action, effect |-> r.effect,
            support |-> r.support, tick |-> r.tick]

\* The window recalled from is the manager's, the assembler's or one imagined
\* again.  The request to act carries a tick its caller names, which can only be
\* compared with others: it is taken to name the last tick of that window, as
\* the callers do.
Recall(w) ==
    /\ selection' = IF Authorized(w) /\ Readable /\ Selected(Values(w)) # {}
                    THEN LET i == CHOOSE i \in Selected(Values(w)) : TRUE
                         IN  [record |-> i, core |-> Core(store[i]), action |-> store[i].action,
                              effect |-> store[i].effect, end |-> Ended(w), seen |-> w]
                    ELSE None
    /\ UNCHANGED <<world, assembled, manager, learner, store, execution, verdicts>>

-----------------------------------------------------------------------------
(* Acting upon a selection, and judging it.                                *)

\* Mutant: only the world's time is compared.
Fresh_AnyContext(s) == window # None /\ s.end <= world.tick

Fresh(s) == window # None /\ s.end = Ended(window) /\ s.end = world.tick

Result(status, frame, before, recent) ==
    [status |-> status, record |-> selection.record, core |-> selection.core,
     predicted |-> selection.effect, frame |-> frame, before |-> before, seen |-> selection.seen, recent |-> recent]

\* Too late, while another action waits for its consequence, or not allowed.
Refuse ==
    /\ selection # None
    /\ execution' = Result(IF ~Fresh(selection) THEN "stale_selection"
                           ELSE IF pending # None THEN "causal_slot_occupied"
                           ELSE "guard_denied", None, None, None)
    /\ UNCHANGED <<world, assembled, manager, learner, store, selection, verdicts>>

Occurrence == [by |-> "remembered", tick |-> world.tick, values |-> selection.action]

\* execute: with observe the coordinator looks at once, through a window of one
\* frame; otherwise the harness will see.
Execute(observe) ==
    /\ selection # None
    /\ Fresh(selection) /\ pending = None
    /\ Actuates(selection.action)
    /\ Apply(selection.action, world.tick)
    /\ LET opened == [before |-> window, frame |-> Occurrence]
       IN  IF observe
           THEN /\ Takes(<<Transduced(world')>>, opened)
                /\ execution' = Result("executed_and_observed", Occurrence, window, Last(transitions'))
           ELSE /\ pending' = opened
                /\ UNCHANGED <<window, transitions>>
                /\ execution' = Result("action_executed_observation_pending", Occurrence, window, None)
    /\ UNCHANGED <<assembled, learner, store, selection, verdicts>>

\* Mutant: any transition will do.
Own_Any(t) == t # None

\* The transition must be the one this action opened.
Own(t) == t # None /\ t.frame = execution.frame /\ Ended(t.after) = t.frame.tick + 1

Agrees(predicted, delta) == EffectAlike(predicted, delta, AgreementLevel)

\* evaluate: the transition in the result or one that the caller found later.
Evaluate(found) ==
    LET t == IF found # None THEN found ELSE execution.recent
    IN  /\ execution # None
        /\ execution.status \in {"executed_and_observed", "action_executed_observation_pending"}
        /\ Own(t)
        /\ execution.predicted = execution.core.effect
        /\ FrameComparable(execution.predicted, Delta(t))
        /\ verdicts' = verdicts \cup {[record |-> execution.record, frame |-> execution.frame,
                                       predicted |-> execution.predicted,
                                       hit |-> Agrees(execution.predicted, Delta(t))]}
        /\ UNCHANGED <<world, assembled, manager, learner, store, selection, execution>>

\* The manager's window, the assembler's once it is full, and both imagined.
Recallable ==
    LET Imagined(w) == [i \in DOMAIN w |-> Reactivated(w[i])]
        seen == {w \in {window, assembled} : w # None /\ (w = window \/ Len(w) = WindowSize)}
    IN  seen \cup {Imagined(w) : w \in seen}

Next ==
    \/ Sense
    \/ \E m \in Motors : Act(m)
    \/ \E i \in DOMAIN transitions : Observe(i)
    \/ \E g \in DOMAIN groups : Propose(g)
    \/ \E p \in proposals, i \in DOMAIN transitions : Create(p, i)
    \/ \E w \in Recallable : Recall(w)
    \/ Refuse
    \/ \E observe \in BOOLEAN : Execute(observe)
    \/ \E t \in ToSet(transitions) \cup {None} : Evaluate(t)

Spec == Init /\ [][Next]_vars

-----------------------------------------------------------------------------
(* Grouping: a record that grew here stands for as many occurrences as it   *)
(* says, in each of which the same was done in a like situation and the     *)
(* like came of it, however the transitions were handed over.              *)
RecordsAreEarned ==
    \A r \in ToSet(store) : r.kind # None /\ r.grown =>
        LET Like(t) == /\ WindowAlike(Values(t.before), r.context, ContextLevel)
                       /\ FrameAlike(t.frame.values, r.action, ActionLevel)
                       /\ EffectAlike(Delta(t), r.effect, EffectLevel)
        IN  Cardinality({i \in DOMAIN transitions : Like(transitions[i])}) >= r.support
            /\ r.support >= MinSupport

(* execute: what acts is a recall from what the senses saw last, in the     *)
(* same tick: an imagined window or one of an earlier tick moves nothing,   *)
(* as long as the caller names the tick of the window it recalled from.      *)
ActsOnWhatItSees ==
    execution # None /\ execution.frame # None =>
        /\ Last(execution.seen) = Last(execution.before)
        /\ execution.frame.tick = Ended(execution.seen)

(* NFPFeedbackEvaluator: an action is judged once, by its own consequence.  *)
VerdictsAreItsOwn ==
    \A v \in verdicts :
        /\ \E t \in ToSet(transitions) :
              t.frame = v.frame /\ (v.hit <=> EffectAlike(v.predicted, Delta(t), AgreementLevel))
        /\ \A u \in verdicts : u.frame = v.frame => u = v
        /\ v.predicted = store[v.record].effect
=============================================================================
