-------------------------- MODULE OutcomeFeedback --------------------------
(***************************************************************************)
(* What ExpSMOutcomeFeedback does to the counters of the experiences in     *)
(* ExpSM_data.json.  A decision may come from an activated experience, from *)
(* a mechanism search or from a rule; OutcomeEvaluator judges it when it is *)
(* old enough; the feedback looks for the decisions an experience can       *)
(* answer for, takes an outcome for each, counts a hit or a miss and writes *)
(* the file, once per feedback.  The program remembers what it has counted  *)
(* while it runs, and the last keys of each experience in the file.         *)
(*                                                                         *)
(* Every experience of the model recommends the action of every decision;   *)
(* a decision about something else concerns none.  Confidence and           *)
(* repeatability are functions of the counters and are left out.            *)
(***************************************************************************)
EXTENDS Positions, SequencesExt

CONSTANTS
    Experiences,    \* ids in the store
    Delay,          \* FEEDBACK_DELAY_TICKS and evaluation_delay_ticks
    KeyWindow,      \* applied_feedback_keys[-24:]
    MaxTick,        \* bound on the ticks of one process
    MaxActivations, MaxDecisions,   \* bounds, per process
    MaxPredictions, \* bounds, for each process in turn
    MaxRestarts     \* bound on the ends of the process

FeedbackAssumption ==
    /\ IsFiniteSet(Experiences)
    /\ Delay \in Nat \ {0} /\ KeyWindow \in Nat \ {0}
    /\ {MaxTick, MaxActivations, MaxDecisions, MaxRestarts} \subseteq Nat
    /\ MaxPredictions \in [1 .. MaxRestarts + 1 -> Nat]

VARIABLES
    pc,         \* "act", "evaluate", "feedback": where the tick is
    tick,
    mode,       \* system_state.mode after phase 05
    events,     \* memory.events, oldest first
    processed,  \* _processed_keys: <<experience, key>>
    store,      \* the counters of each experience in the file
    restarts,
    counted     \* history: every feedback that reached the file, in order

vars == <<pc, tick, mode, events, processed, store, restarts, counted>>

Sources == {"expsm_activation", "expsm_mechanism_search", "rule"}

At(types) == {i \in 1 .. Len(events) : events[i].type \in types}
Activations == At({"activation"})
Decisions == At({"decision"})
Judgeable == At({"decision", "prediction"})
Outcomes == At({"outcome"})

\* IdGenerator numbers each kind of thing from 1, in every process.
Number(i) == Cardinality({j \in 1 .. i : events[j].type = events[i].type})

Record == [hits |-> 0, misses |-> 0, applied |-> <<>>]

Init ==
    /\ pc = "act" /\ tick = 1 /\ mode = "active"
    /\ events = <<>> /\ processed = {}
    /\ store = [e \in Experiences |-> Record]
    /\ restarts = 0 /\ counted = <<>>

---------------------------------------------------------------------------
\* Phases 01-05: a prediction, the experiences that match the field, and one
\* decision.  A candidate of an activation lives three ticks, so its decision
\* may come two ticks later; a rule carries the ids of recent events with it.
Prediction == [type |-> "prediction", tick |-> tick]
Activation(e) == [type |-> "activation", experience |-> e, tick |-> tick]
Decision(source, e, ref, links) ==
    [type |-> "decision", source |-> source, experience |-> e, ref |-> ref,
     links |-> links, tick |-> tick]

MayDecide(past) ==
    LET acts == {i \in 1 .. Len(past) : past[i].type = "activation"}
    IN  {<<>>}
        \cup {<<Decision("expsm_activation", past[i].experience, i, {})>> :
                  i \in {j \in acts : tick < past[j].tick + 3}}
        \cup {<<Decision("expsm_mechanism_search", e, 1, {})>> : e \in Experiences}
        \cup {<<Decision("rule", "none", 0, links)>> : links \in {{}, acts}}

Act ==
    /\ pc = "act" /\ tick <= MaxTick
    /\ \E predicted \in {<<>>, <<Prediction>>},
          active \in SetToAllKPermutations(Experiences),
          now \in {"active", "recovery", "consolidation"} :
          LET past == events \o predicted \o [i \in 1 .. Len(active) |-> Activation(active[i])]
          IN  \E choice \in MayDecide(past) :
                 /\ events' = past \o choice
                 /\ mode' = now
    /\ Cardinality(Activations') <= MaxActivations
    /\ Cardinality(Decisions') <= MaxDecisions
    /\ Cardinality(Judgeable' \ Decisions') <= MaxPredictions[restarts + 1]
    /\ pc' = "evaluate"
    /\ UNCHANGED <<tick, processed, store, restarts, counted>>

\* OutcomeEvaluator.run, in phase 06 unless the mode is consolidation.  The
\* two outcomes of a decision and of its effect are one here: of those that
\* are linked directly the feedback takes the first.
Judged == {events[o].of : o \in Outcomes}
Due == {i \in Judgeable \ Judged : tick >= events[i].tick + Delay}

Evaluate ==
    /\ pc = "evaluate"
    /\ IF mode = "consolidation" THEN UNCHANGED events
       ELSE LET due == InOrder(Due)
            IN  \E status \in [1 .. Len(due) -> {"confirmed", "failed", "inconclusive"}] :
                   events' = events \o
                      [k \in 1 .. Len(due) |->
                          [type |-> "outcome", of |-> due[k], status |-> status[k], tick |-> tick]]
    /\ pc' = "feedback"
    /\ UNCHANGED <<tick, mode, processed, store, restarts, counted>>

---------------------------------------------------------------------------
\* Mutant: a tick later.
Old_Late(i) == tick > events[i].tick + Delay

\* FEEDBACK_DELAY_TICKS have gone by.
Old(i) == tick >= events[i].tick + Delay

\* _direct_mechanism_decisions.
MechanismDecisions ==
    {d \in Decisions : events[d].source = "expsm_mechanism_search" /\ Old(d)}

\* Mutant: the decisions of mechanisms are not left to their own loop.
Selected_Any(a) ==
    {d \in Decisions :
        /\ events[d].tick >= events[a].tick
        /\ \/ events[d].source = "expsm_activation" /\ events[d].ref = a
           \/ /\ events[d].source # "expsm_activation"
              /\ a \in events[d].links \/ events[d].tick <= events[a].tick + Delay}

\* _selected_decisions, of activation a: the decision made for it; and any
\* decision of a rule that names it among its sources or comes soon after.
Selected(a) ==
    {d \in Decisions :
        /\ events[d].tick >= events[a].tick
        /\ \/ events[d].source = "expsm_activation" /\ events[d].ref = a
           \/ /\ events[d].source = "rule"
              /\ a \in events[d].links \/ events[d].tick <= events[a].tick + Delay}

First(S) == CHOOSE o \in S : \A p \in S : o <= p

\* _linked_outcome: its own, or else the first of the ticks around it; 0 if
\* there is none.
Linked(d) ==
    LET later == {o \in Outcomes : events[o].tick >= events[d].tick}
        direct == {o \in later : events[o].of = d}
        nearby == {o \in later : events[o].tick <= events[d].tick + Delay + 1}
    IN  IF direct # {} THEN First(direct) ELSE IF nearby # {} THEN First(nearby) ELSE 0

Claim(e, origin, number, d) ==
    [experience |-> e, key |-> <<origin, number, Number(d)>>, decision |-> d,
     outcome |-> Linked(d)]

\* The decisions of activation a, in order.
ClaimsOf(a) ==
    LET ds == InOrder(Selected(a))
    IN  [k \in 1 .. Len(ds) |-> Claim(events[a].experience, "activation", Number(a), ds[k])]

\* The feedback run's two loops, in order: mechanism decisions, then the
\* decisions of each activation that is old enough.
Claims ==
    LET direct == InOrder(MechanismDecisions)
        olds == InOrder({a \in Activations : Old(a)})
    IN  [k \in 1 .. Len(direct) |->
            Claim(events[direct[k]].experience, "search", events[direct[k]].ref, direct[k])]
        \o FlattenSeq([k \in 1 .. Len(olds) |-> ClaimsOf(olds[k])])

Run == [store |-> store, processed |-> processed, counted |-> counted]

\* _feedback_status is no_feedback, or there is nothing to go by.
Speaks(c) == c.outcome # 0 /\ events[c.outcome].status # "inconclusive"

Known(run, c) == <<c.experience, c.key>> \in run.processed
Remembered(run, c) == c.key \in ToSet(run.store[c.experience].applied)
Counts(run, c) == Speaks(c) /\ ~ Known(run, c) /\ ~ Remembered(run, c)

\* Mutant: the oldest keys are kept.
Keep_First(keys) == IF Len(keys) > KeyWindow THEN SubSeq(keys, 1, KeyWindow) ELSE keys

Keep(keys) == IF Len(keys) > KeyWindow THEN SubSeq(keys, Len(keys) - KeyWindow + 1, Len(keys)) ELSE keys

\* _apply_feedback and _write_data for one claim.
Applied(run, c) ==
    LET hit == events[c.outcome].status = "confirmed"
    IN  [store |->
            [run.store EXCEPT ![c.experience] =
                [hits |-> @.hits + (IF hit THEN 1 ELSE 0),
                 misses |-> @.misses + (IF hit THEN 0 ELSE 1),
                 applied |-> Keep(Append(@.applied, c.key))]],
         processed |-> run.processed \cup {<<c.experience, c.key>>},
         counted |-> Append(run.counted,
            [experience |-> c.experience, key |-> c.key, process |-> restarts, hit |-> hit,
             source |-> events[c.decision].source, owner |-> events[c.decision].experience,
             ref |-> events[c.decision].ref, own |-> events[c.outcome].of = c.decision])]

Step(run, c) ==
    IF Counts(run, c) THEN Applied(run, c)
    ELSE IF Speaks(c) /\ Remembered(run, c)
         THEN [run EXCEPT !.processed = @ \cup {<<c.experience, c.key>>}]
    ELSE run

RunAll(run, claims) == FoldLeft(Step, run, claims)

NextTick ==
    /\ pc' = "act"
    /\ tick' = tick + 1

\* Mutant: the file is written before the last feedback is applied.
Feedback_WriteFirst ==
    /\ pc = "feedback"
    /\ IF mode = "active"
       THEN LET run == RunAll(Run, Claims)
                written == RunAll(Run, IF Claims = <<>> THEN Claims ELSE Front(Claims))
            IN  /\ store' = written.store
                /\ processed' = run.processed
                /\ counted' = run.counted
       ELSE UNCHANGED <<store, processed, counted>>
    /\ NextTick
    /\ UNCHANGED <<mode, events, restarts>>

\* ExpSMOutcomeFeedback.run, in active mode only.
Feedback ==
    /\ pc = "feedback"
    /\ IF mode = "active"
       THEN LET run == RunAll(Run, Claims)
            IN  /\ store' = run.store
                /\ processed' = run.processed
                /\ counted' = run.counted
       ELSE UNCHANGED <<store, processed, counted>>
    /\ NextTick
    /\ UNCHANGED <<mode, events, restarts>>

---------------------------------------------------------------------------
\* The process ends: all but the file is gone, and the ids begin again.
Restart ==
    /\ restarts < MaxRestarts /\ restarts' = restarts + 1
    /\ pc' = "act" /\ tick' = 1 /\ mode' = "active"
    /\ events' = <<>> /\ processed' = {}

\* An end before the first feedback leaves what Init has, and is left out.
Stop ==
    /\ pc = "act" /\ counted # <<>>
    /\ Restart
    /\ UNCHANGED <<store, counted>>

\* _write_data raises for the claim after the first n: they are in the file,
\* nothing catches the error.
WriteFails ==
    /\ pc = "feedback" /\ mode = "active"
    /\ \E n \in 0 .. Len(Claims) - 1 :
          LET run == RunAll(Run, SubSeq(Claims, 1, n))
          IN  /\ Counts(run, Claims[n + 1])
              /\ store' = run.store
              /\ counted' = run.counted
    /\ Restart

Next == Act \/ Evaluate \/ Feedback \/ Stop \/ WriteFails

Spec == Init /\ [][Next]_vars

---------------------------------------------------------------------------
CountedFor(e) == {i \in 1 .. Len(counted) : counted[i].experience = e}

\* One key counts once for an experience in a process, and after a restart
\* not again while fewer than the KeyWindow feedbacks the file remembers have
\* come in between: the replay protection of the feedback is bounded.
ReplayIsBounded ==
    \A e \in Experiences : \A i, j \in CountedFor(e) :
        i < j /\ counted[i].key = counted[j].key =>
            /\ counted[i].process # counted[j].process
            /\ Cardinality({k \in CountedFor(e) : i < k /\ k <= j}) > KeyWindow

\* The file agrees with the feedbacks given, across failed writes and ends of
\* the process: none is half in it, none is lost.
CountersAddUp ==
    \A e \in Experiences :
        /\ store[e].hits = Cardinality({i \in CountedFor(e) : counted[i].hit})
        /\ store[e].misses = Cardinality({i \in CountedFor(e) : ~ counted[i].hit})

\* A feedback counts once in a process, after a restart only when the file has
\* forgotten it, and what the file says is what was counted.
CountedOnce == ReplayIsBounded /\ CountersAddUp

\* The decision of a mechanism is answered for by its experience alone and by
\* its own outcome; the decision of an activation by that experience alone.
SourcedDecisionsAreOwned ==
    \A i \in 1 .. Len(counted) :
        LET f == counted[i]
        IN  /\ f.source # "rule" => f.experience = f.owner
            /\ f.source = "expsm_mechanism_search" => f.own /\ f.key[1] = "search"

\* When an active tick is over, each old enough decision that came from an
\* experience and came to a conclusion has been counted for it, unless the
\* file remembers the key from an earlier process.
SelectedAreJudged ==
    pc = "act" /\ mode = "active" =>
        \A d \in Decisions :
            LET c == Claim(events[d].experience,
                           IF events[d].source = "expsm_activation" THEN "activation" ELSE "search",
                           IF events[d].source = "expsm_activation"
                           THEN Number(events[d].ref) ELSE events[d].ref, d)
            IN  /\ events[d].source # "rule"
                /\ tick > events[d].tick + Delay
                /\ Speaks(c)
                => <<c.experience, c.key>> \in processed

\* A decision that came from an experience is judged for it and for no other.
SourcedDecisionsCount == SourcedDecisionsAreOwned /\ SelectedAreJudged
=============================================================================
