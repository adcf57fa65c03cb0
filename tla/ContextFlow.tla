--------------------------- MODULE ContextFlow ---------------------------
(***************************************************************************)
(* One tick of the runtime as the flow of operations through the context:   *)
(* an input frame is committed, the label modules, the predictor, the       *)
(* neuromodulation and the thought generator read the recent past and add   *)
(* to it, the later phases add bursts of events of any kind, and the        *)
(* projection turns these into tone.  Every module reads bounded windows of *)
(* side lists that retention cuts behind it, and remembers in a set or a    *)
(* last tick what it has already seen.                                      *)
(*                                                                         *)
(* The caller names the tick of each input; the same tick may be fed twice. *)
(* The mode manager may enter or leave consolidation in any tick; there no   *)
(* input is processed, and the consolidation processor relieves the tone.   *)
(* The events of the other modules are left open: Bursts gives them.        *)
(***************************************************************************)
EXTENDS Neuromodulation

CONSTANTS
    Inputs(_),      \* the frames that may be fed as the n-th, and how much later
    Bursts(_),      \* the sequences of events that may follow the n-th frame
    Shown(_),       \* whether the field may then show a strong risk or label
    MaxFeeds,       \* bound on frames
    MaxSwitches,    \* bound on changes of mode
    MaxReviewed,    \* how many pending candidates of a kind the processor reviews
    LightWork       \* up to how many reviewed candidates the relief is full

\* Ticks do not go back.  What the later phases add is of known markers, but neither
\* the pressure, which is told in its own phase, nor the tone, which only the
\* neuromodulation and the homeostasis write.  Only a window says when it began.
ASSUME FlowAssumption ==
    /\ MaxFeeds \in Nat
    /\ \A n \in 1 .. MaxFeeds : \A input \in Inputs(n) :
          input.later \in Nat /\ "from" \notin DOMAIN input
    /\ \A n \in 1 .. MaxFeeds : \A burst \in Bursts(n) :
          /\ burst \in Seq(Range(burst))
          /\ \A body \in Range(burst) :
                /\ "marker" \in DOMAIN body /\ "from" \notin DOMAIN body
                /\ body.marker \in Markers \ {ToneMarker, "consolidation_pressures"}

VARIABLES
    pc,             \* next phase: feed, label, predict, tone, think, press, act,
                    \* consolidate, project, settle
    run,            \* memory, handled, thought, tick, next, updates, lastInputs, lastHomeostasis
    seen,           \* what each reader of frames and labels last acted on
    mode,           \* "awake" (active or recovery) or "consolidation", and when that was left
    relief,         \* the effects of the consolidation processor
    feeds, switches \* bounds

vars == <<pc, run, seen, mode, relief, feeds, switches>>

Readers == {"novelty", "risk", "rhythm", "internal", "thoughts", "pressure", "processor"}

Init ==
    /\ pc = "feed"
    /\ run = [memory |-> EmptyMemory(InitialTone), handled |-> {}, tick |-> 1,
              next |-> 1, updates |-> <<>>, thought |-> {}, lastInputs |-> 0, lastHomeostasis |-> 0]
    /\ seen = [r \in Readers \cup {"predictor"} |-> IF r = "predictor" THEN <<>> ELSE 0]
    /\ mode = [now |-> "awake", left |-> 0] /\ relief = {}
    /\ feeds = 0 /\ switches = 0

\* The operations of bodies, numbered and stamped, are pushed and applied.
Commit(r, bodies) ==
    LET ops == [i \in 1 .. Len(bodies) |->
                  Over([id |-> r.next + i - 1, tick |-> r.tick], bodies[i])]
    IN  [r EXCEPT !.memory = ApplyPending(@, ops), !.next = @ + Len(ops)]

\* feed_audio, feed_sensor, feed_image: the preprocessor makes one frame.
Feed ==
    /\ pc = "feed"
    /\ feeds < MaxFeeds
    /\ feeds' = feeds + 1
    /\ \E input \in Inputs(feeds') :
         run' = Commit([run EXCEPT !.tick = @ + input.later],
                       <<Over([marker |-> "raw_input_write"], input)>>)
    /\ pc' = IF mode.now = "awake" THEN "label" ELSE "press"
    /\ UNCHANGED <<seen, mode, relief, switches>>

(***************************************************************************)
(* The label modules.  Each looks for its evidence among the recent frames  *)
(* and labels the newest at most once; a window is written for the label.   *)
(***************************************************************************)
Label(what, frame, confidence, risk) ==
    [marker |-> "labels", what |-> what, of |-> frame.id,
     confidence |-> confidence, risk |-> risk]

NoLabel == [labels |-> <<>>, saw |-> 0, looked |-> <<>>]

NoveltyDLM(memory) ==
    LET latest == RecentFrames(memory, 1)
        f == Last(latest)
    IN  IF latest = <<>> \/ f.source # "img" \/ f.tick = seen["novelty"] THEN NoLabel
        ELSE [labels |-> <<IF f.known THEN Label("known", f, 900, 50)
                                      ELSE Label("novel", f, 700, 150)>>,
              saw |-> f.tick, looked |-> <<[n |-> 1, source |-> "img"]>>]

RhythmDLM(memory) ==
    LET recent == RecentFrames(memory, 6)
        heard == Picked(recent, {i \in DOMAIN recent : recent[i].source = "aud"})
        turns == {i \in 2 .. Len(heard) - 1 :
                    /\ heard[i - 1].loud # heard[i].loud
                    /\ heard[i].loud # heard[i + 1].loud}
    IN  IF Len(heard) < 4 \/ Last(heard).tick = seen["rhythm"] \/ Cardinality(turns) < 2
        THEN NoLabel
        ELSE [labels |-> <<Label("periodic", Last(heard), 720, 400)>>,
              saw |-> Last(heard).tick, looked |-> <<[n |-> Len(heard), source |-> "aud"]>>]

\* The risk of a frame is what the remembered reflexes and experiences it
\* matches make of it, else the weight of its sensor alarms.
RiskDLM(memory) ==
    LET recent == RecentFrames(memory, 4)
        now == Picked(recent, {i \in DOMAIN recent : /\ recent[i].tick = run.tick
                                                     /\ recent[i].source # "thought"})
        risk == WorstRisk(now)
        matched == now # <<>> /\ Last(now).matched
        looked == <<[n |-> Len(now), source |-> Last(now).source]>>
    IN  IF now = <<>> \/ run.tick = seen["risk"] THEN NoLabel
        ELSE IF ~matched /\ risk < 500 THEN [NoLabel EXCEPT !.looked = looked]
        ELSE [labels |-> <<Over([matched |-> matched],
                               Label("experienced", Last(now), risk, risk))>>,
              saw |-> run.tick, looked |-> looked]

\* The newest sensor frame may be of an earlier tick.
InternalStateDLM(memory) ==
    LET recent == RecentFrames(memory, 4)
        felt == Picked(recent, {i \in DOMAIN recent : recent[i].source = "sen"})
        f == Last(felt)
    IN  IF felt = <<>> \/ f.tick = seen["internal"] \/ f.alarm < 600 THEN NoLabel
        ELSE [labels |-> <<Label("internal", f, f.alarm, f.alarm)>>,
              saw |-> f.tick, looked |-> <<>>]

LabelInputs ==
    /\ pc = "label"
    /\ LET found == [rhythm |-> RhythmDLM(run.memory), novelty |-> NoveltyDLM(run.memory),
                     risk |-> RiskDLM(run.memory), internal |-> InternalStateDLM(run.memory)]
           looked == found.rhythm.looked \o found.novelty.looked \o found.risk.looked
       IN  /\ run' = Commit([run EXCEPT !.memory = AddWindows(@, looked)],
                            found.rhythm.labels \o found.novelty.labels
                              \o found.risk.labels \o found.internal.labels)
           /\ seen' = [r \in DOMAIN seen |->
                         IF r \in DOMAIN found /\ found[r].labels # <<>>
                         THEN found[r].saw ELSE seen[r]]
    /\ pc' = "predict"
    /\ UNCHANGED <<mode, relief, feeds, switches>>

\* SimpleFutureStatePredictor: what each label of the tick makes likely, once
\* for the same labels.  It looks for what it remembers in a window of the latest
\* frame, which is written too.
Predict ==
    /\ pc = "predict"
    /\ LET labels == During(run, "labels", {run.tick})
           signature == [i \in DOMAIN labels |-> labels[i].id]
           Has(what) == \E i \in DOMAIN labels : labels[i].what = what
           risky == \E i \in DOMAIN labels : labels[i].risk >= 400
           Expect(c, shift) ==
               IF c THEN <<[marker |-> "predictions", expects |-> shift]>> ELSE <<>>
           latest == RecentFrames(run.memory, 1)
           outside == latest # <<>> /\ latest[1].source # "thought"
           looked == IF outside THEN <<[n |-> 1, source |-> latest[1].source]>> ELSE <<>>
           remembered == \/ \E i \in DOMAIN labels :
                                labels[i].what = "experienced" /\ labels[i].matched
                         \/ outside /\ latest[1].matched
           expected ==
             Expect(remembered, [tension |-> 100, risk_sensitivity |-> 150])
               \o Expect(Has("periodic") /\ risky,
                         [tension |-> 136, curiosity |-> 68, risk_sensitivity |-> 204])
               \o Expect(Has("internal"),
                         [tension |-> 266, risk_sensitivity |-> 190, stability |-> -152])
               \o Expect(Has("novel"), [curiosity |-> 155, tension |-> -31])
       IN  IF labels = <<>> \/ signature = seen["predictor"] THEN UNCHANGED <<run, seen>>
           ELSE /\ run' = Commit([run EXCEPT !.memory = AddWindows(@, looked)], expected)
                /\ seen' = [seen EXCEPT !["predictor"] = signature]
    /\ pc' = "tone"
    /\ UNCHANGED <<mode, relief, feeds, switches>>

FeelInputs ==
    /\ pc = "tone"
    /\ run' = RunInputs(run)
    /\ pc' = "think"
    /\ UNCHANGED <<seen, mode, relief, feeds, switches>>

\* ThoughtGeneratorModule.run, once per tick number.  pressed is whether the
\* field shows a label or prediction above 0.7.
Think ==
    /\ pc = "think"
    /\ \E pressed \in Shown(feeds) :
         LET labels == During(run, "labels", {run.tick})
             Has(what) == \E i \in DOMAIN labels : labels[i].what = what
             stirred == \/ WorstRisk(labels) >= 550
                        \/ run.memory.tone.tension >= 450 \/ pressed
                        \/ (Has("novel") /\ WorstRisk(labels) < 400)
                        \/ Has("internal")
         IN  run' = IF run.tick = seen["thoughts"] \/ ~stirred THEN run
                    ELSE Commit(run, <<[marker |-> "self_generated_thought",
                                        source |-> "thought"]>>)
    /\ seen' = [seen EXCEPT !["thoughts"] = run.tick]
    /\ pc' = "press"
    /\ UNCHANGED <<mode, relief, feeds, switches>>

\* ThoughtGeneratorModule.run_effects: an effect may ask for a thought.
ThinkEffects(r) ==
    LET effects == During(r, "effects", {r.tick})
        asked == {i \in DOMAIN effects : /\ effects[i].id \notin r.thought
                                         /\ effects[i].status \in {"inspection", "more_thought"}}
        ids == {effects[i].id : i \in asked}
    IN  IF asked = {} THEN r
        ELSE Commit([r EXCEPT !.thought = @ \cup ids],
                    <<[marker |-> "self_generated_thought", source |-> "thought"]>>)

(***************************************************************************)
(* Consolidation: what is pending, what is new and what failed, fatigue and *)
(* tension, and the time since it last happened press for it.               *)
(***************************************************************************)
Pressure(memory) ==
    LET Upto(max, n) == IF n > max THEN max ELSE n
        Count(kind, n, Test(_)) == Len(SelectSeq(RecentOf(memory, kind, n), Test))
        Lately(e) == run.tick - e.tick <= 6
        tone == memory.tone
        sources ==
            <<Upto(300, 80 * Len(memory.lists["experience_candidates"])),
              Upto(350, 120 * Len(memory.lists["consolidation_candidates"])),
              Upto(200, 50 * Count("labels", 16, LAMBDA l : Lately(l) /\ l.what = "novel")),
              Upto(250, 80 * Count("outcomes", 16,
                    LAMBDA o : Lately(o) /\ o.status \in {"failed", "partially_confirmed"})),
              Clamp(0, 1000, tone.fatigue - 450) \div 2,
              Clamp(0, 1000, tone.tension - 750) \div 5,
              Upto(200, 10 * (run.tick - mode.left)),
              Upto(120, 5 * Len(SelectSeq(LastOf(memory.events, 40),
                                          LAMBDA e : run.tick - e.tick <= 4)))>>
        sum == FoldLeft(LAMBDA x, y : x + y, 0, sources)
    IN  Clamp(0, 1000, IF mode.now = "consolidation" THEN sum \div 2 ELSE sum)

PressureLevel(value) ==
    IF value >= 650 THEN "high" ELSE IF value >= 350 THEN "medium" ELSE "low"

Press ==
    /\ pc = "press"
    /\ run' = IF run.tick = seen["pressure"] THEN run
              ELSE Commit(run, <<[marker |-> "consolidation_pressures",
                                  level |-> PressureLevel(Pressure(run.memory))]>>)
    /\ seen' = [seen EXCEPT !["pressure"] = run.tick]
    /\ pc' = "act"
    /\ UNCHANGED <<mode, relief, feeds, switches>>

\* Phases 04 to 07: the other modules add what they find.  Only where an action
\* was decided are its effects felt, and at once.
Act ==
    /\ pc = "act"
    /\ \E burst \in Bursts(feeds) :
         \/ run' = ThinkEffects(RunEffects(Commit(run, burst)))
         \/ /\ \A i \in DOMAIN burst : burst[i].marker # "effects"
            /\ run' = Commit(run, burst)
    /\ pc' = "consolidate"
    /\ UNCHANGED <<seen, mode, relief, feeds, switches>>

\* SystemModeManager.run: consolidation is entered, or left for recovery.
Switched ==
    \/ UNCHANGED <<mode, switches>>
    \/ /\ switches < MaxSwitches /\ switches' = switches + 1
       /\ mode' = IF mode.now = "awake" THEN [mode EXCEPT !.now = "consolidation"]
                  ELSE [now |-> "awake", left |-> run.tick]

\* ConsolidationModeProcessor: an effect that says what relief the review of
\* the pending candidates gives, and a tone update that gives it.
Relieved(r) ==
    LET Pending(kind) == Len(LastOf(RecentOf(r.memory, kind, 16), MaxReviewed))
        work == Pending("experience_candidates") + Pending("consolidation_candidates")
        status == IF work <= LightWork THEN "processing" ELSE "heavy_processing"
        delta == By(EffectSays[status])
        told == Commit(r, <<[marker |-> "effects", status |-> status]>>)
    IN  Emit(told, delta, {r.next})

Consolidate ==
    /\ pc = "consolidate"
    /\ Switched
    /\ IF mode'.now = "consolidation" /\ run.tick # seen["processor"]
       THEN /\ run' = Relieved(run)
            /\ relief' = relief \cup {run.next}
            /\ seen' = [seen EXCEPT !["processor"] = run.tick]
       ELSE UNCHANGED <<run, relief, seen>>
    /\ pc' = "project"
    /\ UNCHANGED feeds

Project ==
    /\ pc = "project"
    /\ run' = Projected(run)
    /\ pc' = "settle"
    /\ UNCHANGED <<seen, mode, relief, feeds, switches>>

Settle ==
    /\ pc = "settle"
    /\ \E shown \in Shown(feeds) : run' = Homeostasis(run, shown)
    /\ pc' = "feed"
    /\ UNCHANGED <<seen, mode, relief, feeds, switches>>

Next ==
    \/ Feed
    \/ LabelInputs
    \/ Predict
    \/ FeelInputs
    \/ Think
    \/ Press
    \/ Act
    \/ Consolidate
    \/ Project
    \/ Settle

Spec == Init /\ [][Next]_vars

(***************************************************************************)
(* Properties                                                              *)
(***************************************************************************)
Entries(l) == Range(run.memory.lists[l])

\* No tone update is lost: every module computes its update from the tone it
\* finds and writes the result, so the current tone must be what all deltas,
\* applied one after the other, make of the initial tone.  A handler that ran
\* before the update of the one before it is applied would undo that update.
ToneIsTheLog == run.memory.tone = ToneAfter(run.updates)

Felt == {"effects", "outcomes", "experience_candidates", "consolidation_candidates",
         "memory_write_reviews", "memory_draft_writes", "memory_draft_commit_reviews",
         "memory_commits", "committed_draft_observations", "expsm_update_reviews",
         "memory_updates", "expsm_activations", "expsm_feedback",
         "expsm_similarity_observations", "expsm_competition_observations",
         "evaluation_signals", "evaluation_targets", "akbsm_association_probes",
         "expsm_mechanism_searches", "target_satisfaction_observations",
         "value_feedback_candidates", "value_feedback_reviews",
         "value_feedback_updates", "decision_audits", "action_guard_audits",
         "decision_cycle_summaries"}

\* An event moves the tone exactly once.  It stays in the windows of the handler
\* for ticks, the same tick may run again, and outcomes are looked at in two
\* phases, yet only the effect of the consolidation processor may be felt again,
\* once, when an action is decided in a second feed of its tick: its own update
\* has given that relief before.  The pressure of a tick is told once.  And after
\* the projection nothing of the tick is left unfelt but what a burst larger than
\* the window of its handler pushed out of sight, and that relief.
FeltExactlyOnce ==
    /\ \A i, j \in DOMAIN run.updates :
          i # j => run.updates[i].based \cap run.updates[j].based \subseteq relief
    /\ \A e \in relief :
          Cardinality({i \in DOMAIN run.updates : e \in run.updates[i].based}) <= 2
    /\ \A e, f \in Entries("consolidation_pressures") : e.tick = f.tick => e = f
    /\ pc \in {"settle", "feed"} =>
          \A k \in Felt : \A e \in Range(RecentOf(run.memory, k, Window[k])) :
              e.tick = run.tick => e.id \in run.handled \cup relief

\* The side lists are a view of the log: of each marker they hold what the
\* log holds, oldest first and up to their cap, and what else they hold is of
\* the tick the log begins in.  The diagnostics then report nothing older than
\* the log, but windows that began before it and end in it.
SideListsFollowLog ==
    /\ \A k \in Markers \ FrameMarkers :
          LET listed == run.memory.lists[k]
              events == run.memory.events
              logged == LastOf(Picked(events, {i \in DOMAIN events : events[i].marker = k}),
                               MaxEntries[k])
          IN  /\ IsSuffix(logged, listed)
              /\ \A e \in Range(listed) \ Range(logged) : e.tick = Head(run.memory.events).tick
    /\ run.memory.events # <<>> =>
          LET report == RetentionReport(run.memory)
              first == Head(run.memory.events).tick
          IN  \A l \in DOMAIN report :
                 /\ report[l].newest <= run.tick
                 /\ report[l].newest >= first
                 /\ (report[l].oldest >= first \/ l = "windows")
                 /\ report[l].stale > 0 => l = "windows"

\* The tone and the side lists say what the log and the updates say, after every
\* cut: what the handlers look at is what happened.
ViewsFollowLog == ToneIsTheLog /\ SideListsFollowLog
=============================================================================
