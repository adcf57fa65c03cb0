------------------------------ MODULE MCRecords ------------------------------
(***************************************************************************)
(* Small instances of eight modules about what is kept: the ExpSM file,    *)
(* the AKBSM and text files, draft proposals with their temporary          *)
(* metadata, the runtime's review of its own decisions, NFP experience,    *)
(* the context of drafts, the ids of patterns, and the turns of the memory *)
(* chain.  They have no state in common and are told apart by a choice     *)
(* made at the start.  The registry, when it is not chosen, stays as it     *)
(* begins; the variables of the others stay at Unused.                     *)
(***************************************************************************)
EXTENDS PatternRegistry, FiniteSets, TLC

CONSTANTS
    Torn, NoDelete, Unused,
    MaxFaults

VARIABLES
    component,      \* "file", "graph", "text", "proposals", "decisions", "native",
                    \* "drafts", "registry" or "turns"
    births, faults,
    storedPatterns, file, copy, adapter, saved, current, stale, overwritten, seen, ops,
    nodes, edges, deleting, halfDeleted, text,
    clock, policy, proposals, records, entries,
    tick, pc, mode, field, cooldowns, searches, decision,
    audits, guards, summaries, emitted, made, opinion,
    world, assembled, window, pending, transitions, groups, observed, drafted,
    store, selection, execution, verdicts,
    log, frames, experiences, candidates, reviews, now, drafts, done, reported, judged, born, scores,
    time, turn, mood, profile, cards, asking, shown, wanted, silent, decided,
    judgedStates, judgedUpdates, ready, writes, asked, restarts

ofFile == <<storedPatterns, file, copy, adapter, saved, current, stale, overwritten, seen, ops>>
ofGraph == <<nodes, edges, deleting, halfDeleted, text>>
ofProposals == <<clock, policy, proposals, records, entries>>
ofDecisions == <<tick, pc, mode, field, cooldowns, searches, decision,
                 audits, guards, summaries, emitted, made, opinion>>
ofNative == <<world, assembled, window, pending, transitions, groups, observed,
              drafted, store, selection, execution, verdicts>>
ofDrafts == <<log, frames, experiences, candidates, reviews, now, drafts, done,
              reported, judged, born, scores>>
ofTurns == <<time, turn, mood, profile, cards, asking, shown, wanted, silent, decided,
             judgedStates, judgedUpdates, ready, writes, asked, restarts>>

\* Files of the store, of several shapes: two like the frame in different
\* degrees, others unlike it, one that cannot be read; the ExpSM file also has
\* a record about a pattern the store does not have.
Num(n) == [tag |-> "number", of |-> n]
List(items) == [tag |-> "list", of |-> items]
Object(fields) == [tag |-> "object", of |-> fields]
Hz(f) == <<"number", f>>
Name(s) == <<"name", s>>
Shape(name, json) == Object(Name(name) :> json)
MCFiles ==
    [p |-> Shape("activations", Object(Hz(100) :> Num(1) @@ Hz(200) :> Num(204))),
     q |-> Shape("frames", List(<<Shape("aud", List(<<Object(Hz(100) :> Num(128))>>)),
                                  Shape("aud", List(<<List(<<Num(100), Num(10)>>),
                                                      List(<<Num(400), Num(255)>>)>>))>>)),
     i |-> Shape("img", List(<<List(<<List(<<Num(1), Num(0), Num(51)>>), Num(7)>>)>>)),
     n |-> Object(Name("nfp") :> List(<<List(<<Num(255), Num(51)>>), List(<<Num(200)>>)>>) @@ Name("type") :> Num(3)),
     s |-> Shape("sen", Object(Name("heat") :> Num(300))),
     l |-> List(<<Object(Hz(100) :> Num(2)), List(<<Num(3), Num(300)>>)>>),
     t |-> None]
MCFrame == <<"aud", 100>> :> 100 @@ <<"aud", 200>> :> 100 @@ <<"aud", 300>> :> 0

E == INSTANCE ExperienceFile WITH
        Contents <- {"p", "x", "pat_1"}, RuntimeIds <- {"pat_1"}, Files <- MCFiles, Frame <- MCFrame,
        Targets <- {2}, MaxId <- 3, MaxOps <- 3

G == INSTANCE GraphFiles WITH
        MaxId <- 2, MaxBirths <- 3, MaxHits <- 1, MaxText <- 5

\* A probe that finds one usable association of two, and one about nothing.
Link(object, score, path) == [object |-> object, relation |-> "is", score |-> score, path |-> path]
MCPayloads == {
    [source |-> "a", probe |-> FALSE, target |-> FALSE, activation |-> 60,
     links |-> <<Link("b", 80, TRUE), Link("c", 40, FALSE)>>],
    [source |-> None, probe |-> TRUE, target |-> TRUE, activation |-> 60,
     links |-> <<Link("b", 80, TRUE)>>]}
MCPolicies == [enabled : BOOLEAN, write : BOOLEAN]
MCOpenings == {[ttl |-> 2, notes |-> "plain"], [ttl |-> None, notes |-> "forbidden"],
               [ttl |-> 0, notes |-> "plain"]}

P == INSTANCE DraftProposals WITH
        Payloads <- MCPayloads, Policies <- MCPolicies, Openings <- MCOpenings,
        Ends <- {None, 3}, MaxTick <- 2, MaxMade <- 4, MaxPath <- 4

\* A label of risk, a close choice with an experience in it that consolidation
\* blocks, and a tick whose search finds a mechanism that value has raised.
Remembered(source, urgency, memory) ==
    [pattern |-> "act", amount |-> 900, confidence |-> 900, urgency |-> urgency, risk |-> 50,
     cost |-> 120, source |-> source, memory |-> memory, origin |-> None]
Experience == [match |-> 900, viability |-> 800, confidence |-> 800, repeatability |-> 500]
Mechanism == [score |-> 900, base |-> 800, viability |-> 800, confidence |-> 800,
              repeatability |-> 500, target |-> 700]
Calm == [tension |-> 0, curiosity |-> 0, risk_sensitivity |-> 0, integrity |-> 1000, fatigue |-> 0]
MCInputs ==
    LET Sees(shows) == [shows |-> shows, tone |-> Calm, pending |-> 1, labelled |-> 0,
                        activations |-> << >>, searches |-> << >>]
    IN  {Sees("risk_label" :> 900),
         [Sees("thought_need_more_data" :> 900 @@ "memory_review_approved" :> 700) EXCEPT
            !.activations = <<Remembered("expsm_activation", 450, Experience)>>],
         [Sees("experience_pending_consolidation" :> 200) EXCEPT
            !.searches = <<Remembered("expsm_mechanism_search", 500, Mechanism)>>]}

D == INSTANCE SelfReview WITH
        Inputs <- MCInputs, ExitAfter <- 1,
        ModeActions <- [enter |-> "enter_consolidation_mode", exit |-> "exit_consolidation_mode",
                        store |-> "store_memory_candidate"],
        Faint <- {"increase_attention", "wait_more_data", "continue_observation"},
        Internal <- {"store_memory_candidate", "commit_memory_draft",
                     "review_committed_memory_update", "update_committed_expsm_record",
                     "inspect_pattern", "generate_more_thought", "reduce_load",
                     "preserve_integrity"},
        Modes <- {"active", "consolidation", "recovery"},
        TopLimit <- 2, SearchWindow <- 2, MinStay <- 1, Threshold <- 350, Cooldown <- 2,
        Ttl <- 3, Decay <- 120, MaxTick <- 4,
        Window <- 2, HistoryWindow <- 4, Again <- 2, MinObserved <- 3, Advised <- TRUE

\* What other programs may have left in the store: a legacy record, one that
\* knows this world, one that knows it by a single frame, one of a later version,
\* and one whose effect has another topology.
MCLegacy == [kind |-> None, version |-> None, whole |-> TRUE, hits |-> 1, misses |-> 0,
             confidence |-> 900, repeatability |-> 500]
Lit(c) == [x \in 1..3 |-> IF x = c THEN 100 ELSE 0]
MCNative(context, effect, version) ==
    [kind |-> "nfp_native", version |-> version, context |-> context, action |-> <<0, 100>>,
     effect |-> effect, hits |-> 1, misses |-> 1, confidence |-> 900, repeatability |-> 600,
     support |-> 2, tick |-> 0, grown |-> FALSE]
MCStores == {<<MCLegacy>>,
             <<MCNative(<<Lit(2), Lit(1)>>, <<-100, 100, 0>>, 1)>>,
             <<MCNative(<<Lit(3)>>, <<0, 100, -100>>, 1)>>,
             <<MCNative(<<Lit(2), Lit(1)>>, <<-100, 100, 0>>, 2)>>,
             <<MCNative(<<Lit(2), Lit(1)>>, <<-100, 100>>, 1)>>}

N == INSTANCE NativeMemory WITH
        Columns <- 3, Motors <- {<<0, 100>>, <<100, 0>>}, WindowSize <- 2,
        ContextLevel <- 60, ActionLevel <- 90, EffectLevel <- 60, MinSupport <- 2,
        RecallLevel <- 60, AgreementLevel <- 90, DecisionLevel <- 350,
        Stores <- MCStores, MaxTick <- 4, MaxRecords <- 2, proposals <- drafted

\* A chain that preserves integrity, met with a warning in sight and met blindly,
\* while something else of its family, or a tone, is about; and cards of an older
\* version for the same chain.
MCNames == <<"action_preserve_integrity", "sen_integrity_warning", "experienced_risk_pattern",
    "aud_freq_440", "label_risk", "internal_state_risk", "tone_stability_low">>
MCStarts == [action_preserve_integrity |-> "action", sen_integrity_warning |-> "sen",
    experienced_risk_pattern |-> "experienced", aud_freq_440 |-> "aud", label_risk |-> "label",
    internal_state_risk |-> "internal", tone_stability_low |-> "tone"]
MCHolds == [n \in DOMAIN MCStarts |->
    CASE n = "experienced_risk_pattern" -> {"_pattern$"} [] n = "label_risk" -> {"label"} [] OTHER -> {}]
MCSemantics ==
    LET S == INSTANCE PatternSemantics WITH
                Semantics <- None, Starts <- MCStarts, Holds <- MCHolds
    IN  S!InferPatternSemantics
MCCore == [preserve |-> [decided |-> {"action_preserve_integrity"}, predicted |-> << >>,
                         confirmed |-> TRUE, valence |-> 40, priority |-> 50]]
MCHappenings == {
    [chain |-> "preserve", labels |-> <<"label_risk">>, predictions |-> <<"label_risk">>,
     frame |-> <<"sen_integrity_warning", "aud_freq_440", "internal_state_risk">>,
     active |-> <<"sen_integrity_warning">>],
    [chain |-> "preserve", labels |-> <<"experienced_risk_pattern">>, predictions |-> << >>,
     frame |-> <<"aud_freq_440">>, active |-> << >>]}
MCMoments == {
    [field |-> <<"experienced_risk_pattern", "aud_freq_440">>, tone |-> << >>],
    [field |-> <<"label_risk">>, tone |-> <<"tone_stability_low">>]}
Card(id, reviewed, count, pattern, confidence) ==
    [id |-> id, chain |-> "preserve", status |-> "draft_pending_commit", seen |-> count,
     reviews |-> reviewed, patterns |-> <<pattern>>,
     scored |-> <<[pattern |-> pattern, rejected |-> FALSE, seen |-> 1, score |-> 55]>>,
     counts |-> [found |-> 1, final |-> 1, out |-> 0],
     metrics |-> [support |-> 1, avg |-> confidence, low |-> None, high |-> None]]
MCLegacyCards == {<< >>, <<Card(101, {101}, None, "aud_freq_440", 50),
                           Card(102, {102, 103}, 2, "sen_integrity_warning", 80)>>}

C == INSTANCE DraftContext WITH
        Starts <- MCStarts, Holds <- MCHolds, Semantics <- MCSemantics, Names <- MCNames,
        Core <- MCCore, Happenings <- MCHappenings, Moments <- MCMoments, Legacy <- MCLegacyCards,
        Confidences <- <<60, 95>>, MaxIf <- 4, MaxActive <- 2, MaxLabels <- 2, MaxFinal <- 2,
        MinScore <- 25, MaxExperiences <- 2, MaxReviews <- 2, MaxForgotten <- 2

\* No manifest; one of a time when there was no semantics; one that says of x
\* what is no longer inferred and of action what nobody knows; and one each
\* with an id twice, a number to come too low, and semantics of nothing.
MCManifest(patterns, ids, next, semantics) ==
    [version |-> 1, patterns |-> patterns, ids |-> ids, next |-> next, semantics |-> semantics]
Says(class) == [class |-> class, tagged |-> TRUE]
MCManifests ==
    {None,
     MCManifest("action" :> 3, 3 :> "action", 4, [i \in {} |-> 0]),
     MCManifest("action" :> 1 @@ "x" :> 2, 1 :> "action" @@ 2 :> "x", 3,
                1 :> Says("odd") @@ 2 :> Says("effect")),
     MCManifest("action" :> 1 @@ "x" :> 1, 1 :> "action", 3, [i \in {} |-> 0]),
     MCManifest("action" :> 1, 1 :> "action", 1, [i \in {} |-> 0]),
     MCManifest("action" :> 1, 1 :> "action", 2, 2 :> Says("action"))}

MCInferred == "action" :> "action" @@ "x" :> "unknown" @@ "y" :> "effect"
MCDefaults == <<"action">>

\* A fair draft that has to be seen again, and a sure one that is weak.
MCCards == <<[confidence |-> 600, valence |-> 500, approved |-> 700],
             [confidence |-> 900, valence |-> 200, approved |-> 800]>>

T == INSTANCE MemoryTurns WITH
        clock <- time, verdicts <- ready, ExitAfter <- 3,
        Cards <- MCCards, Profiles <- {"draft_only", "mutating_memory"}, Steps <- {1},
        Ttl <- [store |-> 3, commit |-> 2, update |-> 3], ProposalTtl <- 2, Cooldown <- 2,
        DecisionAge <- 1, Reviews <- <<{2}, {1, 2}, {1, 2}>>, MaxTick <- 5, MaxRestarts <- 1

ASSUME InstanceAssumption ==
    /\ E!FileAssumption /\ P!ProposalAssumption
    /\ D!ChoiceAssumption /\ D!ReviewAssumption /\ N!MemoryAssumption
    /\ C!SemanticsAssumption /\ C!ContextAssumption /\ RegistryAssumption
    /\ T!TurnsAssumption

Alike == Permutations(Handles)

Out(x) == x = Unused
OutOfFile ==
    /\ Out(storedPatterns) /\ Out(file) /\ Out(copy) /\ Out(adapter) /\ Out(saved) /\ Out(current) /\ Out(stale)
    /\ Out(overwritten) /\ Out(seen) /\ Out(ops)
OutOfGraph == Out(nodes) /\ Out(edges) /\ Out(deleting) /\ Out(halfDeleted) /\ Out(text)
OutOfProposals == Out(clock) /\ Out(policy) /\ Out(proposals) /\ Out(records) /\ Out(entries)
OutOfDecisions ==
    /\ Out(tick) /\ Out(pc) /\ Out(mode) /\ Out(field) /\ Out(cooldowns) /\ Out(searches)
    /\ Out(decision) /\ Out(audits) /\ Out(guards) /\ Out(summaries) /\ Out(emitted)
    /\ Out(made) /\ Out(opinion)

OutOfNative ==
    /\ Out(world) /\ Out(assembled) /\ Out(window) /\ Out(pending) /\ Out(transitions)
    /\ Out(groups) /\ Out(observed) /\ Out(drafted) /\ Out(store) /\ Out(selection)
    /\ Out(execution) /\ Out(verdicts)
OutOfDrafts ==
    /\ Out(log) /\ Out(frames) /\ Out(experiences) /\ Out(candidates) /\ Out(reviews)
    /\ Out(now) /\ Out(drafts) /\ Out(done) /\ Out(reported) /\ Out(judged) /\ Out(born)
    /\ Out(scores)
OutOfTurns ==
    /\ Out(time) /\ Out(turn) /\ Out(mood) /\ Out(profile) /\ Out(cards) /\ Out(asking)
    /\ Out(shown) /\ Out(wanted) /\ Out(silent) /\ Out(decided) /\ Out(judgedStates)
    /\ Out(judgedUpdates) /\ Out(ready) /\ Out(writes) /\ Out(asked) /\ Out(restarts)

MCInit ==
    /\ component \in {"file", "graph", "text", "proposals", "decisions", "native", "drafts",
                      "registry", "turns"}
    /\ IF component = "file" THEN E!Init ELSE OutOfFile
    /\ IF component \in {"graph", "text"} THEN G!Init ELSE OutOfGraph
    /\ component \notin {"file", "graph", "text"} => Out(births) /\ Out(faults)
    /\ IF component = "proposals" THEN P!Init ELSE OutOfProposals
    /\ IF component = "decisions" THEN D!Init ELSE OutOfDecisions
    /\ IF component = "native" THEN N!Init ELSE OutOfNative
    /\ IF component = "drafts" THEN C!Init ELSE OutOfDrafts
    /\ RegistryInit /\ (component # "registry" => manifest = None)
    /\ IF component = "turns" THEN T!Init ELSE OutOfTurns

MCNext ==
    \/ component = "file" /\ E!Next
        /\ UNCHANGED <<component, ofGraph, ofProposals, ofDecisions, ofNative, ofDrafts,
                       registryVars, ofTurns>>
    \/ component = "graph" /\ G!GraphNext
        /\ UNCHANGED <<component, ofFile, ofProposals, ofDecisions, ofNative, ofDrafts,
                       registryVars, ofTurns>>
    \/ component = "text" /\ G!TextNext
        /\ UNCHANGED <<component, ofFile, ofProposals, ofDecisions, ofNative, ofDrafts,
                       registryVars, ofTurns>>
    \/ component = "proposals" /\ P!Next
        /\ UNCHANGED <<component, births, faults, ofFile, ofGraph, ofDecisions, ofNative,
                       ofDrafts, registryVars, ofTurns>>
    \/ component = "decisions" /\ D!Next
        /\ UNCHANGED <<component, births, faults, ofFile, ofGraph, ofProposals, ofNative,
                       ofDrafts, registryVars, ofTurns>>
    \/ component = "native" /\ N!Next
        /\ UNCHANGED <<component, births, faults, ofFile, ofGraph, ofProposals, ofDecisions,
                       ofDrafts, registryVars, ofTurns>>
    \/ component = "drafts" /\ C!Next
        /\ UNCHANGED <<component, births, faults, ofFile, ofGraph, ofProposals, ofDecisions,
                       ofNative, registryVars, ofTurns>>
    \/ component = "registry" /\ RegistryNext
        /\ UNCHANGED <<component, births, faults, ofFile, ofGraph, ofProposals, ofDecisions,
                       ofNative, ofDrafts, ofTurns>>
    \/ component = "turns" /\ T!Next
        /\ UNCHANGED <<component, births, faults, ofFile, ofGraph, ofProposals, ofDecisions,
                       ofNative, ofDrafts, registryVars>>

MCSpec == MCInit /\ [][MCNext]_<<component, births, faults, ofFile, ofGraph, ofProposals, ofDecisions,
                                 ofNative, ofDrafts, ofTurns, registryVars>>

(***************************************************************************)
(* Properties: those of the modules, each for its own behaviours.          *)
(***************************************************************************)
\* ExperienceFile: "permanent memory record ids must not be reused".
IdsNotReused == component = "file" => E!IdsNotReused

\* ExperienceFile: records are lost, and ids used again, only after a save that
\* did not know the last one or a call for an id that was taken; the adapter
\* offers what was live when it read.  GraphFiles: an edge joins the nodes it
\* was made for; a line stands alone.
FilesKeepTheirRecords ==
    /\ component = "file" => E!NothingLost /\ E!OffersAreLive
    /\ component = "graph" => G!EdgesJoinTheirNodes
    /\ component = "text" => G!LinesStandAlone

\* DraftProposals: every path of reviews ends well, nothing outlives its ttl,
\* and the layers of diagnostics agree.
ProposalsStayDrafts ==
    component = "proposals" => P!PathsEndWell /\ P!NothingOutlivesItsTtl /\ P!LayersAgree

\* ActionChoice: the best is decided unless it is crowded out; experience is
\* forgotten in consolidation.  SelfReview: decisions are counted again slowly,
\* and verdicts about them are earned.
DecisionsAreReviewed ==
    component = "decisions" =>
        D!BestUnlessCrowded /\ D!ExperienceIsForgotten /\ D!RecountedSlowly /\ D!VerdictsAreEarned

\* NativeMemory: records stand for as many occurrences as they say, what acts is
\* a recall of what was just seen, and its verdict is its own.  DraftContext: what
\* a draft knows of its situation is its own, the best that was found, and from
\* reviews that count once.  MemoryTurns: what is written was asked for.
MemoryIsEarned ==
    /\ component = "native" => N!RecordsAreEarned /\ N!ActsOnWhatItSees /\ N!VerdictsAreItsOwn
    /\ component = "drafts" => C!ContextIsOwn /\ C!BestAreKept /\ C!ReviewsCountOnce
    /\ component = "turns" => T!WritesAreAsked
=============================================================================
