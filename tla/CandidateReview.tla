-------------------------- MODULE CandidateReview --------------------------
(***************************************************************************)
(* How what happened becomes a request to remember it.  In a tick that is   *)
(* not spent consolidating, OutcomeEvaluator judges the predictions,        *)
(* decisions and effects that have had time to show, ExperienceCandidate-   *)
(* Builder makes a candidate of each learnable outcome among the recent     *)
(* ones, and ExperienceCandidateBuffer groups the candidates that say the   *)
(* same thing.  In a tick of consolidation MemoryWriteReviewModule decides  *)
(* which groups are ready for the draft writer.  Each module sees only a    *)
(* window of the last records of the one before it.                         *)
(*                                                                         *)
(* Confidences are in hundredths.  A signature is an outcome's status with  *)
(* its core: the patterns of the decision, effect and prediction behind it. *)
(***************************************************************************)
EXTENDS Positions, SequencesExt, FiniteSetsExt

CONSTANTS
    Verdicts,           \* source kind -> the [status, confidence, borne] it may get
    Delay,              \* evaluation_delay_ticks
    OutcomeWindow,      \* get_recent_outcomes(16)
    CandidateWindow,    \* get_recent_experience_candidates(24)
    ReadyWindow,        \* get_recent_consolidation_candidates(16)
    MaxSources          \* bound on judged events

\* What can be waited for: a decision with its effect (each judged on its
\* own), a decision the guard kept from having one, an effect, a prediction,
\* and a decision about the mode, which is not to be learned.
Kinds == {"decision", "effect", "barren", "prediction", "mode"}

\* The events one tick may leave behind.
Works == {<<>>, <<"decision", "effect">>, <<"barren">>, <<"prediction">>, <<"mode">>}

CoreOf == [kind \in Kinds |-> IF kind \in {"decision", "effect"} THEN "action" ELSE kind]
Learnable(kind) == kind /= "mode"

\* _has_complete_core: the decision has its effect, or there is a prediction.
Complete(core) == core \in {"action", "prediction"}

Statuses == {"confirmed", "partially_confirmed", "failed"}
Signatures == Statuses \X {CoreOf[kind] : kind \in Kinds}

ReviewAssumption ==
    /\ DOMAIN Verdicts = Kinds
    /\ \A kind \in Kinds :
          Verdicts[kind] \subseteq [status : Statuses \cup {"inconclusive"},
                                    confidence : 0 .. 100, borne : BOOLEAN]
    /\ Delay \in Nat /\ MaxSources \in Nat
    /\ OutcomeWindow \in Nat \ {0} /\ ReadyWindow \in Nat \ {0}
    /\ CandidateWindow \in Nat /\ CandidateWindow >= OutcomeWindow

VARIABLES
    pc,             \* module about to run in this tick
    mode,           \* system_state.mode: active or consolidation
    processing,     \* active_processing, read when the tick began
    sources,        \* [kind, age] of every event to judge, oldest first
    judged,         \* _evaluated_source_event_ids
    outcomes,       \* memory.outcomes: [source, status, confidence, borne, batch]
    handled,        \* _handled_outcome_ids
    candidates,     \* memory.experience_candidates: [outcome, confidence]
    processed,      \* _processed_candidate_ids
    groups,         \* _groups_by_signature
    ready,          \* memory.consolidation_candidates: snapshots of groups
    reviewed,       \* _reviewed_support_by_group, 0 for none
    approved,       \* _approved_support_by_signature, 0 for none
    reviews         \* memory.memory_write_reviews

evaluator == <<sources, judged, outcomes>>
builder == <<handled, candidates>>
buffer == <<processed, groups, ready>>
reviewer == <<reviewed, approved, reviews>>
vars == <<pc, mode, processing, evaluator, builder, buffer, reviewer>>

\* Mutant: the window holds the oldest.
Slice_Oldest(s, n) == SubSeq(s, 1, IF Len(s) > n THEN n ELSE Len(s))

Slice(s, n) == SubSeq(s, IF Len(s) > n THEN Len(s) - n + 1 ELSE 1, Len(s))

SignatureOf(outcome) == <<outcome.status, CoreOf[sources[outcome.source].kind]>>
CandidateSignature(c) == SignatureOf(outcomes[c.outcome])

EmptyGroup == [support |-> 0, confidence |-> 0, evidence |-> {}, emitted |-> 0]

Init ==
    /\ pc = "work" /\ mode = "active" /\ processing = TRUE
    /\ sources = <<>> /\ judged = {} /\ outcomes = <<>>
    /\ handled = {} /\ candidates = <<>>
    /\ processed = {} /\ groups = [sig \in Signatures |-> EmptyGroup] /\ ready = <<>>
    /\ reviewed = [sig \in Signatures |-> 0] /\ approved = [sig \in Signatures |-> 0]
    /\ reviews = <<>>

---------------------------------------------------------------------------
\* Phases 00-04 of a tick: it may leave events to judge.  Those of earlier
\* ticks are a tick older; past the delay their age no longer matters.
Work ==
    /\ pc = "work"
    /\ \E work \in Works :
          /\ Len(sources) + Len(work) <= MaxSources
          /\ sources' =
                [i \in 1 .. Len(sources) |->
                    [sources[i] EXCEPT !.age = IF @ < Delay THEN @ + 1 ELSE @]]
                \o [i \in 1 .. Len(work) |-> [kind |-> work[i], age |-> 0]]
    /\ processing' = (mode = "active")
    /\ pc' = "mode"
    /\ UNCHANGED <<mode, judged, outcomes, builder, buffer, reviewer>>

\* Phase 05 begins with the mode manager.  The review runs in consolidation;
\* phase 06 only when the tick neither began nor is now in consolidation.
SwitchMode ==
    /\ pc = "mode"
    /\ \E next \in {"active", "consolidation"} :
          /\ mode' = next
          /\ pc' = CASE next = "consolidation" -> "review"
                     [] next = "active" /\ processing -> "evaluate"
                     [] OTHER -> "work"
    /\ UNCHANGED <<processing, evaluator, builder, buffer, reviewer>>

---------------------------------------------------------------------------
\* Mutant: _evaluated_source_event_ids is not consulted.
Due_Again(i) == sources[i].age >= Delay

Due(i) == i \notin judged /\ sources[i].age >= Delay

DueSources == {i \in 1 .. Len(sources) : Due(i)}

\* OutcomeEvaluator.run: every event old enough is judged, once.
Evaluate ==
    /\ pc = "evaluate"
    /\ LET due == InOrder(DueSources)
       IN  \E verdict \in [1 .. Len(due) -> UNION {Verdicts[kind] : kind \in Kinds}] :
              /\ \A i \in 1 .. Len(due) : verdict[i] \in Verdicts[sources[due[i]].kind]
              /\ outcomes' = outcomes \o
                    [i \in 1 .. Len(due) |->
                        [source |-> due[i], status |-> verdict[i].status,
                         confidence |-> verdict[i].confidence, borne |-> verdict[i].borne,
                         batch |-> Len(due)]]
    /\ judged' = judged \cup DueSources
    /\ pc' = "build"
    /\ UNCHANGED <<mode, processing, sources, builder, buffer, reviewer>>

\* Mutant: the newest outcome is left for the next run.
Fresh_Late == {i \in Recent(outcomes, OutcomeWindow) :
                i < Len(outcomes) /\ i \notin handled /\ outcomes[i].status \in Statuses}

\* The outcomes a run of the builder takes up: conclusive, recent, new.
Fresh == {i \in Recent(outcomes, OutcomeWindow) :
            i \notin handled /\ outcomes[i].status \in Statuses}

\* _confidence: a weak candidate is worth seven tenths of its outcome.
Confidence(outcome) ==
    IF outcome.status = "partially_confirmed"
    THEN (outcome.confidence * 7) \div 10 ELSE outcome.confidence

\* ExperienceCandidateBuilder.run: what it skips as not learnable is handled
\* too; what is inconclusive is not, and keeps its place in the window.
Build ==
    /\ pc = "build"
    /\ handled' = handled \cup Fresh
    /\ LET learned == InOrder({i \in Fresh : Learnable(sources[outcomes[i].source].kind)})
       IN  candidates' = candidates \o
              [k \in 1 .. Len(learned) |->
                  [outcome |-> learned[k], confidence |-> Confidence(outcomes[learned[k]])]]
    /\ pc' = "buffer"
    /\ UNCHANGED <<mode, processing, evaluator, buffer, reviewer>>

---------------------------------------------------------------------------
\* Mutant: only the last candidate is looked at.
NewCandidates_Last == Recent(candidates, 1) \ processed

NewCandidates == Recent(candidates, CandidateWindow) \ processed

Confidences(ks) == FoldSet(LAMBDA k, sum : sum + candidates[k].confidence, 0, ks)

\* _add_to_group for every new candidate of one signature.
Grown(sig) ==
    LET mine == {k \in NewCandidates : CandidateSignature(candidates[k]) = sig}
        g == groups[sig]
    IN  [support |-> g.support + Cardinality(mine),
         confidence |-> g.confidence + Confidences(mine),
         evidence |-> g.evidence \cup {outcomes[candidates[k].outcome].source : k \in mine},
         emitted |-> g.emitted]

\* The candidates of a status all have one valence: _valence adds to the
\* status's base a tone delta the evaluator fixes per status.
Valence == [confirmed |-> 69, partially_confirmed |-> 13, failed |-> -70]
Size(n) == IF n < 0 THEN -n ELSE n

\* _is_ready, with avg_confidence >= c written without the division.
Ready(sig, g) ==
    \/ g.support >= 2 /\ g.confidence >= 45 * g.support
    \/ g.support >= 1 /\ g.confidence >= 85 * g.support
    \/ Size(Valence[sig[1]]) >= 65 /\ g.support >= 2
    \/ sig[1] = "failed" /\ g.support >= 2

\* Mutant: a group is announced once.
Announces_Once(sig, g) == Ready(sig, g) /\ g.emitted = 0

\* _is_ready and _should_emit, of a group that has just grown.
Announces(sig, g) == Ready(sig, g) /\ g.support > g.emitted

\* ExperienceCandidateBuffer.run: all new candidates join their groups, then
\* each changed group is announced if it is ready and has grown since.
Buffer ==
    /\ pc = "buffer"
    /\ LET grown == [sig \in Signatures |-> Grown(sig)]
           first == {k \in NewCandidates :        \* one per changed group
                        \A l \in NewCandidates :
                            CandidateSignature(candidates[l]) = CandidateSignature(candidates[k])
                                => k <= l}
           Announced(sig) == Announces(sig, grown[sig])
           order == InOrder({k \in first : Announced(CandidateSignature(candidates[k]))})
           announced == [i \in 1 .. Len(order) |-> CandidateSignature(candidates[order[i]])]
       IN  /\ groups' = [sig \in Signatures |->
                 IF sig \in ToSet(announced)
                 THEN [grown[sig] EXCEPT !.emitted = grown[sig].support] ELSE grown[sig]]
           /\ ready' = ready \o
                 [i \in 1 .. Len(announced) |->
                     [signature |-> announced[i], support |-> grown[announced[i]].support,
                      confidence |-> grown[announced[i]].confidence,
                      evidence |-> grown[announced[i]].evidence]]
    /\ processed' = processed \cup NewCandidates
    /\ pc' = "work"
    /\ UNCHANGED <<mode, processing, evaluator, builder, reviewer>>

---------------------------------------------------------------------------
\* Mutant: the support is not asked for.
Classify_Single(c, best) ==
    IF ~ Complete(c.signature[2]) THEN "rejected_incomplete_core"
    ELSE IF c.confidence >= 55 * c.support THEN "approved_for_expsm"
    ELSE "needs_more_support"

\* _classify, in the order of its returns.  rejected_low_value is left out:
\* it asks for a valence nearer to 0 than any status gives.
Classify(c, best) ==
    LET support == c.support
        AtLeast(percent) == c.confidence >= percent * support
        valence == Valence[c.signature[1]]
    IN  IF best >= support THEN "rejected_duplicate"
        ELSE IF ~ Complete(c.signature[2]) THEN "rejected_incomplete_core"
        ELSE IF ~ AtLeast(35) THEN "rejected_unstable"
        ELSE IF support < 2 /\ ~ AtLeast(90) THEN "needs_more_support"
        ELSE IF support >= 2 /\ (\/ AtLeast(55) /\ valence > 15
                                 \/ AtLeast(50) /\ valence < -15) THEN "approved_for_expsm"
        ELSE "needs_more_support"

\* Mutant: the reviewed support must be exceeded to skip, not reached.
ReviewOne_Again(state, c) ==
    LET sig == c.signature
        status == Classify(c, state.approved[sig])
    IN  IF state.reviewed[sig] > c.support THEN state
        ELSE [reviewed |-> [state.reviewed EXCEPT ![sig] = c.support],
              approved |-> IF status = "approved_for_expsm"
                           THEN [state.approved EXCEPT ![sig] = c.support] ELSE state.approved,
              reviews |-> Append(state.reviews,
                            [signature |-> sig, status |-> status, support |-> c.support,
                             evidence |-> c.evidence])]

\* One pass of the loop of MemoryWriteReviewModule.run.
ReviewOne(state, c) ==
    LET sig == c.signature
        status == Classify(c, state.approved[sig])
    IN  IF state.reviewed[sig] >= c.support THEN state
        ELSE [reviewed |-> [state.reviewed EXCEPT ![sig] = c.support],
              approved |-> IF status = "approved_for_expsm"
                           THEN [state.approved EXCEPT ![sig] = c.support] ELSE state.approved,
              reviews |-> Append(state.reviews,
                            [signature |-> sig, status |-> status, support |-> c.support,
                             evidence |-> c.evidence])]

ReviewAll(state, announcements) == FoldLeft(ReviewOne, state, announcements)

\* MemoryWriteReviewModule.run, over the window oldest first.
Review ==
    /\ pc = "review"
    /\ LET state == ReviewAll([reviewed |-> reviewed, approved |-> approved, reviews |-> reviews],
                              Slice(ready, ReadyWindow))
       IN  /\ reviewed' = state.reviewed
           /\ approved' = state.approved
           /\ reviews' = state.reviews
    /\ pc' = "work"
    /\ UNCHANGED <<mode, processing, evaluator, builder, buffer>>

---------------------------------------------------------------------------
Next == Work \/ SwitchMode \/ Evaluate \/ Build \/ Buffer \/ Review

Spec == Init /\ [][Next]_vars
---------------------------------------------------------------------------
Numbers == 0 .. MaxSources

\* The support of a group is the number of different events behind it, and
\* those are all the learnable events of its signature that the builder has
\* taken up: none is counted twice by a second look at the window
\* (_evaluated_source_event_ids, _handled_outcome_ids, _processed_candidate_ids)
\* and none is lost between the builder and the buffer.
SupportIsEvidence ==
    pc /= "buffer" =>
        \A sig \in Signatures :
            /\ groups[sig].support = Cardinality(groups[sig].evidence)
            /\ groups[sig].evidence =
                  {outcomes[i].source : i \in
                      {j \in handled : /\ Learnable(sources[outcomes[j].source].kind)
                                       /\ SignatureOf(outcomes[j]) = sig}}

\* A conclusive outcome the builder never took up came in a run of the
\* evaluator that made more outcomes than the builder's window shows: the
\* backlog of a consolidation is the only way to lose experience.
LostOnlyInBursts ==
    pc = "buffer" =>
        \A i \in 1 .. Len(outcomes) :
            outcomes[i].status \in Statuses /\ i \notin handled
                => outcomes[i].batch > OutcomeWindow

\* What is approved for ExpSM rests on at least two events that came out the
\* same way, not partially, and names a decision with its effect or a
\* prediction; what is approved as confirmed was borne out, every time, by
\* more than the tone and, if it was predicted, than having been predicted.
ApprovalsAreEarned ==
    \A i \in 1 .. Len(reviews) :
        LET r == reviews[i]
        IN  r.status = "approved_for_expsm" =>
                /\ Cardinality(r.evidence) >= 2 /\ r.signature[1] \in {"confirmed", "failed"}
                /\ Complete(r.signature[2])
                /\ \E k \in 1 .. Len(ready) : ready[k].evidence = r.evidence
                /\ r.signature[1] = "confirmed" =>
                      \A j \in 1 .. Len(outcomes) : outcomes[j].source \in r.evidence => outcomes[j].borne

\* A review says something new: among the reviews of one group the support
\* grows strictly, so the duplicate _classify looks for is never met.
ReviewsSaySomethingNew ==
    \A j \in 1 .. Len(reviews) :
        /\ reviews[j].status /= "rejected_duplicate"
        /\ \A i \in 1 .. j - 1 :
              reviews[i].signature = reviews[j].signature
                  => reviews[i].support < reviews[j].support

\* A tick of consolidation leaves no group of the recent announcements
\* behind: a group that is ready is reviewed with all the support it has, one
\* that no longer is with what was last said of it.
ReviewCatchesUp ==
    pc = "review" =>
        \A k \in Recent(ready, ReadyWindow) :
            LET sig == ready[k].signature
            IN  reviewed'[sig] = IF Ready(sig, groups[sig])
                                 THEN groups[sig].support ELSE groups[sig].emitted

\* The two together, over every step: no review of a tick of consolidation
\* leaves a group behind, and none repeats an earlier one.
ReviewsCatchUp == [][ReviewCatchesUp /\ ReviewsSaySomethingNew']_vars
=============================================================================
