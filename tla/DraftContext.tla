---------------------------- MODULE DraftContext ----------------------------
(***************************************************************************)
(* The IF patterns of a draft.  MemoryDraftWriter is given a review of a   *)
(* causal chain and looks in the context memory for the situation the      *)
(* chain was seen in.  The review, its consolidation candidate and the     *)
(* experience candidates behind it only hold references; events, frames    *)
(* and candidates are forgotten meanwhile, while the active field and the  *)
(* tone move on and are asked when references lead nowhere.  Each pattern  *)
(* found is scored by how near it is to the chain, and reviews of a chain  *)
(* met again are merged into its draft.  Scores are in hundredths.         *)
(***************************************************************************)
EXTENDS PatternSemantics, FiniteSetsExt, SequencesExt

CONSTANTS
    Names,          \* patterns in the order of their ids
    Core,           \* chain -> [decided, predicted, confirmed, valence, priority]
    Happenings,     \* the situations a chain may be experienced in
    Moments,        \* [field, tone]: the patterns active and those of the tone, in order
    Legacy,         \* contents of the store this program did not write
    None,
    Confidences,    \* of the reviews, in hundredths
    MaxIf, MaxActive, MaxLabels, MaxFinal, MinScore,
    MaxExperiences, MaxReviews, MaxForgotten

ContextAssumption ==
    /\ MaxIf \in Nat /\ MaxActive \in Nat /\ MaxLabels \in Nat
    /\ MaxFinal \in Nat \ {0} /\ MinScore \in 1..100

VARIABLES
    log,            \* LABEL and PREDICTION events, [id, marker, patterns]
    frames,         \* [id, patterns]
    experiences,    \* experience candidates still in memory
    candidates,     \* consolidation candidates still in memory
    reviews,        \* approved reviews
    now,            \* the moment, one of Moments
    drafts,
    done,           \* _written_review_ids
    reported,       \* _reported_invalid_review_ids
    born,           \* experiences so far, which number events and frames too
    judged,         \* DraftCommitGate._reviewed_states
    scores          \* <<chain, pattern, score, own>> of the reviews written

memory == <<log, frames, experiences, candidates>>
ghosts == <<born, scores>>
vars == <<memory, reviews, now, drafts, done, reported, judged, ghosts>>

Chains == DOMAIN Core

Init ==
    /\ log = << >> /\ frames = << >> /\ experiences = << >> /\ candidates = << >>
    /\ reviews = << >> /\ now \in Moments
    /\ drafts \in Legacy
    /\ done = {} /\ reported = {} /\ judged = {}
    /\ born = 0 /\ scores = {}

-----------------------------------------------------------------------------
InOrder(patterns) == SelectSeq(Names, LAMBDA n : n \in patterns)

Firsts(s, n) == SubSeq(s, 1, IF Len(s) < n THEN Len(s) ELSE n)

Unique(s) ==
    LET indices == {i \in DOMAIN s : \A j \in 1..(i - 1) : s[j] # s[i]}
    IN  FoldLeft(LAMBDA seen, i : IF i \in indices THEN Append(seen, s[i]) ELSE seen,
                 << >>, [i \in DOMAIN s |-> i])

Joined(s) == FoldLeft(LAMBDA joined, one : joined \o one, << >>, s)

Known(s, ids) == {i \in ids : \E k \in DOMAIN s : s[k].id = i}

Payload(s, id) == s[CHOOSE k \in DOMAIN s : s[k].id = id]

-----------------------------------------------------------------------------
(* A chain is experienced: its labels and predictions are among the events *)
(* and its frame in the sensory buffer, and the candidate refers to them.  *)
Experience(h) ==
    /\ born < MaxExperiences
    /\ born' = born + 1
    /\ log' = log \o <<[id |-> 2 * born, marker |-> "label", patterns |-> h.labels],
                       [id |-> 2 * born + 1, marker |-> "prediction", patterns |-> h.predictions]>>
    /\ frames' = Append(frames, [id |-> born, patterns |-> h.frame])
    /\ experiences' = Append(experiences,
            [id |-> born, chain |-> h.chain, labels |-> <<2 * born>>,
             predictions |-> <<2 * born + 1>>, frames |-> <<born>>, active |-> h.active])
    /\ UNCHANGED <<candidates, reviews, now, drafts, done, reported, judged, scores>>

(* ExperienceCandidateBuffer has gathered what was seen of a chain, in its *)
(* groups that nothing is forgotten from; the review copies the chain and  *)
(* names the candidate.                                                    *)
Review(chain) ==
    LET members == SelectSeq(experiences, LAMBDA e : e.chain = chain)
        All(key) == Joined([i \in DOMAIN members |-> members[i][key]])
        id == Len(reviews) + 1
    IN  /\ members # << >> /\ Len(reviews) < MaxReviews
        /\ candidates' = Append(candidates,
                [id |-> id, members |-> [i \in DOMAIN members |-> members[i].id],
                 labels |-> All("labels"), frames |-> All("frames"),
                 active |-> InOrder(ToSet(All("active")))])
        /\ reviews' = Append(reviews,
                [id |-> id, chain |-> chain, source |-> id, support |-> Len(members),
                 confidence |-> Confidences[id]])
        /\ UNCHANGED <<log, frames, experiences, now, drafts, done, reported, judged, ghosts>>

Forgotten == 4 * born + Len(reviews) - Len(log) - Len(frames) - Len(experiences) - Len(candidates)

(* Retention keeps the newest of each list.                                *)
Forget ==
    /\ Forgotten < MaxForgotten
    /\ \/ log # << >> /\ log' = Tail(log) /\ UNCHANGED <<frames, experiences, candidates>>
       \/ frames # << >> /\ frames' = Tail(frames) /\ UNCHANGED <<log, experiences, candidates>>
       \/ experiences # << >> /\ experiences' = Tail(experiences)
            /\ UNCHANGED <<log, frames, candidates>>
       \/ candidates # << >> /\ candidates' = Tail(candidates)
            /\ UNCHANGED <<log, frames, experiences>>
    /\ UNCHANGED <<reviews, now, drafts, done, reported, judged, ghosts>>

MoveOn ==
    /\ now' \in Moments \ {now}
    /\ UNCHANGED <<memory, reviews, drafts, done, reported, judged, ghosts>>

-----------------------------------------------------------------------------
(* _SourceIndex: the candidate of the review, if it is still known, and    *)
(* those of its experiences that are.                                      *)
Source(review) ==
    IF Known(candidates, {review.source}) = {} THEN << >>
    ELSE <<Payload(candidates, review.source)>>

Behind(review) ==
    IF Source(review) = << >> THEN << >>
    ELSE LET known == SelectSeq(Source(review)[1].members, LAMBDA i : Known(experiences, {i}) # {})
         IN  [k \in DOMAIN known |-> Payload(experiences, known[k])]

Containers(review) == Source(review) \o Behind(review)

Context(containers, key) ==
    Joined([k \in DOMAIN containers |->
        IF key \in DOMAIN containers[k] THEN containers[k][key] ELSE << >>])

Events(ids, markers) ==
    LET known == SelectSeq(Unique(ids), LAMBDA i :
                    Known(log, {i}) # {} /\ Payload(log, i).marker \in markers)
    IN  [k \in DOMAIN known |-> Payload(log, known[k]).patterns]

Framed(ids) ==
    LET known == SelectSeq(Unique(ids), LAMBDA i : Known(frames, {i}) # {})
    IN  [k \in DOMAIN known |-> Payload(frames, known[k]).patterns]

-----------------------------------------------------------------------------
(* DraftInputContextEnricher.                                              *)
Material(patterns) == SelectSeq(patterns, IsDraftContextMaterial)

\* What comes after enough of it was found, repetitions counted, is not looked at.
LabelPatterns(containers) ==
    LET events == Events(Context(containers, "labels"), {"label", "prediction"})
        Found(k) == Material(Joined(SubSeq(events, 1, k)))
        enough == {k \in DOMAIN events : Len(Found(k)) >= MaxLabels}
    IN  Firsts(Unique(Found(Min(enough \cup {Len(events)}))), MaxLabels)

PredictionPatterns(review, containers) ==
    Unique(Material(Core[review.chain].predicted
             \o Joined(Events(Context(containers, "predictions"), {"label", "prediction"}))))

FramePatterns(containers) == Unique(Material(Joined(Framed(Context(containers, "frames")))))

ActivePatterns(containers) ==
    LET said == Context(containers, "active")
    IN  Firsts(Unique(Material(IF said = << >> THEN Firsts(now.field, MaxActive) ELSE said)), MaxActive)

(* build_if_patterns: labels, predictions, frames and the active patterns, *)
(* and the tone where there is room.                                       *)
BuildIfPatterns(review, containers) ==
    Firsts(Unique(Firsts(Unique(LabelPatterns(containers) \o PredictionPatterns(review, containers)
                          \o FramePatterns(containers) \o ActivePatterns(containers)), MaxIf)
                    \o now.tone), MaxIf)

-----------------------------------------------------------------------------
(* DraftContextRelevanceScorer.  _Evidence: what the chain's own records   *)
(* and what they refer to still show.                                      *)
Evidence(review, containers) ==
    [label |-> ToSet(Joined(Events(Context(containers, "labels"), {"label"}))),
     prediction |-> ToSet(Core[review.chain].predicted
                \o Joined(Events(Context(containers, "predictions"), {"prediction"}))),
     near |-> ToSet(Context(containers, "active")),
     trace |-> ToSet(Context(containers, "active") \o Joined(Framed(Context(containers, "frames"))))]

Owned(evidence) == evidence.label \cup evidence.prediction \cup evidence.near \cup evidence.trace

Weight(condition, amount) == IF condition THEN amount ELSE 0

\* Mutant: a pattern that is only active now is not held against itself.
Score_NoPenalty(n, review, evidence) ==
    LET families == DraftCoreFamilies(Core[review.chain].decided)
        family == DraftFamilies(n) \cap families # {}
        sum == Weight(n \in evidence.label, 35) + Weight(n \in evidence.prediction, 35)
                + Weight(n \in evidence.trace, 25) + Weight(n \in evidence.near, 20)
                + Weight(family, 30) - Weight(~family, 20)
                + Weight(n \in evidence.prediction /\ Core[review.chain].confirmed, 25)
    IN  Max({0, Min({100, sum})})

(* score_if_patterns, for one pattern.                                     *)
Score(n, review, evidence) ==
    LET families == DraftCoreFamilies(Core[review.chain].decided)
        family == DraftFamilies(n) \cap families # {}
        sum == Weight(n \in evidence.label, 35) + Weight(n \in evidence.prediction, 35)
                + Weight(n \in evidence.trace, 25) + Weight(n \in evidence.near, 20)
                + Weight(family, 30) - Weight(~family, 20)
                + Weight(n \in evidence.prediction /\ Core[review.chain].confirmed, 25)
                - Weight(n \in ToSet(now.field) /\ n \notin Owned(evidence), 15)
                - Weight(DifferentModalityWithoutLink(n, families), 10)
                - Weight(CompetingDraftFamily(n, families), 20)
                - Weight("generic_draft_context" \in Tags(n), 5)
    IN  Max({0, Min({100, sum})})

\* Best first, and among equals the one that came first.
Ranked(scored) ==
    LET levels == {scored[i].score : i \in DOMAIN scored}
    IN  Joined([k \in 1..Cardinality(levels) |->
            SelectSeq(scored, LAMBDA s : Cardinality({l \in levels : l > s.score}) = k - 1)])

ScoreIfPatterns(patterns, review, evidence) ==
    Ranked([k \in DOMAIN patterns |->
        LET noise == IsDraftTechnicalNoise(patterns[k])
        IN  [pattern |-> patterns[k], rejected |-> noise, seen |-> 1,
             score |-> IF noise THEN 0 ELSE Score(patterns[k], review, evidence)]])

(* _final_if_patterns, and the same cut in _draft_from_review.             *)
FinalIfPatterns(scored) ==
    LET kept == SelectSeq(scored, LAMBDA s : ~s.rejected /\ s.score >= MinScore)
    IN  [k \in DOMAIN Firsts(kept, MaxFinal) |-> kept[k].pattern]

-----------------------------------------------------------------------------
(* _draft_from_review, with the patterns already found and scored.         *)
DraftFrom(review, scored) ==
    [id |-> review.id, chain |-> review.chain, status |-> "draft_pending_commit", seen |-> 1, reviews |-> {review.id},
     scored |-> scored, patterns |-> FinalIfPatterns(scored),
     counts |-> [found |-> Len(scored), final |-> Len(FinalIfPatterns(scored)),
                 out |-> Len(scored) - Len(FinalIfPatterns(scored))],
     metrics |-> [support |-> review.support, avg |-> review.confidence, low |-> None, high |-> None]]

(* _validate_draft_record: every chain here has its decision and effect.   *)
Invalid(draft) ==
    IF draft.patterns # << >> THEN None
    ELSE IF draft.scored # << >> THEN "no_relevant_if_patterns" ELSE "no_valid_input_context"

\* Mutant: what was found last replaces what had been found.
MergeScored_Latest(old, new) == new

(* _merge_scored_if_patterns: the best score a pattern ever had.           *)
MergeScored(old, new) ==
    LET both == old \o new
        Of(n) == {i \in DOMAIN both : both[i].pattern = n}
        found == Unique([i \in DOMAIN both |-> both[i].pattern])
    IN  Ranked([k \in DOMAIN found |->
            [pattern |-> found[k],
             score |-> Max({both[i].score : i \in Of(found[k])}),
             seen |-> MapThenSumSet(LAMBDA i : both[i].seen, Of(found[k])),
             rejected |-> \E i \in Of(found[k]) : both[i].rejected]])

\* Mutant: the range is that of the reviews merged, without the first.
MergeMetrics_NewOnly(old, new, seen) ==
    LET values == {old.low, old.high, new.avg} \ {None}
    IN  [support |-> Max({old.support, new.support, seen + 1}),
         avg |-> (old.avg * seen + new.avg) \div (seen + 1),
         low |-> Min(values), high |-> Max(values)]

(* _merge_metrics.                                                         *)
MergeMetrics(old, new, seen) ==
    LET values == {old.low, old.high, old.avg, new.avg} \ {None}
    IN  [support |-> Max({old.support, new.support, seen + 1}),
         avg |-> (old.avg * seen + new.avg) \div (seen + 1),
         low |-> Min(values), high |-> Max(values)]

(* _merge_context_enrichment.                                              *)
MergeCounts(old, new, final) ==
    [found |-> Max({old.found, new.found}), final |-> final, out |-> old.out + new.out]

FinalStatuses == {"draft_committed", "draft_rejected", "draft_archived"}

(* _merge_draft.                                                           *)
MergeDraft(old, new) ==
    LET scored == MergeScored(old.scored, new.scored)
        patterns == IF scored # << >> THEN FinalIfPatterns(scored)
                    ELSE Firsts(Unique(old.patterns \o new.patterns), MaxFinal)
    IN  [old EXCEPT
            !.status = IF @ \in FinalStatuses THEN @ ELSE "draft_pending_commit",
            !.reviews = @ \cup new.reviews, !.seen = Max({1, @}) + 1,
            !.scored = scored, !.patterns = patterns,
            !.counts = MergeCounts(@, new.counts, Len(patterns)),
            !.metrics = MergeMetrics(@, new.metrics, Max({1, old.seen}))]

(* _upgrade_draft_record: cards of an older version were not counted.      *)
Upgraded(draft) ==
    IF draft.seen = None THEN [draft EXCEPT !.seen = Max({1, Cardinality(draft.reviews)})] ELSE draft

(* _coalesce_duplicate_drafts: later cards go into the first of a chain.   *)
Coalesced(store) ==
    FoldLeft(LAMBDA kept, draft :
                LET same == {k \in DOMAIN kept : kept[k].chain = draft.chain}
                IN  IF same = {} THEN Append(kept, draft)
                    ELSE [kept EXCEPT ![Min(same)] = MergeDraft(@, draft)],
             << >>, store)

(* MemoryDraftWriter.run, for one review.  A review whose draft is not     *)
(* valid is not done: it is tried again, and reported once for a reason.   *)
(* A card the gate has given up takes nothing more.                        *)
Write(review) ==
    /\ review.id \notin done
    /\ \E containers \in {Containers(review)} :
       \E evidence \in {Evidence(review, containers)} :
       \E scored \in {ScoreIfPatterns(BuildIfPatterns(review, containers), review, evidence)} :
       \E draft \in {DraftFrom(review, scored)} :
       \E store \in {Coalesced([k \in DOMAIN drafts |-> Upgraded(drafts[k])])} :
       LET same == {k \in DOMAIN store : store[k].chain = review.chain}
       IN  IF Invalid(draft) # None
           THEN /\ <<review.id, Invalid(draft)>> \notin reported
                /\ reported' = reported \cup {<<review.id, Invalid(draft)>>}
                /\ UNCHANGED <<drafts, done, scores>>
           ELSE /\ done' = done \cup {review.id}
                /\ IF same # {} /\ store[Min(same)].status \in FinalStatuses
                   THEN UNCHANGED <<drafts, scores>>
                   ELSE /\ drafts' = IF same = {} THEN Append(store, draft)
                                     ELSE [store EXCEPT ![Min(same)] = MergeDraft(@, draft)]
                        /\ scores' = scores \cup
                                {<<review.chain, scored[k].pattern, scored[k].score,
                                   scored[k].pattern \in Owned(evidence)>> : k \in DOMAIN scored}
                /\ UNCHANGED reported
    /\ UNCHANGED <<memory, reviews, now, judged, born>>

-----------------------------------------------------------------------------
(* DraftCommitGate: of cards for one chain all but the best are archived;  *)
(* technical patterns reject a card, and the rest is a matter of quality.  *)
Seen(draft) == IF draft.seen = None THEN 1 ELSE draft.seen

Better(a, b) ==
    \/ Seen(a) > Seen(b)
    \/ Seen(a) = Seen(b) /\ a.metrics.avg > b.metrics.avg

DuplicateDraft(k) ==
    \E j \in DOMAIN drafts :
        /\ j # k /\ drafts[j].chain = drafts[k].chain
        /\ Better(drafts[j], drafts[k]) \/ (j < k /\ ~Better(drafts[k], drafts[j]))

HasTechnicalIfPatterns(draft) ==
    \E k \in DOMAIN draft.patterns : IsMemoryWriteTechnicalPattern(draft.patterns[k])

HasRelevantIfScores(draft) ==
    \E k \in DOMAIN draft.scored : ~draft.scored[k].rejected /\ draft.scored[k].score >= MinScore

(* _quality_decision.                                                      *)
QualityDecision(draft) ==
    LET core == Core[draft.chain]
        avg == draft.metrics.avg
        strength == IF core.valence < 0 THEN -core.valence ELSE core.valence
    IN  IF avg < 35 \/ (strength < 3 /\ core.priority < 25) THEN "draft_rejected"
        ELSE IF \/ avg >= 90 /\ draft.metrics.support >= 1
                \/ core.valence <= -15 /\ avg >= 50 /\ Seen(draft) >= 2
                \/ Seen(draft) >= 2 /\ draft.metrics.support >= 2 /\ avg >= 55 /\ strength >= 8
        THEN "draft_ready_to_commit" ELSE "draft_wait_more_evidence"

ReviewDraft(k) ==
    IF DuplicateDraft(k) THEN "draft_archived"
    ELSE IF \/ drafts[k].patterns = << >> \/ drafts[k].scored = << >>
            \/ HasTechnicalIfPatterns(drafts[k]) \/ ~HasRelevantIfScores(drafts[k])
    THEN "draft_rejected" ELSE QualityDecision(drafts[k])

Gate ==
    LET Key(k) == <<drafts[k].id, Seen(drafts[k]), drafts[k].status>>
        due == {k \in DOMAIN drafts : drafts[k].status \notin FinalStatuses /\ Key(k) \notin judged}
    IN  /\ due # {}
        /\ judged' = judged \cup {Key(k) : k \in due}
        /\ drafts' = [k \in DOMAIN drafts |->
                IF k \in due THEN [drafts[k] EXCEPT !.status = ReviewDraft(k)] ELSE drafts[k]]
        /\ UNCHANGED <<memory, reviews, now, done, reported, ghosts>>

Next ==
    \/ \E h \in Happenings : Experience(h)
    \/ \E c \in Chains : Review(c)
    \/ Forget \/ MoveOn
    \/ \E i \in DOMAIN reviews : Write(reviews[i])
    \/ Gate

Spec == Init /\ [][Next]_vars
-----------------------------------------------------------------------------
(***************************************************************************)
(* Properties                                                              *)
(***************************************************************************)
Ours(draft) == draft.reviews \subseteq {reviews[i].id : i \in DOMAIN reviews}

\* A pattern is in a card because a review of its chain found it among what the
\* chain itself refers to, however little is remembered of that: being active
\* while the card is written is not enough.  Only a tone of the chain's family
\* needs no reference.
ContextIsOwn ==
    \A k \in DOMAIN drafts : Ours(drafts[k]) =>
        \A i \in DOMAIN drafts[k].patterns :
            LET n == drafts[k].patterns[i]
            IN  \/ \E s \in scores : s[1] = drafts[k].chain /\ s[2] = n /\ s[3] >= MinScore /\ s[4]
                \/ Class(n) = "tone" /\ DraftFamilies(n) \cap DraftCoreFamilies(Core[drafts[k].chain].decided) # {}

\* The patterns of a card are the best that any of its reviews found: merging
\* neither forgets one nor lets a worse one take its place.
BestAreKept ==
    \A k \in DOMAIN drafts : Ours(drafts[k]) =>
        LET found == {s \in scores : s[1] = drafts[k].chain}
            Best(n) == Max({s[3] : s \in {f \in found : f[2] = n}})
            good == {n \in {s[2] : s \in found} : Best(n) >= MinScore}
            kept == ToSet(drafts[k].patterns)
        IN  /\ kept \subseteq good
            /\ Len(drafts[k].patterns) = Min({MaxFinal, Cardinality(good)})
            /\ \A n \in kept, other \in good \ kept : Best(n) >= Best(other)

\* A review counts once, in the card of its chain, and one that was written but
\* does not count came when the card had been given up; averages stay between
\* what was averaged, and a card is ready after two reviews or a very sure one.
ReviewsCountOnce ==
    /\ \A i \in DOMAIN reviews : reviews[i].id \in done =>
         \E k \in DOMAIN drafts :
            /\ drafts[k].chain = reviews[i].chain
            /\ reviews[i].id \in drafts[k].reviews \/ drafts[k].status \in FinalStatuses
    /\ \A k \in DOMAIN drafts : Ours(drafts[k]) =>
         LET d == drafts[k]
         IN  /\ d.seen = Cardinality(d.reviews) /\ d.reviews \subseteq done
             /\ \A i \in DOMAIN d.scored : d.scored[i].seen <= d.seen
             /\ d.metrics.low # None => d.metrics.low <= d.metrics.avg /\ d.metrics.avg <= d.metrics.high
             /\ d.status = "draft_ready_to_commit" => d.metrics.avg >= 90 \/ Cardinality(d.reviews) >= 2
=============================================================================
