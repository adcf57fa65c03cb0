-------------------------- MODULE ExperienceRecall --------------------------
(***************************************************************************)
(* How ExpSM records are found again: ExpSMActivationModule for what is     *)
(* active now, ExpSMMechanismSearch for a target, with the value feedback   *)
(* of ValueFeedbackMemoryView, and the two observers of records that        *)
(* compete and that are alike.                                             *)
(*                                                                         *)
(* A record is a record with id, status, the patterns it stands on (if,     *)
(* then, result, recommendation: sequences), confidence, repeatability,     *)
(* hits, misses, whether its actions are named as mitigating ones, and its  *)
(* value feedback.  Scores are in thousandths and rounded down.            *)
(***************************************************************************)
EXTENDS Integers, Sequences, FiniteSets, SequencesExt, ActiveField

Higher(a, b) == IF a > b THEN a ELSE b
Abs(x) == IF x < 0 THEN -x ELSE x
Gone == {"archived", "deleted", "tombstone"}
Jaccard(a, b) ==
    IF a \cup b = {} THEN 0 ELSE (1000 * Cardinality(a \cap b)) \div Cardinality(a \cup b)
Viability(r) == (1000 * (r.hits + 1)) \div (r.hits + r.misses + 2)
Effective(r) == Lower(r.confidence, 750)

(***************************************************************************)
(* ExpSMActivationModule                                                   *)
(***************************************************************************)
Coverage(r, active) ==
    (1000 * Cardinality(ToSet(r.if) \cap active)) \div Cardinality(ToSet(r.if))
Recalled(coverage, r) ==
    Clamped((550 * coverage + 200 * Effective(r) + 150 * r.repeatability
               + 100 * Viability(r)) \div 1000)

\* _match_record: one pattern of the condition must be active.
Matches(r, active) ==
    /\ r.status \notin Gone
    /\ ToSet(r.if) \cap active # {}
    /\ Recalled(Coverage(r, active), r) >= 350

Activations(records, active) ==
    LET Score(r) == Recalled(Coverage(r, active), r)
        matched == SelectSeq(records, LAMBDA r : Matches(r, active))
        Op(r) == [marker |-> "expsm_activations", kind |-> "expsm_activation",
                  experience |-> r.id, amount |-> Score(r), ttl |-> 6, then |-> r.then,
                  recommended |-> r.recommendation, result |-> r.result]
        best == FirstOf(RankedBy(matched, Score), 3)
    IN  [i \in DOMAIN best |-> Op(best[i])]

(***************************************************************************)
(* ValueFeedbackMemoryView.  A record's value feedback: how many positive,  *)
(* negative, mixed and inconclusive updates, the summed strength of the     *)
(* first three, and the targets they were linked to.                       *)
(***************************************************************************)
Signed(x) == IF x < -1000 THEN -1000 ELSE IF x > 1000 THEN 1000 ELSE x
Balance(v) == Signed(v.positiveTotal - v.negativeTotal)
ValueConfidence(v) ==
    LET total == v.positive + v.negative + v.mixed + v.inconclusive
    IN  (Lower(total, 8) * (500 + Abs(Balance(v)) \div 2)) \div 8
AverageOf(total, count) == total \div Higher(count, 1)
ValueRisk(v) ==
    Clamped((650 * AverageOf(v.negativeTotal, v.negative)
               + 350 * ((1000 * Lower(v.negative, 5)) \div 5)) \div 1000)

\* What the view keeps of the links of a record, which has 32 at most.
Summarised(links) ==
    [links |-> FirstOf(links, 32), patterns |-> {links[i].p : i \in DOMAIN links}]

Neutral(v) == /\ v.positive + v.negative + v.mixed + v.inconclusive = 0
              /\ Summarised(v.links).patterns = {}
Viewed(records) == SelectSeq(records, LAMBDA r : r.status # "archived")

Relevance(link, targets, target) ==
    (IF link.p \in targets THEN 650 ELSE 0)
      + (IF link.kind = target.kind THEN 150 ELSE 0)
      + (200 * Jaccard(ToSet(link.roles), ToSet(target.roles))) \div 1000

HelpfulScore(v, relevance) ==
    Clamped((450 * relevance + 250 * Higher(Balance(v), 0) + 150 * ValueConfidence(v)
               + 150 * AverageOf(v.positiveTotal, v.positive)) \div 1000)
RiskyScore(v, relevance) ==
    Clamped((350 * relevance + 300 * ValueRisk(v) + 200 * Higher(-Balance(v), 0)
               + 150 * AverageOf(v.negativeTotal, v.negative)) \div 1000)

\* _match_record, for what helped: the best of the relevant links, or none.
HelpfulMatches(r, targets, target) ==
    {HelpfulScore(r.value, Relevance(r.value.links[i], targets, target)) :
        i \in {j \in DOMAIN r.value.links :
                 /\ Relevance(r.value.links[j], targets, target) > 0
                 /\ r.value.positive > 0 \/ r.value.links[j].direction = "positive"}}

\* ... and for what did harm; a very risky record is risky for any target.
RiskyMatches(r, targets, target) ==
    LET linked == {RiskyScore(r.value, Relevance(r.value.links[i], targets, target)) :
                     i \in {j \in DOMAIN r.value.links :
                              /\ Relevance(r.value.links[j], targets, target) > 0
                              /\ ValueRisk(r.value) > 0 \/ r.value.negative > 0}}
    IN  IF linked = {} /\ ValueRisk(r.value) >= 650
        THEN {RiskyScore(r.value, 0)} ELSE linked

Best(scores) == IF scores = {} THEN 0 ELSE CHOOSE x \in scores : \A y \in scores : y <= x

\* find_helpful_for_target / find_risky_for_target with limit 10, of which the
\* search keeps those of one record: what is crowded out counts as nothing.
AmongTen(records, MatchesOf(_), r) ==
    LET found == SelectSeq(Viewed(records), LAMBDA x : MatchesOf(x) # {})
        listed == FirstOf(RankedBy(found, LAMBDA x : Best(MatchesOf(x))), 10)
    IN  IF \E i \in DOMAIN listed : listed[i].id = r.id THEN Best(MatchesOf(r)) ELSE 0

(***************************************************************************)
(* ExpSMMechanismSearch.  A target has a pattern, a kind, roles and a score.*)
(***************************************************************************)
MaxBonus == 80
MaxPenalty == 120

\* _generic_value_adjustment
GenericBonus(v, relevance) ==
    IF ValueConfidence(v) < 100 \/ Balance(v) <= 0 THEN 0
    ELSE LET bonus == (((Balance(v) * ValueConfidence(v)) \div 1000) * relevance * MaxBonus)
                        \div 1000000
         IN  IF ValueRisk(v) >= 600 THEN (35 * bonus) \div 100 ELSE bonus
GenericPenalty(v, relevance) ==
    IF ValueConfidence(v) < 100 THEN 0
    ELSE (((Higher(Higher(-Balance(v), 0), ValueRisk(v)) * ValueConfidence(v)) \div 1000)
            * relevance * MaxPenalty) \div 1000000

TargetBonus(v, helpful) ==
    Lower(MaxBonus, (helpful * ValueConfidence(v) * MaxBonus) \div 800000)
TargetPenalty(v, risky) ==
    Lower(MaxPenalty, (((risky * Higher(ValueConfidence(v), ValueRisk(v))) \div 1000)
                          * MaxPenalty * 135) \div 100000)

\* _value_adjustment
Adjustment(r, records, targets, target) ==
    LET v == r.value
        relevance == 500 + Jaccard(Summarised(v.links).patterns, targets) \div 2
        helpful == AmongTen(records, LAMBDA x : HelpfulMatches(x, targets, target), r)
        risky == AmongTen(records, LAMBDA x : RiskyMatches(x, targets, target), r)
        penalty == Higher(GenericPenalty(v, relevance), TargetPenalty(v, risky))
        bonus == Higher(GenericBonus(v, relevance), TargetBonus(v, helpful))
        halved == IF penalty >= 60 THEN bonus \div 2 ELSE bonus
    IN  IF Neutral(v) THEN [bonus |-> 0, penalty |-> 0]
        ELSE [bonus |-> IF ValueRisk(v) >= 600 THEN (35 * halved) \div 100 ELSE halved,
              penalty |-> penalty]

MechanismScore(r, targets, active) ==
    Clamped((350 * Jaccard(ToSet(r.result), targets)
               + 200 * Jaccard(ToSet(r.recommendation), targets)
               + 150 * Jaccard(ToSet(r.then), targets)
               + 100 * Jaccard(ToSet(r.if), active)
               + 100 * Viability(r) + 50 * Effective(r) + 50 * r.repeatability) \div 1000)

\* _purpose_for
Avoids(target) == target.kind = "avoidance_target"
                    \/ ToSet(target.roles) \cap {"avoidance_target", "harmful_target"} # {}
Purpose(r, targets, target) ==
    IF Avoids(target) THEN (IF r.mitigates THEN "mitigate_harm" ELSE "avoid_target")
    ELSE IF ToSet(r.result) \cap targets # {} THEN "obtain_target"
    ELSE IF (ToSet(r.recommendation) \cup ToSet(r.then)) \cap targets # {}
         THEN "preserve_target"
    ELSE "unknown_potential"

\* _mechanisms_for_target: a value bonus may lift a record over the minimum.
MechanismsFor(target, targets, active, records) ==
    LET Whole(r) == /\ r.status \notin Gone
                    /\ r.if # <<>> /\ (r.then # <<>> \/ r.result # <<>>)
        Named(r) == targets \cap (ToSet(r.result) \cup ToSet(r.recommendation) \cup ToSet(r.then))
        Found(found, r) == Append(found,
            [experience |-> r.id, score |-> MechanismScore(r, targets, active),
             value |-> Adjustment(r, records, targets, target),
             purpose |-> Purpose(r, targets, target), matched |-> SetToSeq(Named(r)),
             associated |-> SetToSeq(Named(r) \ {target.p}), then |-> r.then])
        Weighed(found, m) == Append(found,
            m @@ [adjusted |-> Clamped(m.score + m.value.bonus - m.value.penalty)])
        Offered(m) == m.score >= 250 \/ (m.adjusted >= 250 /\ m.value.bonus > 0)
        all == FoldLeft(Weighed, <<>>, FoldLeft(Found, <<>>, SelectSeq(records, Whole)))
    IN  FirstOf(RankedBy(SelectSeq(all, Offered), LAMBDA m : m.adjusted), 5)

(***************************************************************************)
(* ExpSMCompetitionObserver and ExpSMSimilarityObserver                    *)
(***************************************************************************)
\* What a decision taken from ExpSM was chosen from, two records at least.
CompetitionOf(decision) ==
    LET rivals == decision.rivals
        Source(c) == <<c.experience, c.activation>>
        selected == SelectSeq(rivals, LAMBDA c : c.selected)
        others == SelectSeq(rivals, LAMBDA c : Source(c) # Source(selected[1]))
    IN  IF \/ Cardinality({Source(rivals[i]) : i \in DOMAIN rivals}) < 2
           \/ selected = <<>>
        THEN <<>>
        ELSE <<[marker |-> "expsm_competition_observations", kind |-> "competition_observed",
                decision |-> decision.id, amount |-> 650, ttl |-> 12,
                same |-> \A i \in DOMAIN others : others[i].action = selected[1].action]>>

Similarity(a, b) ==
    (450 * Jaccard(ToSet(a.if), ToSet(b.if)) + 300 * Jaccard(ToSet(a.then), ToSet(b.then))
       + 200 * Jaccard(ToSet(a.result), ToSet(b.result))
       + 50 * Jaccard(ToSet(a.recommendation), ToSet(b.recommendation))) \div 1000

\* _groups: the components of the graph of similar pairs, as sets of records.
AlikePairs(records) ==
    {pair \in SUBSET records :
        /\ Cardinality(pair) = 2
        /\ \A a \in pair : a.status \notin Gone /\ a.if # <<>> /\ a.then # <<>> /\ a.result # <<>>
        /\ \A a, b \in pair : a # b => Similarity(a, b) >= 450}
Joined(group, pairs) ==
    LET Grow[n \in Nat] == IF n = 0 THEN group
                           ELSE LET g == Grow[n - 1]
                                IN  g \cup UNION {p \in pairs : p \cap g # {}}
    IN  Grow[Cardinality(pairs)]
Groups(records) ==
    LET pairs == AlikePairs(records) IN {Joined(p, pairs) : p \in pairs}
GroupScore(group) ==
    Best({Similarity(a, b) : <<a, b>> \in {x \in group \X group : x[1] # x[2]}})

\* run: of the five most alike groups, those not seen before in this form.
SimilarGroups(records, seen, limit) ==
    LET ranked == FirstOf(RankedBy(SetToSeq(Groups(ToSet(records))), GroupScore), limit)
    IN  SelectSeq(ranked, LAMBDA g : {r.id : r \in g} \notin seen)
=============================================================================
