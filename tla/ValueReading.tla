---------------------------- MODULE ValueReading ----------------------------
(***************************************************************************)
(* What TargetSatisfactionObserver reads from the evidence about one        *)
(* decision, what ValueFeedbackCandidateBuilder makes of the reading, what   *)
(* ValueFeedbackReviewGate decides about that, and on which side the writer  *)
(* would count it.  In thousandths.                                        *)
(*                                                                         *)
(* Evidence is what the windows of memory show about a decision: effects    *)
(* (own: of this decision; mentions: the target is among their patterns),   *)
(* outcomes (own, of: the position of the effect they judge or 0, kind,     *)
(* after: so many ticks later, status, mentions), signals (about: the       *)
(* target, of: the position of the outcome they evaluate or 0, after,       *)
(* shows), the entry of the evaluation field, whether the target is active,  *)
(* whether it is one to avoid, and the score of the mechanism.  An entry    *)
(* and what a signal shows are functions from some dimensions to amounts.   *)
(***************************************************************************)
EXTENDS Integers, Sequences, SequencesExt

Signed(x) == IF x < -1000 THEN -1000 ELSE IF x > 1000 THEN 1000 ELSE x
Unit(x) == IF x < 0 THEN 0 ELSE IF x > 1000 THEN 1000 ELSE x
Upto(max, x) == IF x > max THEN max ELSE x
Magnitude(x) == IF x < 0 THEN -x ELSE x
If(condition, x) == IF condition THEN x ELSE 0
Total(list) == FoldLeft(LAMBDA x, y : x + y, 0, list)

Amounts == 0 .. 1000
OutcomeStatuses == {"confirmed", "partially_confirmed", "failed", "inconclusive"}

\* What the windows of memory can show.
WellFormed(e) ==
    /\ e.mechanism \in Amounts /\ {e.active, e.avoid} \subseteq BOOLEAN
    /\ e.entry \in [DOMAIN e.entry -> Amounts]
    /\ e.outcomes \in Seq([own : BOOLEAN, of : Nat, kind : {"decision", "effect", "prediction"},
                           after : Int, status : OutcomeStatuses, mentions : BOOLEAN])
    /\ \A i \in DOMAIN e.signals : e.signals[i].shows \in [DOMAIN e.signals[i].shows -> Amounts]

(***************************************************************************)
(* Which evidence there is.                                                *)
(***************************************************************************)
LinkedEffects(e) == {i \in DOMAIN e.effects : e.effects[i].own}

\* An outcome is linked by its decision or its effect, or just by being of some
\* decision or effect soon after.
LinkedOutcomes(e) ==
    {i \in DOMAIN e.outcomes :
        LET o == e.outcomes[i]
        IN  /\ o.after >= 0
            /\ \/ o.own \/ o.of \in LinkedEffects(e)
               \/ o.after <= 3 /\ o.kind \in {"decision", "effect"}}

LinkedSignals(e) ==
    {i \in DOMAIN e.signals : /\ e.signals[i].after >= 0
                              /\ e.signals[i].about \/ e.signals[i].of \in LinkedOutcomes(e)}

Mentioned(e) ==
    \/ \E i \in LinkedEffects(e) : e.effects[i].mentions
    \/ \E i \in LinkedOutcomes(e) : e.outcomes[i].mentions
    \/ \E i \in LinkedSignals(e) : e.signals[i].about

\* The strongest a dimension is shown by the field or a signal.
Dimension(e, d) ==
    LET of(shows) == IF d \in DOMAIN shows THEN shows[d] ELSE 0
        shown == {of(e.entry)} \cup {of(e.signals[i].shows) : i \in LinkedSignals(e)}
    IN  CHOOSE x \in shown : \A y \in shown : y <= x

(***************************************************************************)
(* The reading.                                                            *)
(***************************************************************************)
PositiveSignal(e) ==
    (300 * Dimension(e, "usefulness") + 200 * Dimension(e, "need") + 150 * Dimension(e, "want")
       + 250 * Dimension(e, "safety") + 100 * Dimension(e, "priority")) \div 1000
NegativeSignal(e) ==
    (450 * Dimension(e, "harmfulness") + 350 * Dimension(e, "avoid")) \div 1000

OutcomeScore == [confirmed |-> 200, partially_confirmed |-> 100, failed |-> -250,
                 inconclusive |-> 0]
OutcomeStrength == [confirmed |-> 150, partially_confirmed |-> 100, failed |-> 150,
                    inconclusive |-> 0]

\* For a target to avoid what was harmed or confirmed is all that counts.
Scored(e) ==
    LET good == PositiveSignal(e)
        bad == NegativeSignal(e)
        linked == LinkedOutcomes(e)
        Sum(table) ==
            Total([i \in DOMAIN e.outcomes |-> If(i \in linked, table[e.outcomes[i].status])])
        wanted == If(Mentioned(e), 450) + Upto(450, good) - Upto(450, bad) + Sum(OutcomeScore)
        avoided == good - bad + If(\E i \in linked : e.outcomes[i].status = "confirmed", 250)
        strength == If(Mentioned(e), 350) + Upto(350, good) + Upto(350, bad)
                      + Sum(OutcomeStrength) + If(e.active, 80) + If(LinkedEffects(e) # {}, 80)
    IN  [score |-> Signed((IF e.avoid THEN avoided ELSE wanted) + If(e.active, 80)),
         strength |-> Unit(strength)]

Status(score, strength) ==
    IF strength < 200 THEN "inconclusive"
    ELSE IF score >= 550 THEN "satisfied"
    ELSE IF score >= 200 THEN "partially_satisfied"
    ELSE IF score <= -350 THEN "worsened"
    ELSE "not_satisfied"

\* No evidence, no reading.
Reads(e) == Scored(e).strength > 0
Reading(e) ==
    LET s == Scored(e)
    IN  [status |-> Status(s.score, s.strength), score |-> s.score, strength |-> s.strength,
         mechanism |-> e.mechanism]

(***************************************************************************)
(* The candidate.                                                          *)
(***************************************************************************)
Harmed(r) ==
    \/ r.status = "worsened"
    \/ r.status = "not_satisfied" /\ r.strength >= 600 /\ r.score <= -350

CandidateType(r) ==
    IF r.status \in {"satisfied", "partially_satisfied"} THEN "positive"
    ELSE IF Harmed(r) THEN "negative"
    ELSE IF r.status = "not_satisfied" THEN "mixed"
    ELSE "inconclusive"

Direction(r) ==
    IF Harmed(r) THEN "negative"
    ELSE IF r.status = "not_satisfied" THEN "mixed"
    ELSE IF r.score > 200 THEN "positive"
    ELSE IF r.score < -200 THEN "negative"
    ELSE "mixed"

CandidateStrength(r) ==
    Unit((600 * Magnitude(r.score) + 250 * r.strength + 150 * r.mechanism) \div 1000)

\* An observation with little evidence is passed over.
Enough(r) == r.strength >= 250

(***************************************************************************)
(* The review, and the counter of the record.                               *)
(***************************************************************************)
AtLeast(r, strength, evidence) ==
    CandidateStrength(r) >= strength /\ r.strength >= evidence

\* Mutant: the review takes what it should wait for.
ReviewDecision_Hasty(r) ==
    IF AtLeast(r, 350, 250) THEN "ready" ELSE "reject"

ReviewDecision(r) ==
    LET type == CandidateType(r)
    IN  IF /\ type # "inconclusive"
           /\ AtLeast(r, 700, 600)
           /\ type = "negative" => AtLeast(r, 750, 700)
        THEN "ready"
        ELSE IF AtLeast(r, 350, 250) THEN "wait" ELSE "reject"

Bucket(r) ==
    IF "positive" \in {Direction(r), CandidateType(r)} THEN "positive"
    ELSE IF "negative" \in {Direction(r), CandidateType(r)} THEN "negative"
    ELSE IF CandidateType(r) = "inconclusive" THEN "inconclusive"
    ELSE "mixed"
=============================================================================
