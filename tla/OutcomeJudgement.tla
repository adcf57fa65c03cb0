-------------------------- MODULE OutcomeJudgement --------------------------
(***************************************************************************)
(* What OutcomeEvaluator says of a prediction, a decision or an effect when *)
(* it is judged, once, some ticks after it happened.  In hundredths.        *)
(*                                                                         *)
(* What is seen of an event: kind, age, the tone before it and now, what it *)
(* expects of the tone (a function from some of its dimensions to amounts), *)
(* and of a prediction ttl, the patterns it predicts and, for those the     *)
(* active field shows, the events behind them (own: the prediction itself;  *)
(* after: so many ticks later; marker); of a decision the effect its action *)
(* should have or "", the effects it had, and how active that effect is; of *)
(* an effect how active it is, of each thought it asked for whether a frame *)
(* holds it and how active it is, and whether it made a memory candidate.   *)
(***************************************************************************)
EXTENDS Integers, Sequences, FiniteSets

Bounded(x) == IF x < 0 THEN 0 ELSE IF x > 100 THEN 100 ELSE x
Greater(x, y) == IF x > y THEN x ELSE y

Verdict(status, confidence) == [status |-> status, confidence |-> Bounded(confidence)]

\* Mutant: a prediction is confirmed by the activation it caused itself.
Confirming_Any(sources) == sources # << >>

\* Something else, and later, is behind the pattern.
Confirming(sources) ==
    \E i \in DOMAIN sources :
        /\ ~ sources[i].own /\ sources[i].after > 0
        /\ sources[i].marker \in {"raw_input_write", "self_generated_thought", "label", "effect"}

\* The percentage of the expected changes of the tone that came.
ToneSupport(e) ==
    LET Came(d) == \/ e.expects[d] > 0 /\ e.now[d] > e.before[d]
                   \/ e.expects[d] < 0 /\ e.now[d] < e.before[d]
                   \/ e.expects[d] = 0
    IN  IF DOMAIN e.expects = {} THEN 0
        ELSE (100 * Cardinality({d \in DOMAIN e.expects : Came(d)}))
                \div Cardinality(DOMAIN e.expects)

Unclear(confidence) == Verdict("inconclusive", confidence)

\* A prediction that nothing bears out fails only when it is judged after its
\* ttl; before that it stays unclear, and it is not judged again.
OfPrediction(e) ==
    LET matched == {p \in e.predicted \cap DOMAIN e.shown : Confirming(e.shown[p])}
        ratio == (100 * Cardinality(matched)) \div Cardinality(e.predicted)
        tone == ToneSupport(e)
    IN  IF e.predicted = {}
        THEN IF DOMAIN e.expects = {} THEN Unclear(10)
             ELSE IF tone >= 60 THEN Verdict("partially_confirmed", tone) ELSE Unclear(20)
        ELSE IF ratio >= 60 THEN Verdict("confirmed", Greater(65, ratio))
        ELSE IF ratio >= 25 \/ tone >= 50
             THEN Verdict("partially_confirmed",
                          Greater(Greater(35, ratio), (60 * tone) \div 100))
        ELSE IF e.age >= e.ttl THEN Verdict("failed", 65) ELSE Unclear(25)

OfDecision(e) ==
    IF e.effect = "" THEN Unclear(10)
    ELSE IF e.effect \in e.effects THEN Verdict("confirmed", 85)
    ELSE IF e.activation >= 35 THEN Verdict("partially_confirmed", 50)
    ELSE Verdict("failed", 65)

\* A thought asked for is in a frame since then, or still active.
Appeared(thought) == thought.framed \/ thought.activation >= 25

OfEffect(e) ==
    LET came == Cardinality({i \in DOMAIN e.thoughts : Appeared(e.thoughts[i])})
        checks == 1 + Len(e.thoughts) + (IF e.memory THEN 1 ELSE 0)
                    + (IF DOMAIN e.expects = {} THEN 0 ELSE 1)
        confirmations == (IF e.activation >= 25 THEN 100 ELSE 0) + 100 * came
                           + (IF e.memory THEN 100 ELSE 0) + ToneSupport(e)
        ratio == confirmations \div checks
    IN  IF ratio >= 60 THEN Verdict("confirmed", Greater(60, ratio))
        ELSE IF ratio >= 25 THEN Verdict("partially_confirmed", Greater(35, ratio))
        ELSE Verdict("failed", 60)

Judge(e) ==
    CASE e.kind = "prediction" -> OfPrediction(e)
      [] e.kind = "decision" -> OfDecision(e)
      [] e.kind = "effect" -> OfEffect(e)

\* More than the tone bears it out, and of a prediction something other than
\* the prediction itself: a pattern shown for a later cause, the effect the
\* action should have, a thought that came.  That an effect made a memory
\* candidate counts, as it does above.
Borne(e) ==
    CASE e.kind = "prediction" ->
            \E p \in e.predicted \cap DOMAIN e.shown : \E i \in DOMAIN e.shown[p] :
                ~ e.shown[p][i].own /\ e.shown[p][i].after > 0
      [] e.kind = "decision" -> e.effect \in e.effects
      [] e.kind = "effect" ->
            e.activation > 0 \/ e.memory \/ \E i \in DOMAIN e.thoughts : Appeared(e.thoughts[i])
=============================================================================
