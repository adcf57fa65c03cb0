------------------------ MODULE CandidateReview_proofs ------------------------
(***************************************************************************)
(* Proofs about CandidateReview: every event counts once towards remembering *)
(* and is lost only in a burst, and what is approved was earned.             *)
(***************************************************************************)
EXTENDS CandidateReview, Positions_proofs

-----------------------------------------------------------------------------
(* The inductive invariant of what is taken up and counted.                *)

Event == [kind : Kinds, age : Nat]
Outcome == [source : Nat, status : Statuses \cup {"inconclusive"}, confidence : 0 .. 100,
            borne : BOOLEAN, batch : Nat]
Candidate == [outcome : Nat, confidence : Int]

TypeOK ==
    /\ pc \in {"work", "mode", "evaluate", "build", "buffer", "review"}
    /\ sources \in Seq(Event)
    /\ judged \subseteq 1 .. Len(sources)
    /\ outcomes \in Seq(Outcome)
    /\ handled \subseteq 1 .. Len(outcomes)
    /\ candidates \in Seq(Candidate)
    /\ processed \subseteq 1 .. Len(candidates)

\* Every outcome is of an event of its own, judged as such an event may be.
OutcomesInv ==
    /\ \A i \in 1 .. Len(outcomes) :
          /\ outcomes[i].source \in judged
          /\ \E v \in Verdicts[sources[outcomes[i].source].kind] :
                v.status = outcomes[i].status /\ v.borne = outcomes[i].borne
    /\ \A i, j \in 1 .. Len(outcomes) : outcomes[i].source = outcomes[j].source => i = j

\* Every learnable outcome taken up has one candidate, and nothing else has.
CandidatesInv ==
    /\ \A i \in handled : outcomes[i].status \in Statuses
    /\ \A k \in 1 .. Len(candidates) :
          candidates[k].outcome \in handled
          /\ Learnable(sources[outcomes[candidates[k].outcome].source].kind)
    /\ \A i \in handled : Learnable(sources[outcomes[i].source].kind) =>
          \E k \in 1 .. Len(candidates) : candidates[k].outcome = i
    /\ \A k, l \in 1 .. Len(candidates) : candidates[k].outcome = candidates[l].outcome => k = l

\* Between the builder and the buffer new candidates are within its window,
\* and there are none at any other time.
WindowInv ==
    \A k \in 1 .. Len(candidates) : k \notin processed =>
        pc = "buffer" /\ k > Len(candidates) - CandidateWindow

\* The candidates of a group, and the events behind them.
Members(sig) == {k \in processed : CandidateSignature(candidates[k]) = sig}
SourcesOf(ks) == {outcomes[candidates[k].outcome].source : k \in ks}

GroupsInv ==
    \A sig \in Signatures :
        /\ groups[sig].support = Cardinality(Members(sig))
        /\ groups[sig].evidence = SourcesOf(Members(sig))

CountInv == TypeOK /\ OutcomesInv /\ CandidatesInv /\ WindowInv /\ GroupsInv

\* What an outcome is stays the same as events and outcomes are added.
Kept ==
    /\ Len(sources) <= Len(sources')
    /\ \A i \in 1 .. Len(sources) : sources'[i].kind = sources[i].kind
    /\ Len(outcomes) <= Len(outcomes')
    /\ \A i \in 1 .. Len(outcomes) : outcomes'[i] = outcomes[i]

\* Of the number of events, outcomes and candidates.
LEMMA LensAreNumbers ==
  ASSUME TypeOK PROVE Len(sources) \in Nat /\ Len(outcomes) \in Nat /\ Len(candidates) \in Nat
  BY DEF TypeOK

LEMMA TypeInit == ASSUME ReviewAssumption, Init PROVE CountInv
<1>1. TypeOK
  BY DEF Init, TypeOK
<1>2. OutcomesInv /\ CandidatesInv /\ WindowInv
  BY DEF Init, OutcomesInv, CandidatesInv, WindowInv
<1>3. GroupsInv
  <2>1. ASSUME NEW sig \in Signatures
        PROVE  groups[sig].support = Cardinality(Members(sig))
               /\ groups[sig].evidence = SourcesOf(Members(sig))
    <3>1. Members(sig) = {} /\ SourcesOf({}) = {}
      BY DEF Init, Members, SourcesOf
    <3>2. groups[sig].support = 0 /\ groups[sig].evidence = {}
      BY DEF Init, EmptyGroup
    <3> QED
      BY <3>1, <3>2, FS_EmptySet
  <2> QED
    BY <2>1 DEF GroupsInv
<1> QED
  BY <1>1, <1>2, <1>3 DEF CountInv

LEMMA WorkKeeps ==
  ASSUME ReviewAssumption, TypeOK, Work
  PROVE  TypeOK' /\ Kept
<1>1. PICK work \in Works :
         sources' = [i \in 1 .. Len(sources) |->
                        [sources[i] EXCEPT !.age = IF @ < Delay THEN @ + 1 ELSE @]]
                    \o [i \in 1 .. Len(work) |-> [kind |-> work[i], age |-> 0]]
  BY DEF Work
<1> DEFINE aged(i) == [sources[i] EXCEPT !.age = IF @ < Delay THEN @ + 1 ELSE @]
           older == [i \in 1 .. Len(sources) |-> aged(i)]
           new == [i \in 1 .. Len(work) |-> [kind |-> work[i], age |-> 0]]
<1>2. work \in Seq(Kinds)
  <2>1. <<>> \in Seq(Kinds)
    OBVIOUS
  <2>2. <<"decision", "effect">> \in Seq(Kinds)
    BY DEF Kinds
  <2>3. <<"barren">> \in Seq(Kinds) /\ <<"prediction">> \in Seq(Kinds) /\ <<"mode">> \in Seq(Kinds)
    BY DEF Kinds
  <2> QED
    BY <2>1, <2>2, <2>3 DEF Works
<1>3. \A i \in 1 .. Len(sources) : aged(i) \in Event /\ aged(i).kind = sources[i].kind
  <2>1. TAKE i \in 1 .. Len(sources)
  <2>2. sources[i] \in Event
    BY DEF TypeOK
  <2>3. sources[i].age \in Nat
    BY <2>2 DEF Event
  <2> DEFINE n == IF sources[i].age < Delay THEN sources[i].age + 1 ELSE sources[i].age
  <2>4. n \in Nat
    BY <2>3
  <2> HIDE DEF n
  <2>5. [sources[i] EXCEPT !.age = n] \in Event /\ [sources[i] EXCEPT !.age = n].kind = sources[i].kind
    BY <2>2, <2>4 DEF Event
  <2> QED
    BY <2>5 DEF n
<1>4. sources' = older \o new
  BY <1>1
<1> HIDE DEF aged
<1>5. Len(sources) \in Nat /\ Len(work) \in Nat
  BY <1>2 DEF TypeOK
<1>6. older \in Seq(Event) /\ Len(older) = Len(sources)
      /\ \A i \in 1 .. Len(sources) : older[i].kind = sources[i].kind
  BY <1>3, <1>5
<1>7. new \in Seq(Event) /\ Len(new) = Len(work)
  <2>1. \A i \in 1 .. Len(work) : [kind |-> work[i], age |-> 0] \in Event
    BY <1>2 DEF Event
  <2> QED
    BY <1>5, <2>1
<1> HIDE DEF older, new
<1>8. sources' \in Seq(Event) /\ Len(sources') = Len(sources) + Len(work)
      /\ \A i \in 1 .. Len(sources) : sources'[i] = older[i]
  BY <1>4, <1>6, <1>7, Joined
<1>9. Len(sources) <= Len(sources') /\ \A i \in 1 .. Len(sources) : sources'[i].kind = sources[i].kind
  BY <1>5, <1>6, <1>8
<1>10. UNCHANGED <<mode, judged, outcomes, builder, buffer, reviewer>> /\ pc' = "mode"
  BY DEF Work
<1>11. TypeOK'
  <2>1. judged' \subseteq 1 .. Len(sources')
    BY <1>5, <1>8, <1>9, <1>10 DEF TypeOK
  <2> QED
    BY <1>8, <1>10, <2>1 DEF TypeOK, builder, buffer
<1>12. Kept
  BY <1>9, <1>10, LensAreNumbers DEF Kept
<1> QED
  BY <1>11, <1>12

\* Kinds and outcomes do not change as more are added.
LEMMA KeptOutcomes ==
  ASSUME TypeOK, OutcomesInv, Kept, NEW i \in 1 .. Len(outcomes)
  PROVE  /\ i \in 1 .. Len(outcomes') /\ outcomes'[i] = outcomes[i]
         /\ outcomes[i].source \in 1 .. Len(sources)
         /\ sources'[outcomes[i].source].kind = sources[outcomes[i].source].kind
<1>1. outcomes[i].source \in 1 .. Len(sources)
  BY DEF OutcomesInv, TypeOK
<1>2. i \in 1 .. Len(outcomes')
  <2>1. Len(outcomes) \in Nat /\ Len(outcomes) <= Len(outcomes')
    BY LensAreNumbers DEF Kept
  <2> QED
    BY <2>1
<1> QED
  BY <1>1, <1>2 DEF Kept

\* A step that neither takes up outcomes nor counts candidates.
LEMMA AsideKeeps ==
  ASSUME CountInv, Kept, pc # "buffer", UNCHANGED <<handled, candidates, processed, groups>>
  PROVE  CandidatesInv' /\ WindowInv' /\ GroupsInv'
<1>1. \A k \in 1 .. Len(candidates) : candidates[k].outcome \in 1 .. Len(outcomes)
  BY DEF CountInv, CandidatesInv, TypeOK
<1>2. \A i \in 1 .. Len(outcomes) :
         outcomes'[i] = outcomes[i]
         /\ sources'[outcomes[i].source].kind = sources[outcomes[i].source].kind
  BY KeptOutcomes DEF CountInv
<1>3. CandidatesInv'
  <2>1. \A i \in handled : i \in 1 .. Len(outcomes)
    BY DEF CountInv, TypeOK
  <2> QED
    BY <1>1, <1>2, <2>1 DEF CountInv, CandidatesInv, Learnable
<1>4. WindowInv'
  BY DEF CountInv, WindowInv
<1>5. GroupsInv'
  <2>1. ASSUME NEW sig \in Signatures
        PROVE  Members(sig)' = Members(sig) /\ SourcesOf(Members(sig))' = SourcesOf(Members(sig))
    <3>1. \A k \in processed : k \in 1 .. Len(candidates)
      BY DEF CountInv, TypeOK
    <3>2. \A k \in processed :
             CandidateSignature(candidates[k])' = CandidateSignature(candidates[k])
             /\ outcomes'[candidates[k].outcome] = outcomes[candidates[k].outcome]
      BY <1>1, <1>2, <3>1 DEF CandidateSignature, SignatureOf
    <3>3. Members(sig)' = Members(sig)
      BY <3>2 DEF Members
    <3>4. \A k \in Members(sig) : k \in processed
      BY DEF Members
    <3>5. {outcomes'[candidates[k].outcome].source : k \in Members(sig)}
            = {outcomes[candidates[k].outcome].source : k \in Members(sig)}
      BY <3>2, <3>4
    <3> QED
      BY <3>3, <3>5 DEF SourcesOf
  <2> QED
    BY <2>1 DEF CountInv, GroupsInv
<1> QED
  BY <1>3, <1>4, <1>5

\* A step that also leaves the outcomes alone.
LEMMA QuietKeeps ==
  ASSUME CountInv, Kept, TypeOK', pc # "buffer",
         UNCHANGED <<judged, outcomes, handled, candidates, processed, groups>>
  PROVE  CountInv'
<1>1. OutcomesInv'
  <2>1. \A i \in 1 .. Len(outcomes) :
           sources'[outcomes[i].source].kind = sources[outcomes[i].source].kind
    BY KeptOutcomes DEF CountInv
  <2> QED
    BY <2>1 DEF CountInv, OutcomesInv
<1> QED
  BY <1>1, AsideKeeps DEF CountInv

LEMMA WorkCounts == ASSUME ReviewAssumption, CountInv, Work PROVE CountInv'
<1>1. TypeOK' /\ Kept
  BY WorkKeeps DEF CountInv
<1> QED
  BY <1>1, QuietKeeps DEF Work, builder, buffer

LEMMA SwitchModeCounts == ASSUME CountInv, SwitchMode PROVE CountInv'
<1>1. UNCHANGED <<sources, judged, outcomes, handled, candidates, processed, groups>>
  BY DEF SwitchMode, evaluator, builder, buffer
<1>2. Kept
  BY <1>1, LensAreNumbers DEF Kept, CountInv
<1>3. TypeOK'
  BY <1>1 DEF CountInv, TypeOK, SwitchMode
<1> QED
  BY <1>1, <1>2, <1>3, QuietKeeps DEF SwitchMode

LEMMA ReviewCounts == ASSUME CountInv, Review PROVE CountInv'
<1>1. UNCHANGED <<sources, judged, outcomes, handled, candidates, processed, groups>>
      /\ pc = "review" /\ pc' = "work"
  BY DEF Review, evaluator, builder, buffer
<1>2. Kept
  BY <1>1, LensAreNumbers DEF Kept, CountInv
<1>3. TypeOK'
  BY <1>1 DEF CountInv, TypeOK
<1> QED
  BY <1>1, <1>2, <1>3, QuietKeeps

\* The outcomes a run of the evaluator adds: one of each due event.
LEMMA EvaluateAdds ==
  ASSUME ReviewAssumption, TypeOK, Evaluate
  PROVE  \E new \in Seq(Outcome) :
            /\ outcomes' = outcomes \o new
            /\ \A i \in 1 .. Len(new) :
                  /\ new[i].source \in DueSources /\ new[i].batch = Len(new)
                  /\ \E v \in Verdicts[sources[new[i].source].kind] :
                        v.status = new[i].status /\ v.borne = new[i].borne
            /\ \A i, j \in 1 .. Len(new) : new[i].source = new[j].source => i = j
<1> DEFINE due == InOrder(DueSources)
           c == Cardinality(DueSources)
<1>1. /\ c \in Nat /\ due \in [1 .. c -> DueSources] /\ Len(due) = c
      /\ \A i, j \in 1 .. c : i < j => due[i] < due[j]
  <2>1. DueSources \in SUBSET (1 .. Len(sources)) /\ Len(sources) \in Nat
    BY LensAreNumbers DEF DueSources
  <2> QED
    BY <2>1, InOrderLists
<1>2. PICK verdict \in [1 .. Len(due) -> UNION {Verdicts[kind] : kind \in Kinds}] :
         /\ \A i \in 1 .. Len(due) : verdict[i] \in Verdicts[sources[due[i]].kind]
         /\ outcomes' = outcomes \o
               [i \in 1 .. Len(due) |->
                   [source |-> due[i], status |-> verdict[i].status,
                    confidence |-> verdict[i].confidence, borne |-> verdict[i].borne,
                    batch |-> Len(due)]]
  BY DEF Evaluate
<1> DEFINE item(i) == [source |-> due[i], status |-> verdict[i].status,
                       confidence |-> verdict[i].confidence, borne |-> verdict[i].borne,
                       batch |-> Len(due)]
           new == [i \in 1 .. Len(due) |-> item(i)]
<1>3. outcomes' = outcomes \o new
  BY <1>2
<1> HIDE DEF due, c
<1>4. \A i \in 1 .. c : due[i] \in DueSources /\ due[i] \in 1 .. Len(sources)
  BY <1>1 DEF DueSources
<1>5. \A i \in 1 .. c : item(i) \in Outcome
  <2>1. TAKE i \in 1 .. c
  <2>2. sources[due[i]].kind \in Kinds
    <3>1. sources[due[i]] \in Event
      BY <1>4 DEF TypeOK
    <3> QED
      BY <3>1 DEF Event
  <2>3. verdict[i] \in [status : Statuses \cup {"inconclusive"}, confidence : 0 .. 100, borne : BOOLEAN]
    BY <1>1, <1>2, <2>2 DEF ReviewAssumption
  <2>4. due[i] \in Nat /\ Len(due) \in Nat
    BY <1>1, <1>4
  <2> QED
    BY <2>3, <2>4 DEF Outcome
<1>6. \A i \in 1 .. c :
         /\ item(i).source = due[i] /\ item(i).batch = c
         /\ item(i).status = verdict[i].status /\ item(i).borne = verdict[i].borne
  BY <1>1
<1> HIDE DEF item
<1>7. new \in Seq(Outcome) /\ Len(new) = c /\ \A i \in 1 .. c : new[i] = item(i)
  BY <1>1, <1>5
<1> HIDE DEF new
<1>8. \A i \in 1 .. c :
         /\ new[i].source = due[i] /\ new[i].batch = c
         /\ new[i].status = verdict[i].status /\ new[i].borne = verdict[i].borne
  BY <1>6, <1>7
<1>9. \A i, j \in 1 .. c : due[i] = due[j] => i = j
  <2>1. ASSUME NEW i \in 1 .. c, NEW j \in 1 .. c, i < j PROVE due[i] # due[j]
    <3>1. due[i] < due[j] /\ due[i] \in 1 .. Len(sources)
      BY <1>1, <1>4, <2>1
    <3> QED
      BY <3>1
  <2> QED
    BY <1>1, <2>1
<1>10. \A i \in 1 .. c : verdict[i] \in Verdicts[sources[due[i]].kind]
  BY <1>1, <1>2
<1>11. /\ \A i \in 1 .. Len(new) :
             /\ new[i].source \in DueSources /\ new[i].batch = Len(new)
             /\ \E v \in Verdicts[sources[new[i].source].kind] :
                   v.status = new[i].status /\ v.borne = new[i].borne
       /\ \A i, j \in 1 .. Len(new) : new[i].source = new[j].source => i = j
  <2>1. \A i \in 1 .. c : new[i].source \in DueSources /\ new[i].batch = Len(new)
    BY <1>4, <1>7, <1>8
  <2>2. ASSUME NEW i \in 1 .. c
        PROVE  \E v \in Verdicts[sources[new[i].source].kind] :
                  v.status = new[i].status /\ v.borne = new[i].borne
    <3>1. verdict[i] \in Verdicts[sources[new[i].source].kind]
      BY <1>8, <1>10
    <3> QED
      BY <1>8, <3>1
  <2>3. \A i, j \in 1 .. c : new[i].source = new[j].source => i = j
    BY <1>8, <1>9
  <2> QED
    BY <1>7, <2>1, <2>2, <2>3
<1> QED
  BY <1>3, <1>7, <1>11

LEMMA EvaluateCounts == ASSUME ReviewAssumption, CountInv, Evaluate PROVE CountInv' /\ Kept
<1>1. PICK new \in Seq(Outcome) :
         /\ outcomes' = outcomes \o new
         /\ \A i \in 1 .. Len(new) :
               /\ new[i].source \in DueSources
               /\ \E v \in Verdicts[sources[new[i].source].kind] :
                     v.status = new[i].status /\ v.borne = new[i].borne
         /\ \A i, j \in 1 .. Len(new) : new[i].source = new[j].source => i = j
  BY EvaluateAdds DEF CountInv
<1>2. /\ pc = "evaluate" /\ pc' = "build" /\ judged' = judged \cup DueSources
      /\ UNCHANGED <<sources, handled, candidates, processed, groups>>
  BY DEF Evaluate, builder, buffer
<1>3. outcomes \in Seq(Outcome)
  BY DEF CountInv, TypeOK
<1>4. /\ outcomes' \in Seq(Outcome) /\ Len(outcomes) \in Nat
      /\ Len(outcomes') = Len(outcomes) + Len(new) /\ Len(new) \in Nat
      /\ \A i \in 1 .. Len(outcomes) : outcomes'[i] = outcomes[i]
      /\ \A i \in 1 .. Len(outcomes') : i \notin 1 .. Len(outcomes) =>
            i - Len(outcomes) \in 1 .. Len(new) /\ outcomes'[i] = new[i - Len(outcomes)]
  BY <1>1, <1>3, Joined
<1>5. Kept
  BY <1>2, <1>4, LensAreNumbers DEF Kept, CountInv
<1>6. DueSources \subseteq 1 .. Len(sources) /\ \A s \in DueSources : s \notin judged
  BY DEF DueSources, Due
<1>7. TypeOK'
  BY <1>2, <1>4, <1>6 DEF CountInv, TypeOK
<1>8. OutcomesInv'
  <2>1. \A i \in 1 .. Len(outcomes) : outcomes[i].source \in judged
    BY DEF CountInv, OutcomesInv
  <2>2. ASSUME NEW i \in 1 .. Len(outcomes')
        PROVE  /\ outcomes'[i].source \in judged'
               /\ \E v \in Verdicts[sources'[outcomes'[i].source].kind] :
                     v.status = outcomes'[i].status /\ v.borne = outcomes'[i].borne
    <3>1. CASE i \in 1 .. Len(outcomes)
      BY <1>2, <1>4, <2>1, <3>1 DEF CountInv, OutcomesInv
    <3>2. CASE i \notin 1 .. Len(outcomes)
      <4>1. PICK k \in 1 .. Len(new) : outcomes'[i] = new[k]
        BY <1>4, <3>2
      <4>2. new[k].source \in judged'
        BY <1>1, <1>2
      <4>3. \E v \in Verdicts[sources[new[k].source].kind] :
               v.status = new[k].status /\ v.borne = new[k].borne
        BY <1>1
      <4> QED
        BY <1>2, <4>1, <4>2, <4>3
    <3> QED
      BY <3>1, <3>2
  <2>3. ASSUME NEW i \in 1 .. Len(outcomes'), NEW j \in 1 .. Len(outcomes'),
               outcomes'[i].source = outcomes'[j].source
        PROVE  i = j
    <3>1. CASE i \in 1 .. Len(outcomes) /\ j \in 1 .. Len(outcomes)
      BY <1>4, <2>3, <3>1 DEF CountInv, OutcomesInv
    <3>2. CASE i \in 1 .. Len(outcomes) /\ j \notin 1 .. Len(outcomes)
      <4>1. outcomes'[j].source \in DueSources
        BY <1>1, <1>4, <3>2
      <4>2. outcomes'[i].source \in judged
        BY <1>4, <2>1, <3>2
      <4> QED
        BY <1>6, <2>3, <4>1, <4>2
    <3>3. CASE i \notin 1 .. Len(outcomes) /\ j \in 1 .. Len(outcomes)
      <4>1. outcomes'[i].source \in DueSources
        BY <1>1, <1>4, <3>3
      <4>2. outcomes'[j].source \in judged
        BY <1>4, <2>1, <3>3
      <4> QED
        BY <1>6, <2>3, <4>1, <4>2
    <3>4. CASE i \notin 1 .. Len(outcomes) /\ j \notin 1 .. Len(outcomes)
      <4>1. i - Len(outcomes) = j - Len(outcomes)
        BY <1>1, <1>4, <2>3, <3>4
      <4> QED
        BY <1>4, <4>1
    <3> QED
      BY <3>1, <3>2, <3>3, <3>4
  <2> QED
    BY <2>2, <2>3 DEF OutcomesInv
<1>9. CandidatesInv' /\ WindowInv' /\ GroupsInv'
  BY <1>2, <1>5, AsideKeeps
<1> QED
  BY <1>5, <1>7, <1>8, <1>9 DEF CountInv

\* The outcomes a run of the builder makes candidates of.
Taken == {i \in Fresh : Learnable(sources[outcomes[i].source].kind)}

\* It makes one of each, and not more than its window shows.
LEMMA BuildAdds ==
  ASSUME ReviewAssumption, TypeOK, Build
  PROVE  \E new \in Seq(Candidate) :
            /\ candidates' = candidates \o new
            /\ Len(new) <= OutcomeWindow
            /\ \A k \in 1 .. Len(new) : new[k].outcome \in Taken
            /\ \A i \in Taken : \E k \in 1 .. Len(new) : new[k].outcome = i
            /\ \A k, l \in 1 .. Len(new) : new[k].outcome = new[l].outcome => k = l
<1> DEFINE learned == InOrder(Taken)
           c == Cardinality(Taken)
           item(k) == [outcome |-> learned[k], confidence |-> Confidence(outcomes[learned[k]])]
           new == [k \in 1 .. Len(learned) |-> item(k)]
<1>1. Taken \in SUBSET (1 .. Len(outcomes)) /\ Len(outcomes) \in Nat
  BY LensAreNumbers DEF Taken, Fresh, Recent
<1>2. /\ c \in Nat /\ learned \in [1 .. c -> Taken] /\ Len(learned) = c
      /\ \A k, l \in 1 .. c : k < l => learned[k] < learned[l]
      /\ \A i \in Taken : \E k \in 1 .. c : learned[k] = i
  BY <1>1, InOrderLists
<1>3. candidates' = candidates \o new
  BY DEF Build, Taken
<1>4. c <= OutcomeWindow
  <2> DEFINE window == (Len(outcomes) - OutcomeWindow + 1) .. Len(outcomes)
  <2>1. OutcomeWindow \in Nat
    BY DEF ReviewAssumption
  <2>2. Taken \subseteq window
    BY <1>1, <2>1 DEF Taken, Fresh, Recent
  <2>3. IsFiniteSet(window) /\ Cardinality(window) = OutcomeWindow
    <3>1. Len(outcomes) - OutcomeWindow + 1 \in Int /\ Len(outcomes) \in Int
      BY <1>1, <2>1
    <3>2. IsFiniteSet(window)
      BY <3>1, FS_Interval
    <3>3. Cardinality(window) = IF Len(outcomes) - OutcomeWindow + 1 > Len(outcomes) THEN 0
                                ELSE Len(outcomes) - (Len(outcomes) - OutcomeWindow + 1) + 1
      BY <3>1, FS_Interval
    <3> QED
      BY <1>1, <2>1, <3>2, <3>3
  <2> HIDE DEF window
  <2>4. Cardinality(Taken) <= Cardinality(window)
    BY <2>2, <2>3, FS_Subset
  <2> QED
    BY <2>3, <2>4
<1> HIDE DEF learned, c
<1>5. \A k \in 1 .. c : item(k) \in Candidate /\ item(k).outcome = learned[k]
  <2>1. TAKE k \in 1 .. c
  <2>2. learned[k] \in 1 .. Len(outcomes)
    BY <1>1, <1>2
  <2>3. outcomes[learned[k]] \in Outcome
    BY <2>2 DEF TypeOK
  <2>4. outcomes[learned[k]].confidence \in 0 .. 100
    BY <2>3 DEF Outcome
  <2>5. Confidence(outcomes[learned[k]]) \in Int
    BY <2>4 DEF Confidence
  <2>6. learned[k] \in Nat
    BY <2>2
  <2> QED
    BY <2>5, <2>6 DEF Candidate
<1> HIDE DEF item
<1>6. new \in Seq(Candidate) /\ Len(new) = c /\ \A k \in 1 .. c : new[k] = item(k)
  BY <1>2, <1>5
<1> HIDE DEF new
<1>7. \A k \in 1 .. c : new[k].outcome = learned[k]
  BY <1>5, <1>6
<1>8. \A k, l \in 1 .. c : learned[k] = learned[l] => k = l
  <2>1. ASSUME NEW k \in 1 .. c, NEW l \in 1 .. c, k < l PROVE learned[k] # learned[l]
    <3>1. learned[k] < learned[l] /\ learned[k] \in 1 .. Len(outcomes)
      BY <1>1, <1>2, <2>1
    <3> QED
      BY <3>1
  <2> QED
    BY <1>2, <2>1
<1>9. /\ Len(new) <= OutcomeWindow
      /\ \A k \in 1 .. Len(new) : new[k].outcome \in Taken
      /\ \A i \in Taken : \E k \in 1 .. Len(new) : new[k].outcome = i
      /\ \A k, l \in 1 .. Len(new) : new[k].outcome = new[l].outcome => k = l
  BY <1>2, <1>4, <1>6, <1>7, <1>8
<1> QED
  BY <1>3, <1>6, <1>9

LEMMA BuildCounts == ASSUME ReviewAssumption, CountInv, Build PROVE CountInv'
<1>1. PICK new \in Seq(Candidate) :
         /\ candidates' = candidates \o new
         /\ Len(new) <= OutcomeWindow
         /\ \A k \in 1 .. Len(new) : new[k].outcome \in Taken
         /\ \A i \in Taken : \E k \in 1 .. Len(new) : new[k].outcome = i
         /\ \A k, l \in 1 .. Len(new) : new[k].outcome = new[l].outcome => k = l
  BY BuildAdds DEF CountInv
<1>2. /\ pc = "build" /\ pc' = "buffer" /\ handled' = handled \cup Fresh
      /\ UNCHANGED <<sources, judged, outcomes, processed, groups>>
  BY DEF Build, evaluator, buffer
<1>3. candidates \in Seq(Candidate)
  BY DEF CountInv, TypeOK
<1>4. /\ candidates' \in Seq(Candidate) /\ Len(candidates) \in Nat
      /\ Len(candidates') = Len(candidates) + Len(new) /\ Len(new) \in Nat
      /\ \A k \in 1 .. Len(candidates) : candidates'[k] = candidates[k]
      /\ \A k \in 1 .. Len(new) : candidates'[Len(candidates) + k] = new[k]
      /\ \A k \in 1 .. Len(candidates') : k \notin 1 .. Len(candidates) =>
            k - Len(candidates) \in 1 .. Len(new) /\ candidates'[k] = new[k - Len(candidates)]
  BY <1>1, <1>3, Joined
<1>5. /\ Fresh \subseteq 1 .. Len(outcomes) /\ Taken \subseteq Fresh
      /\ \A i \in Fresh : i \notin handled /\ outcomes[i].status \in Statuses
      /\ \A i \in Fresh : i \in Taken <=> Learnable(sources[outcomes[i].source].kind)
  BY DEF Taken, Fresh, Recent
<1>6. TypeOK'
  <2>1. processed' \subseteq 1 .. Len(candidates')
    BY <1>2, <1>4 DEF CountInv, TypeOK
  <2>2. handled' \subseteq 1 .. Len(outcomes')
    BY <1>2, <1>5 DEF CountInv, TypeOK
  <2> QED
    BY <1>2, <1>4, <2>1, <2>2 DEF CountInv, TypeOK
<1>7. OutcomesInv'
  BY <1>2 DEF CountInv, OutcomesInv
<1>8. CandidatesInv'
  <2> USE DEF Learnable
  <2>1. \A i \in handled' : outcomes[i].status \in Statuses
    BY <1>2, <1>5 DEF CountInv, CandidatesInv
  <2>2. \A k \in 1 .. Len(candidates) : candidates[k].outcome \in handled
    BY DEF CountInv, CandidatesInv
  <2>3. ASSUME NEW k \in 1 .. Len(candidates')
        PROVE  candidates'[k].outcome \in handled'
               /\ Learnable(sources[outcomes[candidates'[k].outcome].source].kind)
    <3>1. CASE k \in 1 .. Len(candidates)
      BY <1>2, <1>4, <3>1 DEF CountInv, CandidatesInv
    <3>2. CASE k \notin 1 .. Len(candidates)
      <4>1. candidates'[k].outcome \in Taken
        BY <1>1, <1>4, <3>2
      <4> QED
        BY <1>2, <1>5, <4>1
    <3> QED
      BY <3>1, <3>2
  <2>4. ASSUME NEW i \in handled', Learnable(sources[outcomes[i].source].kind)
        PROVE  \E k \in 1 .. Len(candidates') : candidates'[k].outcome = i
    <3>1. CASE i \in handled
      <4>1. PICK k \in 1 .. Len(candidates) : candidates[k].outcome = i
        BY <2>4, <3>1 DEF CountInv, CandidatesInv
      <4> QED
        BY <1>4, <4>1
    <3>2. CASE i \in Fresh
      <4>1. PICK k \in 1 .. Len(new) : new[k].outcome = i
        BY <1>1, <1>5, <2>4, <3>2
      <4>2. Len(candidates) + k \in 1 .. Len(candidates')
        BY <1>4
      <4> QED
        BY <1>4, <4>1, <4>2
    <3> QED
      BY <1>2, <3>1, <3>2
  <2>5. ASSUME NEW k \in 1 .. Len(candidates'), NEW l \in 1 .. Len(candidates'),
               candidates'[k].outcome = candidates'[l].outcome
        PROVE  k = l
    <3>1. CASE k \in 1 .. Len(candidates) /\ l \in 1 .. Len(candidates)
      BY <1>4, <2>5, <3>1 DEF CountInv, CandidatesInv
    <3>2. CASE k \in 1 .. Len(candidates) /\ l \notin 1 .. Len(candidates)
      <4>1. candidates'[l].outcome \in Taken
        BY <1>1, <1>4, <3>2
      <4>2. candidates'[k].outcome \in handled
        BY <1>4, <2>2, <3>2
      <4> QED
        BY <1>5, <2>5, <4>1, <4>2
    <3>3. CASE k \notin 1 .. Len(candidates) /\ l \in 1 .. Len(candidates)
      <4>1. candidates'[k].outcome \in Taken
        BY <1>1, <1>4, <3>3
      <4>2. candidates'[l].outcome \in handled
        BY <1>4, <2>2, <3>3
      <4> QED
        BY <1>5, <2>5, <4>1, <4>2
    <3>4. CASE k \notin 1 .. Len(candidates) /\ l \notin 1 .. Len(candidates)
      <4>1. k - Len(candidates) = l - Len(candidates)
        BY <1>1, <1>4, <2>5, <3>4
      <4> QED
        BY <1>4, <4>1
    <3> QED
      BY <3>1, <3>2, <3>3, <3>4
  <2> QED
    BY <1>2, <2>1, <2>3, <2>4, <2>5 DEF CandidatesInv
<1>9. WindowInv'
  <2>1. OutcomeWindow \in Nat /\ CandidateWindow \in Nat /\ OutcomeWindow <= CandidateWindow
    BY DEF ReviewAssumption
  <2>2. ASSUME NEW k \in 1 .. Len(candidates'), k \notin processed
        PROVE  k > Len(candidates') - CandidateWindow
    <3>1. k \notin 1 .. Len(candidates)
      BY <1>2, <2>2 DEF CountInv, WindowInv
    <3>2. k > Len(candidates)
      BY <1>4, <3>1
    <3> QED
      BY <1>1, <1>4, <2>1, <3>2
  <2> QED
    BY <1>2, <2>2 DEF WindowInv
<1>10. GroupsInv'
  <2>1. \A k \in processed : candidates'[k] = candidates[k]
    BY <1>4 DEF CountInv, TypeOK
  <2>2. ASSUME NEW sig \in Signatures
        PROVE  /\ Members(sig)' = Members(sig)
               /\ SourcesOf(Members(sig))' = SourcesOf(Members(sig))
    <3>1. Members(sig)' = Members(sig)
      BY <1>2, <2>1 DEF Members, CandidateSignature, SignatureOf
    <3>2. \A k \in Members(sig) : candidates'[k] = candidates[k]
      BY <2>1 DEF Members
    <3> QED
      BY <1>2, <3>1, <3>2 DEF SourcesOf
  <2> QED
    BY <1>2, <2>2 DEF CountInv, GroupsInv
<1> QED
  BY <1>6, <1>7, <1>8, <1>9, <1>10 DEF CountInv

\* The new candidates of a signature.
Joins(sig) == {k \in NewCandidates : CandidateSignature(candidates[k]) = sig}

\* The signatures a run of the buffer announces: of each the first new
\* candidate is looked at.
Announced(sig) == (\E k \in NewCandidates : CandidateSignature(candidates[k]) = sig)
                     /\ Announces(sig, Grown(sig))

LEMMA GrownIs ==
  ASSUME NEW sig
  PROVE  /\ Grown(sig).support = groups[sig].support + Cardinality(Joins(sig))
         /\ Grown(sig).evidence = groups[sig].evidence \cup SourcesOf(Joins(sig))
         /\ Grown(sig).emitted = groups[sig].emitted
         /\ Grown(sig) = [support |-> Grown(sig).support, confidence |-> Grown(sig).confidence,
                          evidence |-> Grown(sig).evidence, emitted |-> Grown(sig).emitted]
BY DEF Grown, Joins, SourcesOf

\* The groups after a run of the buffer, and what it announces.
LEMMA BufferAnnounces ==
  ASSUME ReviewAssumption, CountInv, Buffer
  PROVE  \E told \in Seq(Signatures) :
            /\ \A sig \in Signatures :
                  groups'[sig] = [Grown(sig) EXCEPT
                                     !.emitted = IF Announced(sig) THEN Grown(sig).support ELSE @]
            /\ ready' = ready \o
                  [i \in 1 .. Len(told) |->
                      [signature |-> told[i], support |-> Grown(told[i]).support,
                       confidence |-> Grown(told[i]).confidence,
                       evidence |-> Grown(told[i]).evidence]]
            /\ \A i \in 1 .. Len(told) : Announced(told[i])
            /\ \A sig \in Signatures : Announced(sig) => \E i \in 1 .. Len(told) : told[i] = sig
            /\ \A i, j \in 1 .. Len(told) : told[i] = told[j] => i = j
<1> DEFINE first == {k \in NewCandidates :
                        \A l \in NewCandidates :
                            CandidateSignature(candidates[l]) = CandidateSignature(candidates[k])
                                => k <= l}
           grown == [sig \in Signatures |-> Grown(sig)]
           out == {k \in first : Announces(CandidateSignature(candidates[k]),
                                           grown[CandidateSignature(candidates[k])])}
           order == InOrder(out)
           told == [i \in 1 .. Len(order) |-> CandidateSignature(candidates[order[i]])]
           shown == [i \in 1 .. Len(told) |->
                        [signature |-> told[i], support |-> grown[told[i]].support,
                         confidence |-> grown[told[i]].confidence,
                         evidence |-> grown[told[i]].evidence]]
<1>1. /\ groups' = [sig \in Signatures |->
              IF sig \in ToSet(told)
              THEN [grown[sig] EXCEPT !.emitted = grown[sig].support] ELSE grown[sig]]
      /\ ready' = ready \o shown
  BY DEF Buffer
<1>2. NewCandidates \in SUBSET (1 .. Len(candidates)) /\ Len(candidates) \in Nat
  BY LensAreNumbers DEF NewCandidates, Recent, CountInv
<1>3. \A k \in NewCandidates : CandidateSignature(candidates[k]) \in Signatures
  <2>1. TAKE k \in NewCandidates
  <2>2. candidates[k].outcome \in handled
    BY <1>2 DEF CountInv, CandidatesInv
  <2>3. candidates[k].outcome \in 1 .. Len(outcomes) /\ outcomes[candidates[k].outcome].status \in Statuses
    BY <2>2 DEF CountInv, CandidatesInv, TypeOK
  <2>4. outcomes[candidates[k].outcome].source \in 1 .. Len(sources)
    BY <2>3 DEF CountInv, OutcomesInv, TypeOK
  <2>5. sources[outcomes[candidates[k].outcome].source] \in Event
    BY <2>4 DEF CountInv, TypeOK
  <2>6. sources[outcomes[candidates[k].outcome].source].kind \in Kinds
    BY <2>5 DEF Event
  <2> QED
    BY <2>3, <2>6 DEF CandidateSignature, SignatureOf, Signatures, CoreOf
<1>4. \A sig \in Signatures : grown[sig] = Grown(sig)
  OBVIOUS
<1> HIDE DEF grown
<1>5. \A k \in first : k \in NewCandidates
  OBVIOUS
<1>6. \A k, l \in first :
         CandidateSignature(candidates[k]) = CandidateSignature(candidates[l]) => k = l
  BY <1>2
<1>7. ASSUME NEW k \in NewCandidates
      PROVE  \E l \in first : CandidateSignature(candidates[l]) = CandidateSignature(candidates[k])
  <2> DEFINE S == Joins(CandidateSignature(candidates[k]))
  <2>1. S \in SUBSET (1 .. Len(candidates)) /\ k \in S
    BY <1>2 DEF Joins
  <2>2. /\ Cardinality(S) \in Nat /\ InOrder(S) \in [1 .. Cardinality(S) -> S]
        /\ \A i, j \in 1 .. Cardinality(S) : i < j => InOrder(S)[i] < InOrder(S)[j]
        /\ \A x \in S : \E i \in 1 .. Cardinality(S) : InOrder(S)[i] = x
    BY <1>2, <2>1, InOrderLists
  <2> DEFINE least == InOrder(S)[1]
  <2>3. 1 \in 1 .. Cardinality(S)
    BY <2>1, <2>2
  <2>4. least \in S
    BY <2>2, <2>3
  <2>5. ASSUME NEW x \in S PROVE least <= x
    <3>1. PICK i \in 1 .. Cardinality(S) : InOrder(S)[i] = x
      BY <2>2
    <3>2. x \in 1 .. Len(candidates)
      BY <2>1
    <3>3. CASE i = 1
      BY <3>1, <3>2, <3>3
    <3>4. CASE i # 1
      <4>1. 1 < i
        BY <2>2, <3>4
      <4>2. least < x /\ least \in 1 .. Len(candidates)
        BY <2>1, <2>2, <2>3, <2>4, <3>1, <4>1
      <4> QED
        BY <3>2, <4>2
    <3> QED
      BY <3>3, <3>4
  <2>6. least \in NewCandidates /\ CandidateSignature(candidates[least]) = CandidateSignature(candidates[k])
    BY <2>4 DEF Joins
  <2>7. \A l \in NewCandidates :
           CandidateSignature(candidates[l]) = CandidateSignature(candidates[least]) => least <= l
    BY <2>5, <2>6 DEF Joins
  <2> QED
    BY <2>6, <2>7
<1> HIDE DEF first
<1>8. /\ Cardinality(out) \in Nat /\ order \in [1 .. Cardinality(out) -> out]
      /\ Len(order) = Cardinality(out)
      /\ \A i, j \in 1 .. Cardinality(out) : i < j => order[i] < order[j]
      /\ \A x \in out : \E i \in 1 .. Cardinality(out) : order[i] = x
  <2>1. out \in SUBSET (1 .. Len(candidates))
    BY <1>2, <1>5
  <2> QED
    BY <1>2, <2>1, InOrderLists
<1> DEFINE c == Cardinality(out)
<1>9. /\ c \in Nat /\ order \in [1 .. c -> out] /\ Len(order) = c
      /\ \A x \in out : \E i \in 1 .. c : order[i] = x
      /\ \A i, j \in 1 .. c : i < j => order[i] < order[j]
  BY <1>8
<1>10. \A k \in out :
          /\ k \in first /\ k \in 1 .. Len(candidates)
          /\ CandidateSignature(candidates[k]) \in Signatures
          /\ Announced(CandidateSignature(candidates[k]))
  BY <1>2, <1>3, <1>4, <1>5 DEF Announced
<1>11. ASSUME NEW sig \in Signatures, Announced(sig)
       PROVE  \E k \in out : CandidateSignature(candidates[k]) = sig
  BY <1>4, <1>7, <1>11 DEF Announced
<1> HIDE DEF out, order, c
<1>12. /\ Len(told) = c /\ told \in Seq(Signatures)
       /\ \A i \in 1 .. c : told[i] = CandidateSignature(candidates[order[i]])
  BY <1>9, <1>10
<1> HIDE DEF told
<1>13. \A i \in 1 .. Len(told) : Announced(told[i]) /\ told[i] \in Signatures
  BY <1>9, <1>10, <1>12
<1>14. \A sig \in Signatures : Announced(sig) => \E i \in 1 .. Len(told) : told[i] = sig
  <2>1. ASSUME NEW sig \in Signatures, Announced(sig) PROVE \E i \in 1 .. Len(told) : told[i] = sig
    <3>1. PICK k \in out : CandidateSignature(candidates[k]) = sig
      BY <1>11, <2>1
    <3>2. PICK i \in 1 .. c : order[i] = k
      BY <1>9
    <3> QED
      BY <1>12, <3>1, <3>2
  <2> QED
    BY <2>1
<1>15. \A i, j \in 1 .. Len(told) : told[i] = told[j] => i = j
  <2>1. ASSUME NEW i \in 1 .. c, NEW j \in 1 .. c, i < j PROVE told[i] # told[j]
    <3>1. order[i] < order[j] /\ order[i] \in out /\ order[j] \in out
      BY <1>9, <2>1
    <3>2. order[i] \in 1 .. Len(candidates)
      BY <1>10, <3>1
    <3>3. order[i] # order[j]
      BY <3>1, <3>2
    <3> QED
      BY <1>6, <1>10, <1>12, <3>1, <3>3
  <2> QED
    BY <1>9, <1>12, <2>1
<1>16. \A sig \in Signatures : sig \in ToSet(told) <=> Announced(sig)
  BY <1>12, <1>13, <1>14 DEF ToSet
<1>17. ASSUME NEW sig \in Signatures
       PROVE  groups'[sig] = [Grown(sig) EXCEPT
                                 !.emitted = IF Announced(sig) THEN Grown(sig).support ELSE @]
  <2>1. CASE Announced(sig)
    BY <1>1, <1>4, <1>16, <2>1
  <2>2. CASE ~ Announced(sig)
    <3>1. groups'[sig] = Grown(sig)
      BY <1>1, <1>4, <1>16, <2>2
    <3>2. [Grown(sig) EXCEPT !.emitted = Grown(sig).emitted] = Grown(sig)
      BY GrownIs
    <3> QED
      BY <2>2, <3>1, <3>2
  <2> QED
    BY <2>1, <2>2
<1>18. ready' = ready \o
          [i \in 1 .. Len(told) |->
              [signature |-> told[i], support |-> Grown(told[i]).support,
               confidence |-> Grown(told[i]).confidence,
               evidence |-> Grown(told[i]).evidence]]
  <2>1. shown = [i \in 1 .. Len(told) |->
              [signature |-> told[i], support |-> Grown(told[i]).support,
               confidence |-> Grown(told[i]).confidence,
               evidence |-> Grown(told[i]).evidence]]
    BY <1>4, <1>13
  <2> QED
    BY <1>1, <2>1
<1> QED
  BY <1>12, <1>13, <1>14, <1>15, <1>17, <1>18

\* Sets of candidates are finite.
LEMMA CandidatesAreFinite ==
  ASSUME TypeOK, NEW ks \in SUBSET (1 .. Len(candidates))
  PROVE  IsFiniteSet(ks) /\ Cardinality(ks) \in Nat
<1>1. IsFiniteSet(1 .. Len(candidates))
  BY LensAreNumbers, FS_Interval
<1>2. IsFiniteSet(ks)
  BY <1>1, FS_Subset
<1> QED
  BY <1>2, FS_CardinalityType

\* What a group is after a run of the buffer.
LEMMA BufferGrows ==
  ASSUME ReviewAssumption, CountInv, Buffer, NEW sig \in Signatures
  PROVE  /\ groups'[sig].support = Grown(sig).support
         /\ groups'[sig].confidence = Grown(sig).confidence
         /\ groups'[sig].evidence = Grown(sig).evidence
         /\ groups'[sig].emitted = IF Announced(sig) THEN Grown(sig).support ELSE groups[sig].emitted
         /\ groups'[sig] = [support |-> groups'[sig].support, confidence |-> groups'[sig].confidence,
                            evidence |-> groups'[sig].evidence, emitted |-> groups'[sig].emitted]
<1> DEFINE n == IF Announced(sig) THEN Grown(sig).support ELSE Grown(sig).emitted
<1>1. groups'[sig] = [Grown(sig) EXCEPT !.emitted = n]
  BY BufferAnnounces
<1>2. n = IF Announced(sig) THEN Grown(sig).support ELSE groups[sig].emitted
  BY GrownIs
<1> HIDE DEF n
<1> DEFINE g == Grown(sig)
           a == g.support
           b == g.confidence
           e == g.evidence
           m == g.emitted
<1>3. g = [support |-> a, confidence |-> b, evidence |-> e, emitted |-> m]
  BY GrownIs
<1>4. groups'[sig] = [g EXCEPT !.emitted = n]
  BY <1>1
<1>5. g.support = a /\ g.confidence = b /\ g.evidence = e
  OBVIOUS
<1> HIDE DEF g, a, b, e, m
<1>6. groups'[sig] = [support |-> a, confidence |-> b, evidence |-> e, emitted |-> n]
  BY <1>3, <1>4
<1> QED
  BY <1>2, <1>5, <1>6 DEF g

LEMMA BufferCounts == ASSUME ReviewAssumption, CountInv, Buffer PROVE CountInv'
<1>1. /\ pc = "buffer" /\ pc' = "work" /\ processed' = processed \cup NewCandidates
      /\ UNCHANGED <<sources, judged, outcomes, handled, candidates>>
  BY DEF Buffer, evaluator, builder
<1>2. NewCandidates = (1 .. Len(candidates)) \ processed
  BY DEF NewCandidates, Recent, CountInv, WindowInv
<1>3. TypeOK'
  BY <1>1, <1>2 DEF CountInv, TypeOK
<1>4. OutcomesInv' /\ CandidatesInv'
  BY <1>1 DEF CountInv, OutcomesInv, CandidatesInv
<1>5. WindowInv'
  BY <1>1, <1>2 DEF WindowInv
<1>6. GroupsInv'
  <2>1. ASSUME NEW sig \in Signatures
        PROVE  groups'[sig].support = Cardinality(Members(sig)')
               /\ groups'[sig].evidence = SourcesOf(Members(sig))'
    <3>1. Members(sig)' = Members(sig) \cup Joins(sig)
      BY <1>1, <1>2 DEF Members, Joins, CandidateSignature, SignatureOf
    <3>2. SourcesOf(Members(sig))' = SourcesOf(Members(sig)) \cup SourcesOf(Joins(sig))
      BY <1>1, <3>1 DEF SourcesOf
    <3>3. Members(sig) \cap Joins(sig) = {}
      BY <1>2 DEF Members, Joins
    <3>4. Members(sig) \in SUBSET (1 .. Len(candidates)) /\ Joins(sig) \in SUBSET (1 .. Len(candidates))
      BY <1>2 DEF Members, Joins, CountInv, TypeOK
    <3> DEFINE A == Members(sig)
               B == Joins(sig)
    <3>5. /\ IsFiniteSet(A) /\ IsFiniteSet(B) /\ A \cap B = {}
          /\ Cardinality(A) \in Nat /\ Cardinality(B) \in Nat
      BY <3>3, <3>4, CandidatesAreFinite DEF CountInv
    <3> HIDE DEF A, B
    <3>6. Cardinality(A \cup B) = Cardinality(A) + Cardinality(B)
      <4>1. Cardinality(A \cup B) = Cardinality(A) + Cardinality(B) - Cardinality(A \cap B)
        BY <3>5, FS_Union
      <4>2. Cardinality(A \cap B) = 0
        BY <3>5, FS_EmptySet
      <4> QED
        BY <3>5, <4>1, <4>2
    <3>7. Cardinality(Members(sig)') = Cardinality(Members(sig)) + Cardinality(Joins(sig))
      BY <3>1, <3>6 DEF A, B
    <3>8. groups'[sig].support = groups[sig].support + Cardinality(Joins(sig))
          /\ groups'[sig].evidence = groups[sig].evidence \cup SourcesOf(Joins(sig))
      BY BufferGrows, GrownIs
    <3>9. groups[sig].support = Cardinality(Members(sig))
          /\ groups[sig].evidence = SourcesOf(Members(sig))
      BY DEF CountInv, GroupsInv
    <3> QED
      BY <3>2, <3>7, <3>8, <3>9
  <2> QED
    BY <2>1 DEF GroupsInv
<1> QED
  BY <1>3, <1>4, <1>5, <1>6 DEF CountInv

LEMMA StutterCounts == ASSUME CountInv, UNCHANGED vars PROVE CountInv'
<1>1. /\ UNCHANGED <<pc, sources, judged, outcomes, handled, candidates, processed, groups>>
  BY DEF vars, evaluator, builder, buffer
<1>2. TypeOK'
  BY <1>1 DEF CountInv, TypeOK
<1>3. OutcomesInv'
  BY <1>1 DEF CountInv, OutcomesInv
<1>4. CandidatesInv'
  BY <1>1 DEF CountInv, CandidatesInv, Learnable
<1>5. WindowInv'
  BY <1>1 DEF CountInv, WindowInv
<1>6. GroupsInv'
  <2>1. ASSUME NEW sig \in Signatures
        PROVE  Members(sig)' = Members(sig) /\ SourcesOf(Members(sig))' = SourcesOf(Members(sig))
    BY <1>1 DEF Members, SourcesOf, CandidateSignature, SignatureOf
  <2> QED
    BY <1>1, <2>1 DEF CountInv, GroupsInv
<1> QED
  BY <1>2, <1>3, <1>4, <1>5, <1>6 DEF CountInv

LEMMA CountStep == ASSUME ReviewAssumption, CountInv, [Next]_vars PROVE CountInv'
BY WorkCounts, SwitchModeCounts, EvaluateCounts, BuildCounts, BufferCounts, ReviewCounts,
   StutterCounts DEF Next

LEMMA Counted == ASSUME ReviewAssumption PROVE Spec => []CountInv
<1>1. Init => CountInv
  BY TypeInit
<1>2. CountInv /\ [Next]_vars => CountInv'
  BY CountStep
<1> QED
  BY <1>1, <1>2, PTL DEF Spec

\* A group's support is the number of the events behind it: its candidates
\* are of different outcomes, and those are of different events.
LEMMA SupportIs ==
  ASSUME CountInv, NEW sig \in Signatures
  PROVE  /\ groups[sig].support = Cardinality(groups[sig].evidence)
         /\ groups[sig].support \in Nat /\ IsFiniteSet(groups[sig].evidence)
<1> DEFINE A == Members(sig)
           E == SourcesOf(A)
           f == [k \in A |-> outcomes[candidates[k].outcome].source]
<1>1. \A k \in A : k \in 1 .. Len(candidates)
  BY DEF Members, CountInv, TypeOK
<1>2. f \in Bijection(A, E)
  <2>1. f \in [A -> E] /\ \A e \in E : \E k \in A : f[k] = e
    BY DEF SourcesOf
  <2>2. ASSUME NEW k \in A, NEW l \in A, f[k] = f[l] PROVE k = l
    <3>1. /\ k \in 1 .. Len(candidates) /\ l \in 1 .. Len(candidates)
          /\ outcomes[candidates[k].outcome].source = outcomes[candidates[l].outcome].source
      BY <1>1, <2>2
    <3>2. candidates[k].outcome \in 1 .. Len(outcomes) /\ candidates[l].outcome \in 1 .. Len(outcomes)
      BY <3>1 DEF CountInv, CandidatesInv, TypeOK
    <3>3. candidates[k].outcome = candidates[l].outcome
      BY <3>1, <3>2 DEF CountInv, OutcomesInv
    <3> QED
      BY <3>1, <3>3 DEF CountInv, CandidatesInv
  <2> HIDE DEF f, E, A
  <2> QED
    BY <2>1, <2>2 DEF Bijection, Injection, Surjection, IsInjective
<1>3. IsFiniteSet(A) /\ Cardinality(A) \in Nat
  BY <1>1, CandidatesAreFinite DEF CountInv
<1> HIDE DEF f, E, A
<1>4. IsFiniteSet(E) /\ Cardinality(E) = Cardinality(A)
  BY <1>2, <1>3, FS_Bijection DEF ExistsBijection
<1> QED
  BY <1>3, <1>4 DEF E, A, CountInv, GroupsInv

\* When the buffer has run, the groups hold all that was taken up.
LEMMA SupportFollows == CountInv => SupportIsEvidence
<1> SUFFICES ASSUME CountInv, pc # "buffer", NEW sig \in Signatures
             PROVE  /\ groups[sig].support = Cardinality(groups[sig].evidence)
                    /\ groups[sig].evidence =
                          {outcomes[i].source : i \in
                              {j \in handled : /\ Learnable(sources[outcomes[j].source].kind)
                                               /\ SignatureOf(outcomes[j]) = sig}}
  BY DEF SupportIsEvidence
<1>1. processed = 1 .. Len(candidates)
  BY DEF CountInv, TypeOK, WindowInv
<1>2. groups[sig].evidence = {outcomes[candidates[k].outcome].source :
                                 k \in {l \in 1 .. Len(candidates) : CandidateSignature(candidates[l]) = sig}}
  BY <1>1 DEF CountInv, GroupsInv, Members, SourcesOf
<1>3. ASSUME NEW l \in 1 .. Len(candidates), CandidateSignature(candidates[l]) = sig
      PROVE  /\ candidates[l].outcome \in handled
             /\ Learnable(sources[outcomes[candidates[l].outcome].source].kind)
             /\ SignatureOf(outcomes[candidates[l].outcome]) = sig
  BY <1>3 DEF CountInv, CandidatesInv, CandidateSignature
<1>4. ASSUME NEW j \in handled, Learnable(sources[outcomes[j].source].kind), SignatureOf(outcomes[j]) = sig
      PROVE  \E l \in 1 .. Len(candidates) : candidates[l].outcome = j /\ CandidateSignature(candidates[l]) = sig
  BY <1>4 DEF CountInv, CandidatesInv, CandidateSignature
<1> DEFINE J == {j \in handled : /\ Learnable(sources[outcomes[j].source].kind)
                                 /\ SignatureOf(outcomes[j]) = sig}
           K == {l \in 1 .. Len(candidates) : CandidateSignature(candidates[l]) = sig}
<1>5. \A l \in K : candidates[l].outcome \in J
  BY <1>3
<1>6. \A j \in J : \E l \in K : candidates[l].outcome = j
  BY <1>4
<1> HIDE DEF J, K
<1>7. {outcomes[candidates[k].outcome].source : k \in K} = {outcomes[i].source : i \in J}
  BY <1>5, <1>6
<1> QED
  BY <1>2, <1>7, SupportIs DEF J, K

\* SupportIsEvidence: a group's support is the number of different events
\* behind it, and those are all the learnable events of its signature that
\* the builder has taken up.
THEOREM SupportCounts == ASSUME ReviewAssumption PROVE Spec => []SupportIsEvidence
<1>1. Spec => []CountInv
  BY Counted
<1>2. CountInv => SupportIsEvidence
  BY SupportFollows
<1> QED
  BY <1>1, <1>2, PTL

-----------------------------------------------------------------------------
(* What is lost.                                                           *)

\* What the builder's window has passed by came in a burst.
BurstsInv ==
    \A i \in 1 .. Len(outcomes) :
        outcomes[i].status \in Statuses /\ i \notin handled =>
            \/ outcomes[i].batch > OutcomeWindow
            \/ pc = "build" /\ i > Len(outcomes) - OutcomeWindow

LEMMA BurstsStep ==
  ASSUME ReviewAssumption, CountInv, BurstsInv, [Next]_vars
  PROVE  BurstsInv'
<1>1. OutcomeWindow \in Nat /\ Len(outcomes) \in Nat
  BY LensAreNumbers DEF ReviewAssumption, CountInv
<1>2. ASSUME UNCHANGED <<outcomes, handled>>, pc # "build" PROVE BurstsInv'
  BY <1>2 DEF BurstsInv
<1>3. CASE Work
  BY <1>2, <1>3 DEF Work, builder
<1>4. CASE SwitchMode
  BY <1>2, <1>4 DEF SwitchMode, evaluator, builder
<1>5. CASE Evaluate
  <2>1. PICK new \in Seq(Outcome) :
           outcomes' = outcomes \o new /\ \A i \in 1 .. Len(new) : new[i].batch = Len(new)
    BY <1>5, EvaluateAdds DEF CountInv
  <2>2. outcomes \in Seq(Outcome)
    BY DEF CountInv, TypeOK
  <2>3. /\ Len(outcomes') = Len(outcomes) + Len(new) /\ Len(new) \in Nat
        /\ \A i \in 1 .. Len(outcomes) : outcomes'[i] = outcomes[i]
        /\ \A i \in 1 .. Len(outcomes') : i \notin 1 .. Len(outcomes) =>
              i - Len(outcomes) \in 1 .. Len(new) /\ outcomes'[i] = new[i - Len(outcomes)]
    BY <2>1, <2>2, Joined
  <2>4. handled' = handled /\ pc = "evaluate" /\ pc' = "build"
    BY <1>5 DEF Evaluate, builder
  <2>5. ASSUME NEW i \in 1 .. Len(outcomes'), outcomes'[i].status \in Statuses, i \notin handled
        PROVE  outcomes'[i].batch > OutcomeWindow \/ i > Len(outcomes') - OutcomeWindow
    <3>1. CASE i \in 1 .. Len(outcomes)
      BY <2>3, <2>4, <2>5, <3>1 DEF BurstsInv
    <3>2. CASE i \notin 1 .. Len(outcomes)
      <4>1. outcomes'[i].batch = Len(new)
        BY <2>1, <2>3, <3>2
      <4>2. i > Len(outcomes)
        BY <1>1, <2>3, <3>2
      <4>3. CASE Len(new) > OutcomeWindow
        BY <4>1, <4>3
      <4>4. CASE ~ (Len(new) > OutcomeWindow)
        BY <1>1, <2>3, <4>2, <4>4
      <4> QED
        BY <4>3, <4>4
    <3> QED
      BY <3>1, <3>2
  <2> QED
    BY <2>4, <2>5 DEF BurstsInv
<1>6. CASE Build
  <2>1. handled' = handled \cup Fresh /\ UNCHANGED outcomes
    BY <1>6 DEF Build, evaluator
  <2>2. ASSUME NEW i \in 1 .. Len(outcomes), outcomes[i].status \in Statuses, i \notin handled'
        PROVE  outcomes[i].batch > OutcomeWindow
    BY <2>1, <2>2 DEF BurstsInv, Fresh, Recent
  <2> QED
    BY <2>1, <2>2 DEF BurstsInv
<1>7. CASE Buffer
  BY <1>2, <1>7 DEF Buffer, evaluator, builder
<1>8. CASE Review
  BY <1>2, <1>8 DEF Review, evaluator, builder
<1>9. CASE UNCHANGED vars
  BY <1>9 DEF vars, evaluator, builder, BurstsInv
<1> QED
  BY <1>3, <1>4, <1>5, <1>6, <1>7, <1>8, <1>9 DEF Next

\* LostOnlyInBursts: a conclusive outcome the builder never takes up came in a
\* run of the evaluator that made more outcomes than the builder looks at.
THEOREM LossesAreBursts == ASSUME ReviewAssumption PROVE Spec => []LostOnlyInBursts
<1>1. Spec => []CountInv
  BY Counted
<1>2. Init => BurstsInv
  BY DEF Init, BurstsInv
<1>3. CountInv /\ BurstsInv /\ [Next]_vars => BurstsInv'
  BY BurstsStep
<1>4. BurstsInv => LostOnlyInBursts
  BY DEF BurstsInv, LostOnlyInBursts
<1> QED
  BY <1>1, <1>2, <1>3, <1>4, PTL DEF Spec

-----------------------------------------------------------------------------
(* The loop of the review.                                                 *)

\* The states the loop over a list goes through.
RunOf(run, base, list, n) ==
    /\ run[0] = base
    /\ \A k \in 1 .. n : run[k] = ReviewOne(run[k - 1], list[k])
    /\ ReviewAll(base, list) = run[n]

\* The loop over a list goes through a state for each of its members.
LEMMA LoopRuns ==
  ASSUME NEW base, NEW list, NEW n \in Nat, DOMAIN list = 1 .. n
  PROVE  \E run : RunOf(run, base, list, n)
<1> DEFINE Runs(f, k) ==
              f = [s \in SUBSET (1 .. k) |->
                      IF s = {} THEN base ELSE ReviewOne(f[s \ {Max(s)}], list[Max(s)])]
           Good == {k \in Nat : \E f : Runs(f, k)}
<1>1. 0 \in Good
  <2> DEFINE f == [s \in SUBSET (1 .. 0) |-> base]
  <2>1. \A s \in SUBSET (1 .. 0) : s = {}
    OBVIOUS
  <2>2. Runs(f, 0)
    BY <2>1
  <2> QED
    BY <2>2
<1>2. ASSUME NEW k \in Nat, k \in Good PROVE k + 1 \in Good
  <2>1. PICK g : Runs(g, k)
    BY <1>2
  <2> DEFINE h == [s \in SUBSET (1 .. k + 1) |->
                      IF s = {} THEN base ELSE ReviewOne(g[s \ {Max(s)}], list[Max(s)])]
  <2>2. ASSUME NEW s \in SUBSET (1 .. k + 1), s # {} PROVE s \ {Max(s)} \in SUBSET (1 .. k)
    <3>1. Max(s) \in s /\ \A x \in s : x <= Max(s)
      <4>1. k + 1 \in Nat
        OBVIOUS
      <4> QED
        BY <2>2, <4>1, GreatestIs
    <3>2. ASSUME NEW x \in s, x # Max(s) PROVE x \in 1 .. k
      <4>1. x <= Max(s) /\ x \in 1 .. k + 1 /\ Max(s) \in 1 .. k + 1
        BY <3>1
      <4> QED
        BY <3>2, <4>1
    <3> QED
      BY <3>2
  <2>3. \A t \in SUBSET (1 .. k) : t \in SUBSET (1 .. k + 1)
    OBVIOUS
  <2>4. ASSUME NEW t \in SUBSET (1 .. k) PROVE h[t] = g[t]
    BY <2>1, <2>3
  <2>5. ASSUME NEW s \in SUBSET (1 .. k + 1), s # {} PROVE h[s \ {Max(s)}] = g[s \ {Max(s)}]
    BY <2>2, <2>4, <2>5
  <2>6. Runs(h, k + 1)
    <3>1. ASSUME NEW s \in SUBSET (1 .. k + 1)
          PROVE  (IF s = {} THEN base ELSE ReviewOne(g[s \ {Max(s)}], list[Max(s)]))
                    = (IF s = {} THEN base ELSE ReviewOne(h[s \ {Max(s)}], list[Max(s)]))
      <4>1. CASE s = {}
        BY <4>1
      <4>2. CASE s # {}
        <5>1. h[s \ {Max(s)}] = g[s \ {Max(s)}]
          BY <2>5, <4>2
        <5> HIDE DEF h
        <5> QED
          BY <5>1, <4>2
      <4> QED
        BY <4>1, <4>2
    <3> QED
      BY <3>1
  <2> HIDE DEF h, Runs
  <2>7. \E f : Runs(f, k + 1)
    BY <2>6
  <2> QED
    BY <2>7
<1>3. n \in Good
  <2> HIDE DEF Good
  <2> QED
    BY <1>1, <1>2, NatSets
<1> DEFINE iter == CHOOSE f : Runs(f, n)
<1>4. Runs(iter, n)
  BY <1>3
<1>5. ReviewAll(base, list) = iter[1 .. n]
  BY DEF ReviewAll, FoldLeft, MapThenFoldSet
<1> HIDE DEF iter
<1> DEFINE run == [k \in 0 .. n |-> iter[1 .. k]]
<1>6. run[0] = base
  <2>1. 1 .. 0 = {} /\ {} \in SUBSET (1 .. n)
    OBVIOUS
  <2> QED
    BY <1>4, <2>1
<1>7. ASSUME NEW k \in 1 .. n PROVE run[k] = ReviewOne(run[k - 1], list[k])
  <2>1. /\ (1 .. k) \in SUBSET (1 .. n) /\ k \in 1 .. k /\ k \in Nat /\ k - 1 \in 0 .. n
        /\ (1 .. k) \ {k} = 1 .. (k - 1)
    OBVIOUS
  <2>2. Max(1 .. k) = k
    <3> DEFINE S == 1 .. k
    <3>1. S \in SUBSET (1 .. k) /\ S # {} /\ k \in S
      BY <2>1
    <3>2. Max(S) \in S /\ k <= Max(S)
      BY <2>1, <3>1, GreatestIs
    <3> QED
      BY <2>1, <3>2
  <2>3. iter[1 .. k] = ReviewOne(iter[(1 .. k) \ {k}], list[k])
    BY <1>4, <2>1, <2>2
  <2>4. run[k] = iter[1 .. k] /\ run[k - 1] = iter[1 .. (k - 1)]
    BY <2>1
  <2> HIDE DEF run
  <2> QED
    BY <2>1, <2>3, <2>4
<1>8. ReviewAll(base, list) = run[n]
  BY <1>5
<1> HIDE DEF run
<1> QED
  BY <1>6, <1>7, <1>8 DEF RunOf

-----------------------------------------------------------------------------
(* What is announced.                                                      *)

\* The confidences of candidates add up to a number.
LEMMA ConfidencesAre ==
  ASSUME TypeOK, NEW ks \in SUBSET (1 .. Len(candidates))
  PROVE  Confidences(ks) \in Int /\ (ks = {} => Confidences(ks) = 0)
<1> DEFINE one(s) == CHOOSE x \in s : TRUE
           Small(m) == {t \in SUBSET ks : Cardinality(t) <= m}
           Sums(f, S) ==
              f = [s \in S |-> IF s = {} THEN 0 ELSE f[s \ {one(s)}] + candidates[one(s)].confidence]
           Good == {m \in Nat : \E f : Sums(f, Small(m))}
<1>1. \A s \in SUBSET ks : IsFiniteSet(s) /\ Cardinality(s) \in Nat
  BY CandidatesAreFinite
<1>2. \A s \in SUBSET ks : s # {} =>
         one(s) \in s /\ s \ {one(s)} \in SUBSET ks /\ candidates[one(s)].confidence \in Int
  <2>1. TAKE s \in SUBSET ks
  <2>2. HAVE s # {}
  <2>3. one(s) \in s
    BY <2>2
  <2> HIDE DEF one
  <2>4. candidates[one(s)] \in Candidate
    <3>1. one(s) \in 1 .. Len(candidates)
      BY <2>3
    <3> QED
      BY <3>1 DEF TypeOK
  <2> QED
    BY <2>3, <2>4 DEF Candidate
<1> HIDE DEF one
<1>3. ASSUME NEW s \in SUBSET ks, s # {} PROVE Cardinality(s \ {one(s)}) = Cardinality(s) - 1
  BY <1>1, <1>2, <1>3, FS_RemoveElement
<1>4. 0 \in Good
  <2> DEFINE f == [s \in Small(0) |-> 0]
  <2>1. \A s \in Small(0) : s = {}
    <3>1. TAKE s \in Small(0)
    <3>2. IsFiniteSet(s) /\ Cardinality(s) = 0
      BY <1>1
    <3> QED
      BY <3>2, FS_EmptySet
  <2>2. Sums(f, Small(0))
    BY <2>1
  <2> HIDE DEF f, Sums, Small
  <2> QED
    BY <2>2
<1>5. ASSUME NEW m \in Nat, m \in Good PROVE m + 1 \in Good
  <2>1. PICK g : Sums(g, Small(m))
    BY <1>5
  <2> DEFINE h == [s \in Small(m + 1) |->
                      IF s = {} THEN 0 ELSE g[s \ {one(s)}] + candidates[one(s)].confidence]
  <2>2. ASSUME NEW s \in Small(m + 1), s # {} PROVE s \ {one(s)} \in Small(m)
    BY <1>1, <1>2, <1>3, <2>2
  <2>3. \A t \in Small(m) : t \in Small(m + 1)
    BY <1>1
  <2>4. \A s \in Small(m + 1) : s \in SUBSET ks
    OBVIOUS
  <2> HIDE DEF Small
  <2>5. \A t \in Small(m) : h[t] = g[t]
    BY <2>1, <2>3
  <2>6. ASSUME NEW s \in Small(m + 1)
        PROVE  (IF s = {} THEN 0 ELSE g[s \ {one(s)}] + candidates[one(s)].confidence)
                  = (IF s = {} THEN 0 ELSE h[s \ {one(s)}] + candidates[one(s)].confidence)
    <3>1. CASE s = {}
      BY <3>1
    <3>2. CASE s # {}
      <4>1. h[s \ {one(s)}] = g[s \ {one(s)}]
        BY <2>2, <2>5, <3>2
      <4> HIDE DEF h
      <4> QED
        BY <4>1, <3>2
    <3> QED
      BY <3>1, <3>2
  <2>7. Sums(h, Small(m + 1))
    BY <2>6
  <2> HIDE DEF h, Sums
  <2>8. \E f : Sums(f, Small(m + 1))
    BY <2>7
  <2> QED
    BY <2>8
<1>6. Cardinality(ks) \in Good
  <2>1. Cardinality(ks) \in Nat
    BY <1>1
  <2> HIDE DEF Good
  <2> QED
    BY <1>4, <1>5, <2>1, NatSets
<1>7. Small(Cardinality(ks)) = SUBSET ks
  <2>1. ASSUME NEW t \in SUBSET ks PROVE Cardinality(t) <= Cardinality(ks)
    BY <1>1, FS_Subset
  <2> QED
    BY <2>1
<1> DEFINE iter == CHOOSE f : Sums(f, SUBSET ks)
<1>8. Sums(iter, SUBSET ks)
  <2>1. \E f : Sums(f, SUBSET ks)
    <3> HIDE DEF Sums, Small
    <3> QED
      BY <1>6, <1>7
  <2> HIDE DEF Sums
  <2> QED
    BY <2>1
<1>9. Confidences(ks) = iter[ks]
  BY DEF Confidences, FoldSet, MapThenFoldSet, one
<1> HIDE DEF iter
<1>10. \A s \in SUBSET ks :
          iter[s] = IF s = {} THEN 0 ELSE iter[s \ {one(s)}] + candidates[one(s)].confidence
  BY <1>8
<1> DEFINE Fine == {m \in Nat : \A s \in Small(m) : iter[s] \in Int}
<1>11. 0 \in Fine
  <2>1. \A s \in Small(0) : s = {}
    <3>1. TAKE s \in Small(0)
    <3>2. IsFiniteSet(s) /\ Cardinality(s) = 0
      BY <1>1
    <3> QED
      BY <3>2, FS_EmptySet
  <2>2. \A s \in Small(0) : iter[s] = 0
    BY <1>10, <2>1
  <2> HIDE DEF Small
  <2> QED
    BY <2>2
<1>12. ASSUME NEW m \in Nat, m \in Fine PROVE m + 1 \in Fine
  <2>1. ASSUME NEW s \in Small(m + 1), s # {} PROVE iter[s] \in Int
    <3>1. s \in SUBSET ks /\ s \ {one(s)} \in Small(m)
      BY <1>1, <1>2, <1>3, <2>1
    <3>2. iter[s \ {one(s)}] \in Int
      BY <1>12, <3>1
    <3>3. candidates[one(s)].confidence \in Int
      BY <1>2, <2>1, <3>1
    <3>4. iter[s] = iter[s \ {one(s)}] + candidates[one(s)].confidence
      BY <1>10, <2>1, <3>1
    <3> HIDE DEF Small
    <3> QED
      BY <3>2, <3>3, <3>4
  <2>2. ASSUME NEW s \in Small(m + 1), s = {} PROVE iter[s] \in Int
    <3>1. iter[s] = 0
      BY <1>10, <2>2
    <3> QED
      BY <3>1
  <2> HIDE DEF Small
  <2> QED
    BY <2>1, <2>2
<1>13. Cardinality(ks) \in Fine
  <2>1. Cardinality(ks) \in Nat
    BY <1>1
  <2> HIDE DEF Fine
  <2> QED
    BY <1>11, <1>12, <2>1, NatSets
<1>14. iter[ks] \in Int
  BY <1>7, <1>13
<1> QED
  BY <1>9, <1>10, <1>14

Group == [support : Nat, confidence : Int, evidence : SUBSET Nat, emitted : Nat]
Announcement == [signature : Signatures, support : Nat, confidence : Int, evidence : SUBSET Nat]

\* Announcements are snapshots of groups: what they show stays true.
ReadyInv ==
    /\ groups \in [Signatures -> Group] /\ ready \in Seq(Announcement)
    /\ \A k \in 1 .. Len(ready) :
          /\ ready[k].support = Cardinality(ready[k].evidence)
          /\ ready[k].evidence \subseteq groups[ready[k].signature].evidence

\* An announcement has more support than those before it, and the last one of
\* a group that is ready has all there is.
AnnouncedInv ==
    /\ \A sig \in Signatures :
          /\ groups[sig].emitted <= groups[sig].support
          /\ Ready(sig, groups[sig]) => groups[sig].emitted = groups[sig].support
          /\ groups[sig].emitted # 0 =>
                \E k \in 1 .. Len(ready) :
                    ready[k].signature = sig /\ ready[k].support = groups[sig].emitted
    /\ \A k \in 1 .. Len(ready) :
          ready[k].support > 0 /\ ready[k].support <= groups[ready[k].signature].emitted
    /\ \A k, l \in 1 .. Len(ready) :
          k < l /\ ready[k].signature = ready[l].signature => ready[k].support < ready[l].support

LEMMA GrownTyped ==
  ASSUME CountInv, ReadyInv, NEW sig \in Signatures
  PROVE  /\ Grown(sig).support \in Nat /\ Grown(sig).support >= groups[sig].support
         /\ Grown(sig).confidence \in Int /\ Grown(sig).evidence \in SUBSET Nat
         /\ groups[sig].support \in Nat /\ groups[sig].emitted \in Nat
         /\ groups[sig].evidence \subseteq Grown(sig).evidence
         /\ (\A k \in NewCandidates : CandidateSignature(candidates[k]) # sig) =>
               Grown(sig).support = groups[sig].support
               /\ Grown(sig).confidence = groups[sig].confidence
<1>1. groups[sig] \in Group
  BY DEF ReadyInv
<1>2. /\ groups[sig].support \in Nat /\ groups[sig].confidence \in Int
      /\ groups[sig].evidence \in SUBSET Nat /\ groups[sig].emitted \in Nat
  BY <1>1 DEF Group
<1> DEFINE ks == Joins(sig)
<1>3. ks \in SUBSET (1 .. Len(candidates))
  BY DEF Joins, NewCandidates, Recent
<1>4. Cardinality(ks) \in Nat /\ (ks = {} => Cardinality(ks) = 0)
  <2>1. Cardinality(ks) \in Nat
    BY <1>3, CandidatesAreFinite DEF CountInv
  <2>2. ks = {} => Cardinality(ks) = 0
    BY FS_EmptySet
  <2> QED
    BY <2>1, <2>2
<1>5. Confidences(ks) \in Int /\ (ks = {} => Confidences(ks) = 0)
  BY <1>3, ConfidencesAre DEF CountInv
<1>6. Grown(sig).confidence = groups[sig].confidence + Confidences(ks)
  BY DEF Grown, Joins
<1>7. /\ Grown(sig).support = groups[sig].support + Cardinality(ks)
      /\ Grown(sig).evidence = groups[sig].evidence \cup SourcesOf(ks)
  BY GrownIs
<1>8. SourcesOf(ks) \in SUBSET Nat
  <2>1. ASSUME NEW k \in ks PROVE outcomes[candidates[k].outcome].source \in Nat
    <3>1. candidates[k].outcome \in handled
      BY <1>3 DEF CountInv, CandidatesInv
    <3>2. candidates[k].outcome \in 1 .. Len(outcomes)
      BY <3>1 DEF CountInv, TypeOK
    <3>3. outcomes[candidates[k].outcome] \in Outcome
      BY <3>2 DEF CountInv, TypeOK
    <3> QED
      BY <3>3 DEF Outcome
  <2> QED
    BY <2>1 DEF SourcesOf
<1>9. (\A k \in NewCandidates : CandidateSignature(candidates[k]) # sig) => ks = {}
  BY DEF Joins
<1> HIDE DEF ks
<1>10. Grown(sig).support \in Nat /\ Grown(sig).support >= groups[sig].support
  BY <1>2, <1>4, <1>7
<1>11. Grown(sig).confidence \in Int /\ Grown(sig).evidence \in SUBSET Nat
  BY <1>2, <1>5, <1>6, <1>7, <1>8
<1>12. ks = {} => Grown(sig).support = groups[sig].support
                  /\ Grown(sig).confidence = groups[sig].confidence
  BY <1>2, <1>4, <1>5, <1>6, <1>7
<1> QED
  BY <1>2, <1>7, <1>9, <1>10, <1>11, <1>12

\* Only the buffer changes groups and announces them.
LEMMA AnnouncedElsewhere ==
  ASSUME [Next]_vars
  PROVE  Buffer \/ UNCHANGED <<groups, ready>>
BY DEF Next, Work, SwitchMode, Evaluate, Build, Review, buffer, vars

\* The announcements of a run of the buffer.
LEMMA BufferTells ==
  ASSUME ReviewAssumption, CountInv, ReadyInv, Buffer
  PROVE  \E told \in Seq(Signatures) :
            /\ ready' \in Seq(Announcement) /\ Len(ready) \in Nat /\ Len(told) \in Nat
            /\ Len(ready') = Len(ready) + Len(told)
            /\ \A k \in 1 .. Len(ready) : k \in 1 .. Len(ready') /\ ready'[k] = ready[k]
            /\ \A i \in 1 .. Len(told) :
                  LET c == ready'[Len(ready) + i]
                  IN  /\ Len(ready) + i \in 1 .. Len(ready') /\ Announced(told[i])
                      /\ c.signature = told[i] /\ c.support = Grown(told[i]).support
                      /\ c.evidence = Grown(told[i]).evidence
            /\ \A k \in 1 .. Len(ready') : k \notin 1 .. Len(ready) =>
                  k - Len(ready) \in 1 .. Len(told) /\ Len(ready) + (k - Len(ready)) = k
            /\ \A sig \in Signatures : Announced(sig) => \E i \in 1 .. Len(told) : told[i] = sig
            /\ \A i, j \in 1 .. Len(told) : told[i] = told[j] => i = j
<1>1. PICK told \in Seq(Signatures) :
         /\ ready' = ready \o
               [i \in 1 .. Len(told) |->
                   [signature |-> told[i], support |-> Grown(told[i]).support,
                    confidence |-> Grown(told[i]).confidence,
                    evidence |-> Grown(told[i]).evidence]]
         /\ \A i \in 1 .. Len(told) : Announced(told[i])
         /\ \A sig \in Signatures : Announced(sig) => \E i \in 1 .. Len(told) : told[i] = sig
         /\ \A i, j \in 1 .. Len(told) : told[i] = told[j] => i = j
  BY BufferAnnounces
<1> DEFINE item(i) == [signature |-> told[i], support |-> Grown(told[i]).support,
                       confidence |-> Grown(told[i]).confidence,
                       evidence |-> Grown(told[i]).evidence]
           new == [i \in 1 .. Len(told) |-> item(i)]
<1>2. ready' = ready \o new
  BY <1>1
<1>3. ASSUME NEW i \in 1 .. Len(told)
      PROVE  /\ item(i) \in Announcement
             /\ item(i).signature = told[i] /\ item(i).support = Grown(told[i]).support
             /\ item(i).evidence = Grown(told[i]).evidence
  <2>1. told[i] \in Signatures
    OBVIOUS
  <2>2. /\ Grown(told[i]).support \in Nat /\ Grown(told[i]).confidence \in Int
        /\ Grown(told[i]).evidence \in SUBSET Nat
    BY <2>1, GrownTyped
  <2> QED
    BY <2>1, <2>2 DEF Announcement
<1> HIDE DEF item
<1>4. new \in Seq(Announcement) /\ Len(new) = Len(told) /\ Len(told) \in Nat
      /\ \A i \in 1 .. Len(told) : new[i] = item(i)
  BY <1>3
<1> HIDE DEF new
<1>5. ready \in Seq(Announcement)
  BY DEF ReadyInv
<1>6. /\ ready' \in Seq(Announcement) /\ Len(ready) \in Nat
      /\ Len(ready') = Len(ready) + Len(told)
      /\ \A k \in 1 .. Len(ready) : ready'[k] = ready[k]
      /\ \A i \in 1 .. Len(told) : ready'[Len(ready) + i] = new[i]
  <2> DEFINE T == Announcement
  <2>2. ready \in Seq(T) /\ new \in Seq(T)
    BY <1>4, <1>5
  <2> HIDE DEF T
  <2>3. /\ ready \o new \in Seq(T) /\ Len(ready) \in Nat
        /\ Len(ready \o new) = Len(ready) + Len(new)
        /\ \A k \in 1 .. Len(ready) : (ready \o new)[k] = ready[k]
        /\ \A i \in 1 .. Len(new) : (ready \o new)[Len(ready) + i] = new[i]
    BY <2>2, Joined
  <2>1. /\ ready \o new \in Seq(Announcement) /\ Len(ready) \in Nat
        /\ Len(ready \o new) = Len(ready) + Len(new)
        /\ \A k \in 1 .. Len(ready) : (ready \o new)[k] = ready[k]
        /\ \A i \in 1 .. Len(new) : (ready \o new)[Len(ready) + i] = new[i]
    BY <2>3 DEF T
  <2> QED
    BY <1>2, <1>4, <2>1
<1>7. \A k \in 1 .. Len(ready) : k \in 1 .. Len(ready')
  BY <1>4, <1>6
<1>8. \A i \in 1 .. Len(told) : Len(ready) + i \in 1 .. Len(ready')
  BY <1>4, <1>6
<1>9. \A k \in 1 .. Len(ready') : k \notin 1 .. Len(ready) =>
         k - Len(ready) \in 1 .. Len(told) /\ Len(ready) + (k - Len(ready)) = k
  BY <1>4, <1>6
<1>10. \A i \in 1 .. Len(told) :
          LET c == ready'[Len(ready) + i]
          IN  c.signature = told[i] /\ c.support = Grown(told[i]).support
              /\ c.evidence = Grown(told[i]).evidence
  BY <1>3, <1>4, <1>6
<1> QED
  BY <1>1, <1>4, <1>6, <1>7, <1>8, <1>9, <1>10

SupportHolds == \A sig \in Signatures : groups[sig].support = Cardinality(groups[sig].evidence)

LEMMA SupportIsCardinality == CountInv => SupportHolds
BY SupportIs DEF SupportHolds

LEMMA ReadyStep ==
  ASSUME ReviewAssumption, CountInv, ReadyInv, [Next]_vars
  PROVE  ReadyInv'
<1>1. CASE UNCHANGED <<groups, ready>>
  BY <1>1 DEF ReadyInv
<1>2. CASE Buffer
  <2>1. PICK told \in Seq(Signatures) :
           /\ ready' \in Seq(Announcement) /\ Len(ready) \in Nat
           /\ \A k \in 1 .. Len(ready) : ready'[k] = ready[k]
           /\ \A i \in 1 .. Len(told) :
                 LET c == ready'[Len(ready) + i]
                 IN  /\ c.signature = told[i] /\ c.support = Grown(told[i]).support
                     /\ c.evidence = Grown(told[i]).evidence
           /\ \A k \in 1 .. Len(ready') : k \notin 1 .. Len(ready) =>
                 k - Len(ready) \in 1 .. Len(told) /\ Len(ready) + (k - Len(ready)) = k
    BY <1>2, BufferTells
  <2>2. CountInv'
    BY <1>2, BufferCounts
  <2>3. \A sig \in Signatures : groups'[sig].support = Cardinality(groups'[sig].evidence)
    <3>1. CountInv' => SupportHolds'
      BY SupportIsCardinality, PTL
    <3> QED
      BY <2>2, <3>1 DEF SupportHolds
  <2>4. ASSUME NEW sig \in Signatures
        PROVE  /\ groups'[sig] \in Group
               /\ groups'[sig].support = Grown(sig).support
               /\ groups'[sig].evidence = Grown(sig).evidence
               /\ groups[sig].evidence \subseteq groups'[sig].evidence
    <3> DEFINE g == groups'[sig]
    <3>1. /\ g = [support |-> g.support, confidence |-> g.confidence,
                  evidence |-> g.evidence, emitted |-> g.emitted]
          /\ g.support = Grown(sig).support /\ g.confidence = Grown(sig).confidence
          /\ g.evidence = Grown(sig).evidence
          /\ g.emitted = IF Announced(sig) THEN Grown(sig).support ELSE groups[sig].emitted
      BY <1>2, BufferGrows
    <3>2. /\ Grown(sig).support \in Nat /\ Grown(sig).confidence \in Int
          /\ Grown(sig).evidence \in SUBSET Nat /\ groups[sig].emitted \in Nat
          /\ groups[sig].evidence \subseteq Grown(sig).evidence
      BY GrownTyped
    <3> HIDE DEF g
    <3>3. g.support \in Nat /\ g.confidence \in Int /\ g.evidence \in SUBSET Nat /\ g.emitted \in Nat
      BY <3>1, <3>2
    <3>4. g \in Group
      BY <3>1, <3>3 DEF Group
    <3> QED
      BY <3>1, <3>2, <3>4 DEF g
  <2>5. groups' \in [Signatures -> Group]
    <3>1. groups' = [sig \in Signatures |-> groups'[sig]]
      BY <1>2 DEF Buffer
    <3> QED
      BY <2>4, <3>1
  <2>6. ASSUME NEW k \in 1 .. Len(ready')
        PROVE  /\ ready'[k].support = Cardinality(ready'[k].evidence)
               /\ ready'[k].evidence \subseteq groups'[ready'[k].signature].evidence
    <3>1. CASE k \in 1 .. Len(ready)
      <4>1. ready[k] \in Announcement
        BY <3>1 DEF ReadyInv
      <4>2. ready[k].signature \in Signatures
        BY <4>1 DEF Announcement
      <4> QED
        BY <2>1, <2>4, <3>1, <4>2 DEF ReadyInv
    <3>2. CASE k \notin 1 .. Len(ready)
      <4>1. PICK i \in 1 .. Len(told) : Len(ready) + i = k
        BY <2>1, <3>2
      <4>2. told[i] \in Signatures
        OBVIOUS
      <4>3. /\ ready'[k].signature = told[i] /\ ready'[k].support = Grown(told[i]).support
            /\ ready'[k].evidence = Grown(told[i]).evidence
        BY <2>1, <4>1
      <4> QED
        BY <2>3, <2>4, <4>2, <4>3
    <3> QED
      BY <3>1, <3>2
  <2> QED
    BY <2>1, <2>5, <2>6 DEF ReadyInv
<1> QED
  BY <1>1, <1>2, AnnouncedElsewhere

\* Whether a group is ready does not depend on what was announced.
LEMMA ReadyReads ==
  ASSUME NEW sig, NEW g, NEW h, g.support = h.support, g.confidence = h.confidence
  PROVE  Ready(sig, g) <=> Ready(sig, h)
BY DEF Ready

LEMMA AnnouncedStep ==
  ASSUME ReviewAssumption, CountInv, ReadyInv, AnnouncedInv, [Next]_vars
  PROVE  AnnouncedInv'
<1>1. CASE UNCHANGED <<groups, ready>>
  BY <1>1 DEF AnnouncedInv, Ready
<1>2. CASE Buffer
  <2>1. PICK told \in Seq(Signatures) :
           /\ ready' \in Seq(Announcement) /\ Len(ready) \in Nat
           /\ \A k \in 1 .. Len(ready) : k \in 1 .. Len(ready') /\ ready'[k] = ready[k]
           /\ \A i \in 1 .. Len(told) :
                 LET c == ready'[Len(ready) + i]
                 IN  /\ Len(ready) + i \in 1 .. Len(ready') /\ Announced(told[i])
                     /\ c.signature = told[i] /\ c.support = Grown(told[i]).support
           /\ \A k \in 1 .. Len(ready') : k \notin 1 .. Len(ready) =>
                 k - Len(ready) \in 1 .. Len(told) /\ Len(ready) + (k - Len(ready)) = k
           /\ \A sig \in Signatures : Announced(sig) => \E i \in 1 .. Len(told) : told[i] = sig
           /\ \A i, j \in 1 .. Len(told) : told[i] = told[j] => i = j
    BY <1>2, BufferTells
  <2>2. ASSUME NEW sig \in Signatures
        PROVE  /\ groups'[sig].support = Grown(sig).support
               /\ groups'[sig].confidence = Grown(sig).confidence
               /\ groups'[sig].emitted = IF Announced(sig) THEN Grown(sig).support ELSE groups[sig].emitted
               /\ Grown(sig).support \in Nat /\ groups[sig].support \in Nat /\ groups[sig].emitted \in Nat
               /\ Grown(sig).support >= groups[sig].support
               /\ (\A k \in NewCandidates : CandidateSignature(candidates[k]) # sig) =>
                     Grown(sig).support = groups[sig].support
                     /\ Grown(sig).confidence = groups[sig].confidence
               /\ Announced(sig) => Grown(sig).support > groups[sig].emitted
    <3>1. Announced(sig) => Grown(sig).support > Grown(sig).emitted
      BY DEF Announced, Announces
    <3>2. Grown(sig).emitted = groups[sig].emitted
      BY GrownIs
    <3> QED
      BY <1>2, <3>1, <3>2, BufferGrows, GrownTyped
  <2>3. \A k \in 1 .. Len(ready) :
           /\ ready[k].signature \in Signatures /\ ready[k].support \in Nat /\ ready[k].support > 0
           /\ ready[k].support <= groups[ready[k].signature].emitted
    <3>1. TAKE k \in 1 .. Len(ready)
    <3>2. ready[k] \in Announcement
      BY DEF ReadyInv
    <3> QED
      BY <3>2 DEF Announcement, AnnouncedInv
  <2>4. \A k \in 1 .. Len(ready') : k \notin 1 .. Len(ready) =>
           \E i \in 1 .. Len(told) :
              /\ k = Len(ready) + i /\ Announced(told[i]) /\ told[i] \in Signatures
              /\ ready'[k].signature = told[i] /\ ready'[k].support = Grown(told[i]).support
    <3>1. TAKE k \in 1 .. Len(ready')
    <3>2. HAVE k \notin 1 .. Len(ready)
    <3>3. PICK i \in 1 .. Len(told) : k = Len(ready) + i
      BY <2>1, <3>2
    <3>4. told[i] \in Signatures
      OBVIOUS
    <3> QED
      BY <2>1, <3>3, <3>4
  <2>5. ASSUME NEW sig \in Signatures
        PROVE  /\ groups'[sig].emitted <= groups'[sig].support
               /\ Ready(sig, groups'[sig]) => groups'[sig].emitted = groups'[sig].support
               /\ groups'[sig].emitted # 0 =>
                     \E k \in 1 .. Len(ready') :
                        ready'[k].signature = sig /\ ready'[k].support = groups'[sig].emitted
    <3>1. CASE Announced(sig)
      <4>1. groups'[sig].emitted = Grown(sig).support /\ groups'[sig].support = Grown(sig).support
        BY <2>2, <3>1
      <4>2. PICK i \in 1 .. Len(told) : told[i] = sig
        BY <2>1, <3>1
      <4>3. /\ Len(ready) + i \in 1 .. Len(ready') /\ ready'[Len(ready) + i].signature = sig
            /\ ready'[Len(ready) + i].support = Grown(sig).support
        BY <2>1, <4>2
      <4> QED
        BY <2>2, <4>1, <4>3
    <3>2. CASE ~ Announced(sig)
      <4>1. groups'[sig].emitted = groups[sig].emitted
        BY <2>2, <3>2
      <4>2. groups[sig].emitted <= groups[sig].support
        BY DEF AnnouncedInv
      <4>3. groups'[sig].emitted <= groups'[sig].support
        BY <2>2, <4>1, <4>2
      <4>4. ASSUME Ready(sig, groups'[sig]) PROVE groups'[sig].emitted = groups'[sig].support
        <5>1. CASE \A k \in NewCandidates : CandidateSignature(candidates[k]) # sig
          <6>1. groups'[sig].support = groups[sig].support
                /\ groups'[sig].confidence = groups[sig].confidence
            BY <2>2, <5>1
          <6>2. Ready(sig, groups[sig])
            BY <4>4, <6>1, ReadyReads
          <6> QED
            BY <4>1, <6>1, <6>2 DEF AnnouncedInv
        <5>2. CASE \E k \in NewCandidates : CandidateSignature(candidates[k]) = sig
          <6>1. Ready(sig, Grown(sig))
            BY <2>2, <4>4, ReadyReads
          <6>2. ~ (Grown(sig).support > Grown(sig).emitted)
            BY <3>2, <5>2, <6>1 DEF Announced, Announces
          <6>3. Grown(sig).emitted = groups[sig].emitted
            BY GrownIs
          <6> QED
            BY <2>2, <4>1, <4>3, <6>2, <6>3
        <5> QED
          BY <5>1, <5>2
      <4>5. groups[sig].emitted # 0 =>
              \E k \in 1 .. Len(ready) :
                  ready[k].signature = sig /\ ready[k].support = groups[sig].emitted
        BY DEF AnnouncedInv
      <4> QED
        BY <2>1, <4>1, <4>3, <4>4, <4>5
    <3> QED
      BY <3>1, <3>2
  <2>6. ASSUME NEW k \in 1 .. Len(ready')
        PROVE  ready'[k].support > 0 /\ ready'[k].support <= groups'[ready'[k].signature].emitted
    <3>1. CASE k \in 1 .. Len(ready)
      <4> DEFINE sig == ready[k].signature
      <4>1. sig \in Signatures /\ ready[k].support \in Nat /\ ready[k].support > 0
            /\ ready[k].support <= groups[sig].emitted /\ ready'[k] = ready[k]
        BY <2>1, <2>3, <3>1
      <4> HIDE DEF sig
      <4>2. groups[sig].emitted <= groups'[sig].emitted /\ groups'[sig].emitted \in Nat /\ groups[sig].emitted \in Nat
        BY <2>2, <4>1
      <4>3. ready[k].support <= groups'[sig].emitted
        BY <4>1, <4>2
      <4> QED
        BY <4>1, <4>3 DEF sig
    <3>2. CASE k \notin 1 .. Len(ready)
      <4>1. PICK i \in 1 .. Len(told) :
              /\ Announced(told[i]) /\ told[i] \in Signatures
              /\ ready'[k].signature = told[i] /\ ready'[k].support = Grown(told[i]).support
        BY <2>4, <3>2
      <4> DEFINE sig == told[i]
      <4>2. /\ sig \in Signatures /\ Announced(sig)
            /\ ready'[k].signature = sig /\ ready'[k].support = Grown(sig).support
        BY <4>1
      <4> HIDE DEF sig
      <4>3. /\ groups'[sig].emitted = Grown(sig).support /\ Grown(sig).support > groups[sig].emitted
            /\ groups[sig].emitted \in Nat /\ Grown(sig).support \in Nat
        BY <2>2, <4>2
      <4> QED
        BY <4>2, <4>3
    <3> QED
      BY <3>1, <3>2
  <2>7. ASSUME NEW k \in 1 .. Len(ready'), NEW l \in 1 .. Len(ready'),
               k < l, ready'[k].signature = ready'[l].signature
        PROVE  ready'[k].support < ready'[l].support
    <3>1. CASE k \in 1 .. Len(ready) /\ l \in 1 .. Len(ready)
      BY <2>1, <2>7, <3>1 DEF AnnouncedInv
    <3>2. CASE k \in 1 .. Len(ready) /\ l \notin 1 .. Len(ready)
      <4>1. PICK i \in 1 .. Len(told) :
              /\ Announced(told[i]) /\ told[i] \in Signatures
              /\ ready'[l].signature = told[i] /\ ready'[l].support = Grown(told[i]).support
        BY <2>4, <3>2
      <4> DEFINE sig == told[i]
      <4>2. /\ sig \in Signatures /\ Announced(sig)
            /\ ready'[l].signature = sig /\ ready'[l].support = Grown(sig).support
        BY <4>1
      <4> HIDE DEF sig
      <4>3. Grown(sig).support > groups[sig].emitted /\ groups[sig].emitted \in Nat /\ Grown(sig).support \in Nat
        BY <2>2, <4>2
      <4>4. ready'[k] = ready[k] /\ ready[k].support \in Nat
            /\ ready[k].support <= groups[ready[k].signature].emitted
        BY <2>1, <2>3, <3>2
      <4>5. ready[k].signature = sig
        BY <2>7, <4>2, <4>4
      <4> QED
        BY <4>2, <4>3, <4>4, <4>5
    <3>3. CASE k \notin 1 .. Len(ready) /\ l \in 1 .. Len(ready)
      BY <2>1, <2>7, <3>3
    <3>4. CASE k \notin 1 .. Len(ready) /\ l \notin 1 .. Len(ready)
      <4>1. PICK i \in 1 .. Len(told) : k = Len(ready) + i /\ ready'[k].signature = told[i]
        BY <2>4, <3>4
      <4>2. PICK j \in 1 .. Len(told) : l = Len(ready) + j /\ ready'[l].signature = told[j]
        BY <2>4, <3>4
      <4>3. i = j
        BY <2>1, <2>7, <4>1, <4>2
      <4> QED
        BY <2>1, <2>7, <4>1, <4>2, <4>3
    <3> QED
      BY <3>1, <3>2, <3>3, <3>4
  <2> QED
    BY <2>5, <2>6, <2>7 DEF AnnouncedInv
<1> QED
  BY <1>1, <1>2, AnnouncedElsewhere

-----------------------------------------------------------------------------
(* What is approved.                                                       *)

ReviewStatuses == {"rejected_duplicate", "rejected_incomplete_core", "rejected_unstable",
                   "needs_more_support", "approved_for_expsm"}
MemoryReview == [signature : Signatures, status : ReviewStatuses, support : Nat,
                 evidence : SUBSET Nat]

\* r, a and rs are what the reviewer remembers and has said: of every group
\* the support of its last review, which is at most what was announced.
Sound(r, a, rs, announcements, gs) ==
    /\ r \in [Signatures -> Nat] /\ a \in [Signatures -> Nat] /\ rs \in Seq(MemoryReview)
    /\ \A sig \in Signatures : a[sig] <= r[sig] /\ r[sig] <= gs[sig].emitted
    /\ \A i \in 1 .. Len(rs) :
          /\ rs[i].support <= r[rs[i].signature]
          /\ rs[i].status # "rejected_duplicate"
          /\ rs[i].status = "approved_for_expsm" =>
                /\ rs[i].support >= 2 /\ rs[i].signature[1] \in {"confirmed", "failed"}
                /\ Complete(rs[i].signature[2])
          /\ \E k \in 1 .. Len(announcements) :
                /\ announcements[k].signature = rs[i].signature
                /\ announcements[k].support = rs[i].support
                /\ announcements[k].evidence = rs[i].evidence
    /\ \A i, j \in 1 .. Len(rs) :
          i < j /\ rs[i].signature = rs[j].signature => rs[i].support < rs[j].support

ReviewsInv == Sound(reviewed, approved, reviews, ready, groups)

\* What _classify says of an announcement with more support than was approved.
LEMMA ClassifyEarns ==
  ASSUME NEW c \in Announcement, NEW best \in Nat, best < c.support
  PROVE  /\ Classify(c, best) \in ReviewStatuses /\ Classify(c, best) # "rejected_duplicate"
         /\ Classify(c, best) = "approved_for_expsm" =>
               /\ c.support >= 2 /\ c.signature[1] \in {"confirmed", "failed"}
               /\ Complete(c.signature[2])
<1>1. c.support \in Nat /\ c.signature \in Signatures /\ c.confidence \in Int
  BY DEF Announcement
<1>2. c.signature[1] \in Statuses
  BY <1>1 DEF Signatures
<1>3. ~ (best >= c.support)
  BY <1>1
<1> DEFINE v == Valence[c.signature[1]]
<1>4. v > 15 => c.signature[1] = "confirmed"
  BY <1>2 DEF Valence, Statuses
<1>5. v < -15 => c.signature[1] = "failed"
  BY <1>2 DEF Valence, Statuses
<1> HIDE DEF v
<1>6. Classify(c, best) \in ReviewStatuses /\ Classify(c, best) # "rejected_duplicate"
  BY <1>3 DEF Classify, ReviewStatuses
<1>7. Classify(c, best) = "approved_for_expsm" =>
         c.support >= 2 /\ (v > 15 \/ v < -15) /\ Complete(c.signature[2])
  <2>1. ~ Complete(c.signature[2]) => Classify(c, best) = "rejected_incomplete_core"
    BY <1>3 DEF Classify, Complete
  <2>2. Complete(c.signature[2]) /\ ~ (c.support >= 2) => Classify(c, best) # "approved_for_expsm"
    BY <1>3 DEF Classify, Complete
  <2>3. Complete(c.signature[2]) /\ ~ (v > 15) /\ ~ (v < -15) => Classify(c, best) # "approved_for_expsm"
    BY <1>3 DEF Classify, Complete, v
  <2> QED
    BY <2>1, <2>2, <2>3
<1> QED
  BY <1>4, <1>5, <1>6, <1>7

\* One pass of the loop, over an announcement, keeps what the reviewer knows.
LEMMA PassKeeps ==
  ASSUME ReadyInv, AnnouncedInv, NEW s, NEW k \in 1 .. Len(ready),
         Sound(s.reviewed, s.approved, s.reviews, ready, groups)
  PROVE  LET t == ReviewOne(s, ready[k])
         IN  /\ Sound(t.reviewed, t.approved, t.reviews, ready, groups)
             /\ \A sig \in Signatures : t.reviewed[sig] >= s.reviewed[sig]
             /\ t.reviewed[ready[k].signature] >= ready[k].support
<1> DEFINE c == ready[k]
           sig == c.signature
           status == Classify(c, s.approved[sig])
           t == ReviewOne(s, c)
<1>1. c \in Announcement
  BY DEF ReadyInv
<1>2. sig \in Signatures /\ c.support \in Nat /\ c.evidence \in SUBSET Nat
  BY <1>1 DEF Announcement
<1>3. /\ s.reviewed \in [Signatures -> Nat] /\ s.approved \in [Signatures -> Nat]
      /\ s.reviews \in Seq(MemoryReview)
      /\ s.reviewed[sig] \in Nat /\ s.approved[sig] \in Nat /\ s.approved[sig] <= s.reviewed[sig]
  BY <1>2 DEF Sound
<1>4. CASE s.reviewed[sig] >= c.support
  <2>1. t = s
    BY <1>4 DEF ReviewOne
  <2>2. \A x \in Signatures : s.reviewed[x] >= s.reviewed[x]
    BY <1>3
  <2> QED
    BY <1>4, <2>1, <2>2
<1>5. CASE ~ (s.reviewed[sig] >= c.support)
  <2> DEFINE review == [signature |-> sig, status |-> status, support |-> c.support,
                        evidence |-> c.evidence]
             r == [s.reviewed EXCEPT ![sig] = c.support]
             a == IF status = "approved_for_expsm"
                  THEN [s.approved EXCEPT ![sig] = c.support] ELSE s.approved
             rs == Append(s.reviews, review)
  <2>1. t = [reviewed |-> r, approved |-> a, reviews |-> rs]
    BY <1>5 DEF ReviewOne
  <2>2. t.reviewed = r /\ t.approved = a /\ t.reviews = rs
    BY <2>1
  <2>3. s.reviewed[sig] < c.support /\ s.approved[sig] < c.support
    BY <1>2, <1>3, <1>5
  <2>4. /\ status \in ReviewStatuses /\ status # "rejected_duplicate"
        /\ status = "approved_for_expsm" =>
              c.support >= 2 /\ sig[1] \in {"confirmed", "failed"} /\ Complete(sig[2])
    BY <1>1, <1>3, <2>3, ClassifyEarns
  <2>5. c.support <= groups[sig].emitted
    BY DEF AnnouncedInv
  <2>6. review \in MemoryReview /\ review.signature = sig /\ review.status = status
        /\ review.support = c.support /\ review.evidence = c.evidence
    BY <1>2, <2>4 DEF MemoryReview
  <2>7. /\ r \in [Signatures -> Nat] /\ r[sig] = c.support
        /\ \A x \in Signatures : x # sig => r[x] = s.reviewed[x]
    BY <1>2, <1>3
  <2>8. /\ a \in [Signatures -> Nat] /\ (a[sig] = c.support \/ a[sig] = s.approved[sig])
        /\ \A x \in Signatures : x # sig => a[x] = s.approved[x]
    BY <1>2, <1>3
  <2> HIDE DEF review, r, a, status
  <2> DEFINE n == Len(s.reviews)
  <2>9. /\ rs \in Seq(MemoryReview) /\ Len(rs) = n + 1 /\ n \in Nat
        /\ rs[n + 1] = review /\ \A i \in 1 .. n : rs[i] = s.reviews[i]
    BY <1>3, <2>6
  <2> HIDE DEF rs
  <2>10. \A x \in Signatures :
            /\ r[x] \in Nat /\ s.reviewed[x] \in Nat
            /\ a[x] <= r[x] /\ r[x] <= groups[x].emitted /\ r[x] >= s.reviewed[x]
    <3>1. TAKE x \in Signatures
    <3>2. s.reviewed[x] \in Nat /\ s.approved[x] \in Nat
          /\ s.approved[x] <= s.reviewed[x] /\ s.reviewed[x] <= groups[x].emitted
      BY <1>3 DEF Sound
    <3>3. CASE x = sig
      BY <1>2, <1>3, <2>3, <2>5, <2>7, <2>8, <3>3
    <3>4. CASE x # sig
      BY <2>7, <2>8, <3>2, <3>4
    <3> QED
      BY <3>3, <3>4
  <2>11. \A i \in 1 .. n :
            /\ s.reviews[i].signature \in Signatures /\ s.reviews[i].support \in Nat
            /\ s.reviews[i].support <= s.reviewed[s.reviews[i].signature]
    <3>1. TAKE i \in 1 .. n
    <3>2. s.reviews[i] \in MemoryReview
      BY <1>3
    <3> QED
      BY <3>2 DEF MemoryReview, Sound
  <2>12. ASSUME NEW i \in 1 .. Len(rs)
         PROVE  /\ rs[i].support <= r[rs[i].signature]
                /\ rs[i].status # "rejected_duplicate"
                /\ rs[i].status = "approved_for_expsm" =>
                      /\ rs[i].support >= 2 /\ rs[i].signature[1] \in {"confirmed", "failed"}
                      /\ Complete(rs[i].signature[2])
                /\ \E l \in 1 .. Len(ready) :
                      /\ ready[l].signature = rs[i].signature
                      /\ ready[l].support = rs[i].support
                      /\ ready[l].evidence = rs[i].evidence
    <3>1. CASE i \in 1 .. n
      <4>1. rs[i] = s.reviews[i]
        BY <2>9, <3>1
      <4>2. s.reviews[i].support <= r[s.reviews[i].signature]
        <5> DEFINE x == s.reviews[i].signature
        <5>1. x \in Signatures /\ s.reviews[i].support \in Nat /\ s.reviews[i].support <= s.reviewed[x]
          BY <2>11, <3>1
        <5> HIDE DEF x
        <5>2. s.reviews[i].support <= r[x]
          BY <2>10, <5>1
        <5> QED
          BY <5>2 DEF x
      <4> QED
        BY <3>1, <4>1, <4>2 DEF Sound
    <3>2. CASE i = n + 1
      <4>1. rs[i] = review
        BY <2>9, <3>2
      <4>2. c.support <= r[sig]
        BY <1>2, <2>7
      <4> QED
        BY <2>4, <2>6, <4>1, <4>2
    <3> QED
      BY <2>9, <3>1, <3>2
  <2>13. ASSUME NEW i \in 1 .. Len(rs), NEW j \in 1 .. Len(rs), i < j,
                rs[i].signature = rs[j].signature
         PROVE  rs[i].support < rs[j].support
    <3>1. i \in 1 .. n
      BY <2>9, <2>13
    <3>2. CASE j \in 1 .. n
      BY <2>9, <2>13, <3>1, <3>2 DEF Sound
    <3>3. CASE j = n + 1
      <4>1. rs[j] = review /\ rs[i] = s.reviews[i]
        BY <2>9, <3>1, <3>3
      <4>2. s.reviews[i].signature = sig
        BY <2>6, <2>13, <4>1
      <4>3. s.reviews[i].support \in Nat /\ s.reviews[i].support <= s.reviewed[sig]
        BY <2>11, <3>1, <4>2
      <4> QED
        BY <1>2, <1>3, <2>3, <2>6, <4>1, <4>3
    <3> QED
      BY <2>9, <3>2, <3>3
  <2>14. Sound(r, a, rs, ready, groups)
    BY <2>7, <2>8, <2>9, <2>10, <2>12, <2>13 DEF Sound
  <2>15. c.support <= r[sig] /\ r[sig] >= c.support
    BY <1>2, <2>7
  <2> QED
    BY <2>2, <2>10, <2>14, <2>15
<1> QED
  BY <1>4, <1>5

\* The slice of the last n of a list, and the window it is of.
LEMMA SliceIs ==
  ASSUME NEW T, NEW s \in Seq(T), NEW n \in Nat \ {0}
  PROVE  /\ Len(Slice(s, n)) \in Nat /\ DOMAIN Slice(s, n) = 1 .. Len(Slice(s, n))
         /\ \A j \in 1 .. Len(Slice(s, n)) : \E k \in 1 .. Len(s) : Slice(s, n)[j] = s[k]
         /\ \A k \in Recent(s, n) : \E j \in 1 .. Len(Slice(s, n)) : Slice(s, n)[j] = s[k]
<1> DEFINE from == IF Len(s) > n THEN Len(s) - n + 1 ELSE 1
           m == Len(s) - from + 1
           part == SubSeq(s, from, Len(s))
<1>1. /\ Len(s) \in Nat /\ from \in Nat /\ from >= 1 /\ from <= Len(s) + 1 /\ m \in Nat
      /\ \A k \in Recent(s, n) : k \in 1 .. Len(s) /\ k >= from
  BY DEF Recent
<1>2. Slice(s, n) = part
  BY DEF Slice
<1>3. m = Len(s) - from + 1
  OBVIOUS
<1> HIDE DEF from, m
<1>4. /\ part \in Seq(T) /\ Len(part) = m /\ DOMAIN part = 1 .. m
      /\ \A j \in 1 .. m : part[j] = s[from + j - 1]
  BY <1>1, <1>3
<1>5. \A j \in 1 .. m : from + j - 1 \in 1 .. Len(s)
  BY <1>1, <1>3
<1>6. \A k \in Recent(s, n) : k - from + 1 \in 1 .. m /\ from + (k - from + 1) - 1 = k
  BY <1>1, <1>3
<1> HIDE DEF part
<1> QED
  BY <1>1, <1>2, <1>4, <1>5, <1>6

\* The review as a whole: what it knows stays sound, and it has reviewed all
\* the support of every recent announcement.
LEMMA ReviewRuns ==
  ASSUME ReviewAssumption, ReadyInv, AnnouncedInv, ReviewsInv, Review
  PROVE  /\ Sound(reviewed', approved', reviews', ready, groups)
         /\ \A k \in Recent(ready, ReadyWindow) : reviewed'[ready[k].signature] >= ready[k].support
<1> DEFINE list == Slice(ready, ReadyWindow)
           base == [reviewed |-> reviewed, approved |-> approved, reviews |-> reviews]
           n == Len(list)
<1>1. ready \in Seq(Announcement) /\ ReadyWindow \in Nat \ {0}
  BY DEF ReadyInv, ReviewAssumption
<1>2. /\ n \in Nat /\ DOMAIN list = 1 .. n
      /\ \A j \in 1 .. n : \E k \in 1 .. Len(ready) : list[j] = ready[k]
      /\ \A k \in Recent(ready, ReadyWindow) : \E j \in 1 .. n : list[j] = ready[k]
  BY <1>1, SliceIs
<1>3. /\ reviewed' = ReviewAll(base, list).reviewed
      /\ approved' = ReviewAll(base, list).approved
      /\ reviews' = ReviewAll(base, list).reviews
  BY DEF Review
<1>4. Sound(base.reviewed, base.approved, base.reviews, ready, groups)
  BY DEF ReviewsInv
<1> HIDE DEF list, base, n
<1>5. n \in Nat /\ DOMAIN list = 1 .. n
  BY <1>2
<1>6. PICK run : RunOf(run, base, list, n)
  BY <1>5, LoopRuns
<1>7. /\ run[0] = base
      /\ \A k \in 1 .. n : run[k] = ReviewOne(run[k - 1], list[k])
      /\ ReviewAll(base, list) = run[n]
  BY <1>6 DEF RunOf
<1> DEFINE Fine(m) == /\ Sound(run[m].reviewed, run[m].approved, run[m].reviews, ready, groups)
                      /\ \A j \in 1 .. m : run[m].reviewed[list[j].signature] >= list[j].support
           Good == {m \in Nat : m <= n => Fine(m)}
<1>8. 0 \in Good
  BY <1>4, <1>7
<1>9. ASSUME NEW m \in Nat, m \in Good PROVE m + 1 \in Good
  <2>1. ASSUME m + 1 <= n PROVE Fine(m + 1)
    <3>1. m <= n /\ m + 1 \in 1 .. n /\ (m + 1) - 1 = m
      BY <1>2, <2>1
    <3>2. Fine(m)
      BY <1>9, <3>1
    <3>3. run[m + 1] = ReviewOne(run[m], list[m + 1])
      BY <1>7, <3>1
    <3>4. PICK k \in 1 .. Len(ready) : list[m + 1] = ready[k]
      BY <1>2, <3>1
    <3> DEFINE s == run[m]
               t == run[m + 1]
    <3>5. /\ Sound(t.reviewed, t.approved, t.reviews, ready, groups)
          /\ \A sig \in Signatures : t.reviewed[sig] >= s.reviewed[sig]
          /\ t.reviewed[ready[k].signature] >= ready[k].support
      BY <3>2, <3>3, <3>4, PassKeeps
    <3>6. \A j \in 1 .. m : s.reviewed[list[j].signature] >= list[j].support
      BY <3>2
    <3>7. s.reviewed \in [Signatures -> Nat] /\ t.reviewed \in [Signatures -> Nat]
      BY <3>2, <3>5 DEF Sound
    <3>8. \A j \in 1 .. n : list[j].signature \in Signatures /\ list[j].support \in Nat
      <4>1. TAKE j \in 1 .. n
      <4>2. list[j] \in Announcement
        BY <1>1, <1>2
      <4> QED
        BY <4>2 DEF Announcement
    <3> HIDE DEF s, t
    <3>9. \A j \in 1 .. m + 1 : t.reviewed[list[j].signature] >= list[j].support
      <4>1. TAKE j \in 1 .. m + 1
      <4>2. CASE j = m + 1
        BY <3>4, <3>5, <4>2
      <4>3. CASE j \in 1 .. m
        <5> DEFINE sig == list[j].signature
                   x == t.reviewed[sig]
                   y == s.reviewed[sig]
                   z == list[j].support
        <5>1. j \in 1 .. n /\ sig \in Signatures /\ z \in Nat
          BY <1>2, <3>1, <3>8, <4>3
        <5>2. x \in Nat /\ y \in Nat /\ x >= y /\ y >= z
          BY <3>5, <3>6, <3>7, <4>3, <5>1
        <5> HIDE DEF x, y, z
        <5>3. x >= z
          BY <5>1, <5>2
        <5> QED
          BY <5>3 DEF x, z
      <4> QED
        BY <4>2, <4>3
    <3> QED
      BY <3>5, <3>9 DEF t
  <2> HIDE DEF Fine
  <2> QED
    BY <2>1
<1>10. n \in Good
  <2> HIDE DEF Good
  <2> QED
    BY <1>2, <1>8, <1>9, NatSets
<1>11. Fine(n)
  <2> HIDE DEF Fine
  <2> QED
    BY <1>2, <1>10
<1> QED
  BY <1>2, <1>3, <1>7, <1>11

LEMMA ReviewsStep ==
  ASSUME ReviewAssumption, CountInv, ReadyInv, AnnouncedInv, ReviewsInv, [Next]_vars
  PROVE  ReviewsInv'
<1>1. CASE Review
  <2>1. Sound(reviewed', approved', reviews', ready, groups)
    BY <1>1, ReviewRuns
  <2> QED
    BY <1>1, <2>1 DEF ReviewsInv, Review, buffer
<1>2. CASE Buffer
  <2>1. PICK told \in Seq(Signatures) :
           \A k \in 1 .. Len(ready) : k \in 1 .. Len(ready') /\ ready'[k] = ready[k]
    BY <1>2, BufferTells
  <2>2. ASSUME NEW sig \in Signatures PROVE reviewed[sig] <= groups'[sig].emitted
    <3>1. reviewed[sig] \in Nat /\ reviewed[sig] <= groups[sig].emitted
      BY DEF ReviewsInv, Sound
    <3>2. groups'[sig].emitted = IF Announced(sig) THEN Grown(sig).support ELSE groups[sig].emitted
      BY <1>2, BufferGrows
    <3>3. Grown(sig).support \in Nat /\ Grown(sig).support >= groups[sig].support
          /\ groups[sig].support \in Nat /\ groups[sig].emitted \in Nat
      BY GrownTyped
    <3>4. groups[sig].emitted <= groups[sig].support
      BY DEF AnnouncedInv
    <3> QED
      BY <3>1, <3>2, <3>3, <3>4
  <2>3. UNCHANGED <<reviewed, approved, reviews>>
    BY <1>2 DEF Buffer, reviewer
  <2>4. Sound(reviewed, approved, reviews, ready', groups')
    <3>1. ASSUME NEW i \in 1 .. Len(reviews)
          PROVE  \E k \in 1 .. Len(ready') :
                    /\ ready'[k].signature = reviews[i].signature
                    /\ ready'[k].support = reviews[i].support
                    /\ ready'[k].evidence = reviews[i].evidence
      <4>1. PICK k \in 1 .. Len(ready) :
                    /\ ready[k].signature = reviews[i].signature
                    /\ ready[k].support = reviews[i].support
                    /\ ready[k].evidence = reviews[i].evidence
        BY DEF ReviewsInv, Sound
      <4> QED
        BY <2>1, <4>1
    <3> DEFINE later == ready'
               gs == groups'
    <3>2. /\ \A sig \in Signatures : reviewed[sig] <= gs[sig].emitted
          /\ \A i \in 1 .. Len(reviews) : \E k \in 1 .. Len(later) :
                    /\ later[k].signature = reviews[i].signature
                    /\ later[k].support = reviews[i].support
                    /\ later[k].evidence = reviews[i].evidence
      BY <2>2, <3>1
    <3> HIDE DEF later, gs
    <3>3. Sound(reviewed, approved, reviews, later, gs)
      BY <3>2 DEF ReviewsInv, Sound
    <3> QED
      BY <3>3 DEF later, gs
  <2> QED
    BY <2>3, <2>4 DEF ReviewsInv
<1>3. CASE UNCHANGED <<reviewed, approved, reviews, ready, groups>>
  BY <1>3 DEF ReviewsInv
<1>4. Review \/ Buffer \/ UNCHANGED <<reviewed, approved, reviews, ready, groups>>
  BY DEF Next, Work, SwitchMode, Evaluate, Build, buffer, reviewer, vars
<1> QED
  BY <1>1, <1>2, <1>3, <1>4

KnownInv == ReadyInv /\ AnnouncedInv /\ ReviewsInv

LEMMA KnownInit == ASSUME ReviewAssumption, Init PROVE KnownInv
<1>1. /\ ready = <<>> /\ reviews = <<>>
      /\ groups = [sig \in Signatures |-> EmptyGroup]
      /\ reviewed = [sig \in Signatures |-> 0] /\ approved = [sig \in Signatures |-> 0]
  BY DEF Init
<1>2. EmptyGroup \in Group /\ EmptyGroup.support = 0 /\ EmptyGroup.emitted = 0
  BY DEF EmptyGroup, Group
<1>3. ready \in Seq(Announcement) /\ Len(ready) = 0
  BY <1>1
<1>4. reviews \in Seq(MemoryReview) /\ Len(reviews) = 0
  BY <1>1
<1>5. ReadyInv
  BY <1>1, <1>2, <1>3 DEF ReadyInv
<1>6. AnnouncedInv
  BY <1>1, <1>2, <1>3 DEF AnnouncedInv
<1>7. ReviewsInv
  BY <1>1, <1>2, <1>3, <1>4 DEF ReviewsInv, Sound
<1> QED
  BY <1>5, <1>6, <1>7 DEF KnownInv

LEMMA Known == ASSUME ReviewAssumption PROVE Spec => [](CountInv /\ KnownInv)
<1>1. Init => CountInv /\ KnownInv
  BY TypeInit, KnownInit
<1>2. CountInv /\ KnownInv /\ [Next]_vars => KnownInv'
  <2>1. CountInv /\ KnownInv /\ [Next]_vars => ReadyInv' /\ AnnouncedInv' /\ ReviewsInv'
    BY ReadyStep, AnnouncedStep, ReviewsStep DEF KnownInv
  <2> QED
    BY <2>1 DEF KnownInv
<1>3. CountInv /\ [Next]_vars => CountInv'
  BY CountStep
<1> QED
  BY <1>1, <1>2, <1>3, PTL DEF Spec

\* The events behind a group came out as its signature says.
LEMMA EvidenceIsAlike ==
  ASSUME CountInv, NEW sig \in Signatures, NEW e \in groups[sig].evidence,
         NEW j \in 1 .. Len(outcomes), outcomes[j].source = e
  PROVE  SignatureOf(outcomes[j]) = sig
<1>1. PICK k \in Members(sig) : e = outcomes[candidates[k].outcome].source
  BY DEF CountInv, GroupsInv, SourcesOf
<1>2. k \in 1 .. Len(candidates) /\ CandidateSignature(candidates[k]) = sig
  BY <1>1 DEF CountInv, TypeOK, Members
<1>3. candidates[k].outcome \in 1 .. Len(outcomes)
  BY <1>2 DEF CountInv, TypeOK, CandidatesInv
<1>4. candidates[k].outcome = j
  BY <1>1, <1>3 DEF CountInv, OutcomesInv
<1> QED
  BY <1>2, <1>4 DEF CandidateSignature

J == INSTANCE OutcomeJudgement

\* What can be seen of a prediction, a decision or an effect.
Seen(e) ==
    \/ e.kind = "prediction" /\ IsFiniteSet(e.predicted)
    \/ e.kind = "decision"
    \/ /\ e.kind = "effect" /\ e.activation \in Int
       /\ IsFiniteSet(DOMAIN e.expects) /\ Len(e.thoughts) \in Nat

\* The verdicts are those of OutcomeJudgement on such events.
JudgedFrom(Events) ==
    /\ \A e \in Events : Seen(e)
    /\ \A kind \in Kinds : \A v \in Verdicts[kind] :
          \E e \in Events : v.status = J!Judge(e).status /\ v.borne = J!Borne(e)

\* The instance has the operators of FiniteSets under names of its own.
LEMMA SameSize == \A S : J!Cardinality(S) = Cardinality(S)
BY DEF J!Cardinality, Cardinality

LEMMA ShareIsBounded ==
  ASSUME NEW c \in Nat, NEW n \in Nat \ {0}, c <= n
  PROVE  (100 * c) \div n \in Nat /\ (100 * c) \div n <= 100
<1> DEFINE q == (100 * c) \div n
<1>1. q \in Int /\ n * q <= 100 * c /\ 100 * c < n * (q + 1)
  OBVIOUS
<1>2. 100 * c <= n * 100
  OBVIOUS
<1> HIDE DEF q
<1>3. q <= 100
  <2>1. SUFFICES ASSUME q >= 101 PROVE FALSE
    BY <1>1
  <2>2. n * q >= n * 101
    BY <1>1, <2>1
  <2>3. n * 101 = n * 100 + n
    OBVIOUS
  <2> QED
    BY <1>1, <1>2, <2>2, <2>3
<1>4. q >= 0
  <2>1. SUFFICES ASSUME q <= -1 PROVE FALSE
    BY <1>1
  <2>2. n * (q + 1) <= 0
    BY <1>1, <2>1
  <2> QED
    BY <1>1, <2>2
<1> QED
  BY <1>1, <1>3, <1>4 DEF q

\* The tone bears out all of what was expected of it at most.
LEMMA ToneIsBounded ==
  ASSUME NEW e, IsFiniteSet(DOMAIN e.expects)
  PROVE  /\ J!ToneSupport(e) \in Nat /\ J!ToneSupport(e) <= 100
         /\ DOMAIN e.expects = {} => J!ToneSupport(e) = 0
<1> DEFINE D == DOMAIN e.expects
           Came(d) == \/ e.expects[d] > 0 /\ e.now[d] > e.before[d]
                      \/ e.expects[d] < 0 /\ e.now[d] < e.before[d]
                      \/ e.expects[d] = 0
           C == {d \in D : Came(d)}
<1>1. C \subseteq D
  OBVIOUS
<1>2. J!ToneSupport(e) = IF D = {} THEN 0 ELSE (100 * Cardinality(C)) \div Cardinality(D)
  BY SameSize, Zenon DEF J!ToneSupport
<1> HIDE DEF C, D
<1>3. IsFiniteSet(D)
  BY DEF D
<1>4. IsFiniteSet(C) /\ Cardinality(C) <= Cardinality(D)
  BY <1>1, <1>3, FS_Subset
<1>5. Cardinality(C) \in Nat /\ Cardinality(D) \in Nat
  BY <1>3, <1>4, FS_CardinalityType
<1>6. D # {} => Cardinality(D) # 0
  BY <1>3, FS_EmptySet
<1>7. CASE D = {}
  BY <1>2, <1>7 DEF D
<1>8. CASE D # {}
  BY <1>2, <1>4, <1>5, <1>6, <1>8, ShareIsBounded DEF D
<1> QED
  BY <1>7, <1>8

\* What is confirmed was borne out by more than the tone and, of a
\* prediction, by something other than the prediction itself.
LEMMA ConfirmedIsBorne ==
  ASSUME NEW e, Seen(e), J!Judge(e).status = "confirmed"
  PROVE  J!Borne(e)
<1>1. CASE e.kind = "prediction"
  <2> DEFINE matched == {p \in e.predicted \cap DOMAIN e.shown : J!Confirming(e.shown[p])}
             ratio == (100 * Cardinality(matched)) \div Cardinality(e.predicted)
  <2>1. J!OfPrediction(e).status = "confirmed"
    BY <1>1 DEF J!Judge
  <2>2. e.predicted # {} /\ ratio >= 60
    <3> DEFINE tone == J!ToneSupport(e)
    <3>1. J!OfPrediction(e) =
            IF e.predicted = {}
            THEN IF DOMAIN e.expects = {} THEN J!Unclear(10)
                 ELSE IF tone >= 60 THEN J!Verdict("partially_confirmed", tone) ELSE J!Unclear(20)
            ELSE IF ratio >= 60 THEN J!Verdict("confirmed", J!Greater(65, ratio))
            ELSE IF ratio >= 25 \/ tone >= 50
                 THEN J!Verdict("partially_confirmed",
                                J!Greater(J!Greater(35, ratio), (60 * tone) \div 100))
            ELSE IF e.age >= e.ttl THEN J!Verdict("failed", 65) ELSE J!Unclear(25)
      BY SameSize, Zenon DEF J!OfPrediction
    <3>2. \A status, confidence : J!Verdict(status, confidence).status = status
      BY DEF J!Verdict
    <3>3. \A confidence : J!Unclear(confidence).status = "inconclusive"
      BY <3>2 DEF J!Unclear
    <3> HIDE DEF ratio, tone
    <3> QED
      BY <2>1, <3>1, <3>2, <3>3
  <2>3. Cardinality(e.predicted) \in Nat \ {0}
    <3>1. IsFiniteSet(e.predicted)
      BY <1>1 DEF Seen
    <3> QED
      BY <2>2, <3>1, FS_CardinalityType, FS_EmptySet
  <2>4. matched # {}
    <3>1. SUFFICES ASSUME matched = {} PROVE FALSE
      OBVIOUS
    <3>2. Cardinality(matched) = 0
      BY <3>1, FS_EmptySet
    <3> HIDE DEF matched
    <3>3. ratio = 0
      BY <2>3, <3>2
    <3> QED
      BY <2>2, <3>3
  <2>5. PICK p \in e.predicted \cap DOMAIN e.shown : J!Confirming(e.shown[p])
    BY <2>4
  <2>6. \E i \in DOMAIN e.shown[p] : ~ e.shown[p][i].own /\ e.shown[p][i].after > 0
    BY <2>5 DEF J!Confirming
  <2> QED
    BY <1>1, <2>5, <2>6 DEF J!Borne
<1>2. CASE e.kind = "decision"
  <2>1. J!OfDecision(e).status = "confirmed"
    BY <1>2 DEF J!Judge
  <2>2. e.effect \in e.effects
    BY <2>1 DEF J!OfDecision, J!Verdict, J!Unclear
  <2> QED
    BY <1>2, <2>2 DEF J!Borne
<1>3. CASE e.kind = "effect"
  <2>1. J!OfEffect(e).status = "confirmed"
    BY <1>3 DEF J!Judge
  <2>2. e.activation \in Int /\ IsFiniteSet(DOMAIN e.expects) /\ Len(e.thoughts) \in Nat
    BY <1>3 DEF Seen
  <2>3. SUFFICES ASSUME ~ J!Borne(e) PROVE FALSE
    OBVIOUS
  <2>4. /\ ~ (e.activation > 0) /\ ~ e.memory
        /\ \A i \in DOMAIN e.thoughts : ~ J!Appeared(e.thoughts[i])
    BY <1>3, <2>3 DEF J!Borne
  <2> DEFINE arrived == {i \in DOMAIN e.thoughts : J!Appeared(e.thoughts[i])}
             came == J!Cardinality(arrived)
             tone == J!ToneSupport(e)
             length == Len(e.thoughts)
             checks == 1 + length + (IF e.memory THEN 1 ELSE 0)
                         + (IF DOMAIN e.expects = {} THEN 0 ELSE 1)
             confirmations == (IF e.activation >= 25 THEN 100 ELSE 0) + 100 * came
                                + (IF e.memory THEN 100 ELSE 0) + tone
             ratio == confirmations \div checks
  <2>5. ratio >= 60
    <3>1. J!OfEffect(e) =
            IF ratio >= 60 THEN J!Verdict("confirmed", J!Greater(60, ratio))
            ELSE IF ratio >= 25 THEN J!Verdict("partially_confirmed", J!Greater(35, ratio))
            ELSE J!Verdict("failed", 60)
      BY DEF J!OfEffect
    <3>2. \A status, confidence : J!Verdict(status, confidence).status = status
      BY DEF J!Verdict
    <3> HIDE DEF ratio
    <3> QED
      BY <2>1, <3>1, <3>2
  <2>6. came = 0
    <3>1. arrived = {}
      BY <2>4
    <3> HIDE DEF arrived
    <3>2. Cardinality(arrived) = 0
      BY <3>1, FS_EmptySet
    <3> QED
      BY <3>2, SameSize
  <2>7. tone \in Nat /\ tone <= 100 /\ (DOMAIN e.expects = {} => tone = 0)
    BY <2>2, ToneIsBounded
  <2>8. length \in Nat
    BY <2>2
  <2> HIDE DEF arrived, came, tone, length
  <2>9. confirmations = tone
    BY <2>2, <2>4, <2>6, <2>7
  <2>10. checks = IF DOMAIN e.expects = {} THEN 1 + length ELSE 2 + length
    BY <2>4, <2>8
  <2> HIDE DEF checks, confirmations
  <2>11. CASE DOMAIN e.expects = {}
    <3>1. tone = 0 /\ checks \in Nat \ {0}
      BY <2>7, <2>8, <2>10, <2>11
    <3> QED
      BY <2>5, <2>9, <3>1
  <2>12. CASE DOMAIN e.expects # {}
    <3>1. checks \in Nat /\ checks >= 2
      BY <2>8, <2>10, <2>12
    <3>2. ratio \in Int /\ checks * ratio <= tone
      BY <2>7, <2>9, <3>1
    <3> HIDE DEF ratio
    <3>3. checks * ratio >= 2 * ratio
      BY <2>5, <3>1, <3>2
    <3> QED
      BY <2>5, <2>7, <3>1, <3>2, <3>3
  <2> QED
    BY <2>11, <2>12
<1> QED
  BY <1>1, <1>2, <1>3 DEF Seen

LEMMA ApprovalsFollow ==
  ASSUME ReviewAssumption, NEW Events, JudgedFrom(Events), CountInv, KnownInv
  PROVE  ApprovalsAreEarned
<1> SUFFICES ASSUME NEW i \in 1 .. Len(reviews), reviews[i].status = "approved_for_expsm"
             PROVE  LET r == reviews[i]
                    IN  /\ Cardinality(r.evidence) >= 2 /\ r.signature[1] \in {"confirmed", "failed"}
                        /\ Complete(r.signature[2])
                        /\ \E k \in 1 .. Len(ready) : ready[k].evidence = r.evidence
                        /\ r.signature[1] = "confirmed" =>
                              \A j \in 1 .. Len(outcomes) :
                                  outcomes[j].source \in r.evidence => outcomes[j].borne
  BY DEF ApprovalsAreEarned
<1> DEFINE r == reviews[i]
<1>1. /\ r.support >= 2 /\ r.signature[1] \in {"confirmed", "failed"} /\ Complete(r.signature[2])
      /\ \E k \in 1 .. Len(ready) :
            /\ ready[k].signature = r.signature
            /\ ready[k].support = r.support
            /\ ready[k].evidence = r.evidence
  BY DEF KnownInv, ReviewsInv, Sound
<1>2. PICK k \in 1 .. Len(ready) :
            /\ ready[k].signature = r.signature
            /\ ready[k].support = r.support
            /\ ready[k].evidence = r.evidence
  BY <1>1
<1>3. /\ ready[k].support = Cardinality(ready[k].evidence)
      /\ ready[k].evidence \subseteq groups[ready[k].signature].evidence
      /\ ready[k] \in Announcement
  BY DEF KnownInv, ReadyInv
<1>4. ready[k].signature \in Signatures
  BY <1>3 DEF Announcement
<1>5. ASSUME r.signature[1] = "confirmed", NEW j \in 1 .. Len(outcomes), outcomes[j].source \in r.evidence
      PROVE  outcomes[j].borne
  <2> DEFINE kind == sources[outcomes[j].source].kind
  <2>1. SignatureOf(outcomes[j]) = r.signature
    BY <1>2, <1>3, <1>4, <1>5, EvidenceIsAlike
  <2>2. outcomes[j].status = "confirmed" /\ Complete(CoreOf[kind])
    BY <1>1, <1>5, <2>1 DEF SignatureOf
  <2>3. outcomes[j].source \in 1 .. Len(sources)
    BY DEF CountInv, TypeOK, OutcomesInv
  <2>4. kind \in Kinds
    <3>1. sources[outcomes[j].source] \in Event
      BY <2>3 DEF CountInv, TypeOK
    <3> QED
      BY <3>1 DEF Event
  <2>5. PICK v \in Verdicts[kind] : v.status = outcomes[j].status /\ v.borne = outcomes[j].borne
    BY DEF CountInv, OutcomesInv
  <2> HIDE DEF kind
  <2>6. PICK e \in Events : v.status = J!Judge(e).status /\ v.borne = J!Borne(e)
    BY <2>4, <2>5 DEF JudgedFrom
  <2>7. Seen(e) /\ J!Judge(e).status = "confirmed"
    BY <2>2, <2>5, <2>6 DEF JudgedFrom
  <2>8. J!Borne(e)
    BY <2>7, ConfirmedIsBorne
  <2> QED
    BY <2>5, <2>6, <2>8
<1> HIDE DEF r
<1>6. Cardinality(r.evidence) >= 2
  BY <1>1, <1>2, <1>3
<1> QED
  BY <1>1, <1>2, <1>5, <1>6 DEF r

\* ApprovalsAreEarned: what is approved for ExpSM rests on at least two events
\* that came out the same way, names a decision with its effect or a
\* prediction, and if it is approved as confirmed every event behind it was
\* borne out by more than the tone it expected and, of a prediction, by more
\* than the prediction itself, whatever events OutcomeEvaluator judges.
THEOREM ApprovalsEarned ==
  ASSUME ReviewAssumption, NEW Events, JudgedFrom(Events)
  PROVE  Spec => []ApprovalsAreEarned
<1>1. Spec => [](CountInv /\ KnownInv)
  BY Known
<1>2. CountInv /\ KnownInv => ApprovalsAreEarned
  BY ApprovalsFollow
<1> QED
  BY <1>1, <1>2, PTL

\* The announcements of one group follow one another with more support each:
\* one with all that is announced of it is within any window that holds one.
LEMMA LastIsRecent ==
  ASSUME ReviewAssumption, KnownInv, NEW k \in Recent(ready, ReadyWindow)
  PROVE  \E l \in Recent(ready, ReadyWindow) :
            /\ ready[l].signature = ready[k].signature
            /\ ready[l].support = groups[ready[k].signature].emitted
<1> DEFINE sig == ready[k].signature
           last == groups[sig].emitted
<1>1. k \in 1 .. Len(ready) /\ k > Len(ready) - ReadyWindow
  BY DEF Recent
<1>2. /\ Len(ready) \in Nat /\ ReadyWindow \in Nat
      /\ ready[k] \in Announcement
  BY <1>1 DEF KnownInv, ReadyInv, ReviewAssumption
<1>3. sig \in Signatures /\ ready[k].support \in Nat
  BY <1>2 DEF Announcement
<1>4. last \in Nat
  BY <1>3 DEF KnownInv, ReadyInv, Group
<1>5. ready[k].support > 0 /\ ready[k].support <= last
  BY <1>1 DEF KnownInv, AnnouncedInv
<1>6. last # 0
  BY <1>3, <1>4, <1>5
<1>7. PICK l \in 1 .. Len(ready) : ready[l].signature = sig /\ ready[l].support = last
  BY <1>3, <1>6 DEF KnownInv, AnnouncedInv
<1>8. l < k => last < ready[k].support
  BY <1>1, <1>7 DEF KnownInv, AnnouncedInv
<1> HIDE DEF last, sig
<1>9. l >= k
  BY <1>1, <1>3, <1>4, <1>5, <1>8
<1>10. l \in Recent(ready, ReadyWindow)
  BY <1>1, <1>2, <1>7, <1>9 DEF Recent
<1> QED
  BY <1>7, <1>10 DEF sig, last

LEMMA ReviewReaches ==
  ASSUME ReviewAssumption, CountInv, KnownInv, [Next]_vars
  PROVE  ReviewCatchesUp \/ UNCHANGED vars
<1> SUFFICES ASSUME Next, pc = "review", NEW k \in Recent(ready, ReadyWindow)
             PROVE  LET sig == ready[k].signature
                    IN  reviewed'[sig] = IF Ready(sig, groups[sig])
                                         THEN groups[sig].support ELSE groups[sig].emitted
  BY DEF ReviewCatchesUp
<1> DEFINE sig == ready[k].signature
<1>1. Review
  BY DEF Next, Work, SwitchMode, Evaluate, Build, Buffer
<1>2. /\ Sound(reviewed', approved', reviews', ready, groups)
      /\ \A l \in Recent(ready, ReadyWindow) : reviewed'[ready[l].signature] >= ready[l].support
  BY <1>1, ReviewRuns DEF KnownInv
<1>3. PICK l \in Recent(ready, ReadyWindow) :
            ready[l].signature = sig /\ ready[l].support = groups[sig].emitted
  BY LastIsRecent
<1>4. k \in 1 .. Len(ready)
  BY DEF Recent
<1>5. sig \in Signatures
  <2>1. ready[k] \in Announcement
    BY <1>4 DEF KnownInv, ReadyInv
  <2> QED
    BY <2>1 DEF Announcement
<1>6. groups[sig].emitted \in Nat
  BY <1>5 DEF KnownInv, ReadyInv, Group
<1>7. reviewed'[sig] \in Nat /\ reviewed'[sig] <= groups[sig].emitted
  BY <1>2, <1>5 DEF Sound
<1>8. reviewed'[sig] >= groups[sig].emitted
  BY <1>2, <1>3
<1>9. Ready(sig, groups[sig]) => groups[sig].emitted = groups[sig].support
  BY <1>5 DEF KnownInv, AnnouncedInv
<1> HIDE DEF sig
<1>10. reviewed'[sig] = groups[sig].emitted
  BY <1>6, <1>7, <1>8
<1> QED
  BY <1>9, <1>10 DEF sig

LEMMA ReviewsSayNew == KnownInv => ReviewsSaySomethingNew
<1> SUFFICES ASSUME KnownInv, NEW j \in 1 .. Len(reviews)
             PROVE  /\ reviews[j].status /= "rejected_duplicate"
                    /\ \A i \in 1 .. j - 1 :
                          reviews[i].signature = reviews[j].signature
                              => reviews[i].support < reviews[j].support
  BY DEF ReviewsSaySomethingNew
<1>1. reviews \in Seq(MemoryReview)
  BY DEF KnownInv, ReviewsInv, Sound
<1>2. Len(reviews) \in Nat
  BY <1>1
<1>3. \A i \in 1 .. j - 1 : i \in 1 .. Len(reviews) /\ i < j
  BY <1>2
<1> QED
  BY <1>3 DEF KnownInv, ReviewsInv, Sound

\* ReviewsCatchUp: a tick of consolidation leaves no group of the recent
\* announcements behind, and a later review of a group has more support.
THEOREM ReviewsDoCatchUp == ASSUME ReviewAssumption PROVE Spec => ReviewsCatchUp
<1>1. Spec => [](CountInv /\ KnownInv)
  BY Known
<1>2. CountInv /\ KnownInv => ReviewsSaySomethingNew
  BY ReviewsSayNew
<1>3. CountInv /\ KnownInv /\ [Next]_vars => ReviewCatchesUp \/ UNCHANGED vars
  BY ReviewReaches
<1> QED
  BY <1>1, <1>2, <1>3, PTL DEF Spec, ReviewsCatchUp

=============================================================================
