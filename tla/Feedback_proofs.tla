--------------------------- MODULE Feedback_proofs ---------------------------
(***************************************************************************)
(* Proofs about OutcomeFeedback and about ValueFeedback, for any           *)
(* experiences, evidence, windows, cooldowns and bounds: first how outcomes *)
(* are counted, then how values are learned.                                *)
(***************************************************************************)
EXTENDS OutcomeFeedback, ValueFeedback, Positions_proofs

-----------------------------------------------------------------------------
(* The invariant.                                                          *)

Statuses == {"confirmed", "failed", "inconclusive"}
Keys == {"activation", "search"} \X Nat \X Nat

PredictionEvent == [type : {"prediction"}, tick : Nat]
ActivationEvent == [type : {"activation"}, experience : Experiences, tick : Nat]
DecisionEvent ==
    [type : {"decision"}, source : Sources, experience : Experiences \cup {"none"}, ref : Nat,
     links : SUBSET Nat, tick : Nat]
OutcomeEvent == [type : {"outcome"}, of : Nat, status : Statuses, tick : Nat]
Event == PredictionEvent \cup ActivationEvent \cup DecisionEvent \cup OutcomeEvent

Counters == [hits : Nat, misses : Nat, applied : Seq(Keys)]
Told ==
    [experience : Experiences, key : Keys, process : Nat, hit : BOOLEAN, source : Sources,
     owner : Experiences \cup {"none"}, ref : Nat, own : BOOLEAN]

\* What an event rests on is in the log, and not later.
Grounded(log, e) ==
    /\ e.type = "decision" =>
          /\ e.source # "rule" => e.experience \in Experiences
          /\ e.source = "expsm_activation" =>
                /\ e.ref \in 1 .. Len(log) /\ log[e.ref].type = "activation"
                /\ log[e.ref].experience = e.experience /\ log[e.ref].tick <= e.tick
    /\ e.type = "outcome" =>
          /\ e.of \in 1 .. Len(log) /\ log[e.of].type \in {"decision", "prediction"}
          /\ log[e.of].tick <= e.tick

Logged(log, now) ==
    /\ log \in Seq(Event)
    /\ \A i \in 1 .. Len(log) : log[i].tick <= now /\ Grounded(log, log[i])

\* When the feedback runs in active mode, what is old enough has been judged.
EventsInv ==
    /\ pc \in {"act", "evaluate", "feedback"} /\ tick \in Nat
    /\ Logged(events, tick)
    /\ pc = "feedback" /\ mode = "active" => Due = {}

\* The feedbacks in g about an experience, those of them after position i, and
\* those with a key.
About(g, e) == {i \in 1 .. Len(g) : g[i].experience = e}
After(g, e, i) == {k \in About(g, e) : k > i}

AddUp(s, g) ==
    \A e \in Experiences :
        /\ s[e].hits = Cardinality({i \in About(g, e) : g[i].hit})
        /\ s[e].misses = Cardinality({i \in About(g, e) : ~ g[i].hit})

\* The file has the keys of the last KeyWindow feedbacks about an experience, in
\* their order.
KeepsLast(s, g) ==
    \A e \in Experiences : \A i \in About(g, e) :
        LET later == Cardinality(After(g, e, i))
        IN  later < KeyWindow =>
               /\ later < Len(s[e].applied)
               /\ s[e].applied[Len(s[e].applied) - later] = g[i].key

Bounded(g) ==
    \A e \in Experiences : \A i, j \in About(g, e) :
        i < j /\ g[i].key = g[j].key =>
            /\ g[i].process # g[j].process
            /\ Cardinality({k \in About(g, e) : i < k /\ k <= j}) > KeyWindow

\* What was counted in this process is remembered in it.
Processed(p, g, now) ==
    \A i \in 1 .. Len(g) :
        /\ g[i].process <= now
        /\ g[i].process = now => <<g[i].experience, g[i].key>> \in p

Owned(g) ==
    \A i \in 1 .. Len(g) :
        /\ g[i].source # "rule" => g[i].experience = g[i].owner
        /\ g[i].source = "expsm_mechanism_search" => g[i].own /\ g[i].key[1] = "search"

Fine(s, p, g, now) ==
    /\ s \in [Experiences -> Counters] /\ p \in SUBSET (Experiences \X Keys) /\ g \in Seq(Told)
    /\ AddUp(s, g) /\ KeepsLast(s, g) /\ Bounded(g) /\ Processed(p, g, now) /\ Owned(g)

CountInv == restarts \in Nat /\ Fine(store, processed, counted, restarts)

-----------------------------------------------------------------------------
(* One feedback.                                                           *)

\* A claim is about an experience, by a key, and rests on a decision and, when
\* there is something to go by, on an outcome; what is claimed for an experience
\* is its own.
Sound(c) ==
    /\ c.experience \in Experiences /\ c.key \in Keys
    /\ c.decision \in Decisions /\ c.outcome \in Outcomes \cup {0}
    /\ events[c.decision].source # "rule" => c.experience = events[c.decision].experience
    /\ events[c.decision].source = "expsm_mechanism_search" =>
          /\ c.key[1] = "search"
          /\ c.outcome # 0 => events[c.outcome].of = c.decision

\* What is in the log.
LEMMA EventFields ==
  ASSUME NEW log \in Seq(Event), NEW i \in 1 .. Len(log)
  PROVE  /\ log[i].tick \in Nat /\ log[i].type \in {"prediction", "activation", "decision", "outcome"}
         /\ log[i].type = "activation" => log[i].experience \in Experiences
         /\ log[i].type = "decision" =>
               /\ log[i].source \in Sources /\ log[i].experience \in Experiences \cup {"none"}
               /\ log[i].ref \in Nat /\ log[i].links \in SUBSET Nat
         /\ log[i].type = "outcome" => log[i].of \in Nat /\ log[i].status \in Statuses
<1>1. log[i] \in Event
  OBVIOUS
<1> DEFINE e == log[i]
<1> HIDE DEF e
<1>2. e \in Event
  BY <1>1 DEF e
<1>3. CASE e \in PredictionEvent
  BY <1>3 DEF PredictionEvent, e
<1>4. CASE e \in ActivationEvent
  BY <1>4 DEF ActivationEvent, e
<1>5. CASE e \in DecisionEvent
  BY <1>5 DEF DecisionEvent, e
<1>6. CASE e \in OutcomeEvent
  BY <1>6 DEF OutcomeEvent, e
<1> QED
  BY <1>2, <1>3, <1>4, <1>5, <1>6 DEF Event

\* A feedback that is added.
Entry(c) ==
    [experience |-> c.experience, key |-> c.key, process |-> restarts,
     hit |-> events[c.outcome].status = "confirmed",
     source |-> events[c.decision].source, owner |-> events[c.decision].experience,
     ref |-> events[c.decision].ref, own |-> events[c.outcome].of = c.decision]

LEMMA EntryIsTold ==
  ASSUME EventsInv, CountInv, NEW c, Sound(c), c.outcome # 0
  PROVE  /\ Entry(c) \in Told
         /\ Entry(c).source # "rule" => Entry(c).experience = Entry(c).owner
         /\ Entry(c).source = "expsm_mechanism_search" => Entry(c).own /\ Entry(c).key[1] = "search"
<1>1. events \in Seq(Event) /\ c.decision \in 1 .. Len(events) /\ events[c.decision].type = "decision"
  BY DEF EventsInv, Logged, Sound, Decisions, At
<1>2. /\ events[c.decision].source \in Sources /\ events[c.decision].experience \in Experiences \cup {"none"}
      /\ events[c.decision].ref \in Nat
  BY <1>1, EventFields
<1>3. restarts \in Nat
  BY DEF CountInv
<1>4. Entry(c) \in Told
  BY <1>2, <1>3 DEF Entry, Told, Sound
<1>5. /\ Entry(c).source # "rule" => Entry(c).experience = Entry(c).owner
      /\ Entry(c).source = "expsm_mechanism_search" => Entry(c).own /\ Entry(c).key[1] = "search"
  BY DEF Entry, Sound
<1> QED
  BY <1>4, <1>5

\* The store with a feedback in it.
Stored(s, f) ==
    [s EXCEPT ![f.experience] =
        [hits |-> @.hits + (IF f.hit THEN 1 ELSE 0),
         misses |-> @.misses + (IF f.hit THEN 0 ELSE 1),
         applied |-> Keep(Append(@.applied, f.key))]]

LEMMA StoredIs ==
  ASSUME NEW s \in [Experiences -> Counters], NEW f \in Told
  PROVE  /\ f.experience \in Experiences /\ f.key \in Keys
         /\ DOMAIN Stored(s, f) = Experiences
         /\ \A e \in Experiences \ {f.experience} : Stored(s, f)[e] = s[e]
         /\ Stored(s, f)[f.experience].hits = s[f.experience].hits + (IF f.hit THEN 1 ELSE 0)
         /\ Stored(s, f)[f.experience].misses = s[f.experience].misses + (IF f.hit THEN 0 ELSE 1)
         /\ Stored(s, f)[f.experience].applied = Keep(Append(s[f.experience].applied, f.key))
<1>1. f.experience \in Experiences /\ f.key \in Keys
  BY DEF Told
<1> QED
  BY <1>1 DEF Stored

\* The keys that are kept are the last ones.
LEMMA KeepIs ==
  ASSUME FeedbackAssumption, NEW T, NEW keys \in Seq(T)
  PROVE  /\ Keep(keys) \in Seq(T)
         /\ Len(Keep(keys)) = IF Len(keys) > KeyWindow THEN KeyWindow ELSE Len(keys)
         /\ \A n \in Nat : n < Len(keys) /\ n < KeyWindow =>
               Keep(keys)[Len(Keep(keys)) - n] = keys[Len(keys) - n]
<1> DEFINE w == KeyWindow
           m == Len(keys)
<1>1. w \in Nat \ {0} /\ m \in Nat
  BY DEF FeedbackAssumption
<1>2. CASE m > w
  <2> DEFINE last == SubSeq(keys, m - w + 1, m)
  <2>1. Keep(keys) = last
    BY <1>2 DEF Keep
  <2>2. last \in Seq(T) /\ Len(last) = w /\ \A i \in 1 .. w : last[i] = keys[m - w + i]
    BY <1>1, <1>2
  <2> HIDE DEF last
  <2>3. ASSUME NEW n \in Nat, n < m, n < w PROVE last[w - n] = keys[m - n]
    <3>1. w - n \in 1 .. w /\ m - w + (w - n) = m - n
      BY <1>1, <2>3
    <3> QED
      BY <2>2, <3>1
  <2> QED
    BY <1>2, <2>1, <2>2, <2>3
<1>3. CASE ~ (m > w)
  <2>1. Keep(keys) = keys
    BY <1>3 DEF Keep
  <2> QED
    BY <1>3, <2>1
<1> QED
  BY <1>2, <1>3

LEMMA StoredTyped ==
  ASSUME FeedbackAssumption, NEW s \in [Experiences -> Counters], NEW f \in Told
  PROVE  Stored(s, f) \in [Experiences -> Counters]
<1> DEFINE x == f.experience
<1>1. x \in Experiences /\ f.key \in Keys
  BY StoredIs
<1>2. s[x] \in Counters
  BY <1>1
<1>3. s[x].hits \in Nat /\ s[x].misses \in Nat /\ s[x].applied \in Seq(Keys)
  BY <1>2 DEF Counters
<1>4. Append(s[x].applied, f.key) \in Seq(Keys)
  BY <1>1, <1>3
<1>5. Keep(Append(s[x].applied, f.key)) \in Seq(Keys)
  BY <1>4, KeepIs
<1>6. [hits |-> s[x].hits + (IF f.hit THEN 1 ELSE 0),
       misses |-> s[x].misses + (IF f.hit THEN 0 ELSE 1),
       applied |-> Keep(Append(s[x].applied, f.key))] \in Counters
  BY <1>3, <1>5 DEF Counters
<1> QED
  BY <1>1, <1>6 DEF Stored

\* What one more feedback adds to those about an experience.
LEMMA OneMore ==
  ASSUME NEW g \in Seq(Told), NEW f \in Told
  PROVE  LET h == Append(g, f)
             n == Len(g)
         IN  /\ n \in Nat /\ h \in Seq(Told) /\ Len(h) = n + 1 /\ h[n + 1] = f
             /\ \A i \in 1 .. n : h[i] = g[i]
             /\ \A e \in Experiences :
                   /\ About(g, e) \in SUBSET (1 .. n) /\ n + 1 \notin About(g, e)
                   /\ IsFiniteSet(About(g, e))
                   /\ e # f.experience => About(h, e) = About(g, e)
                   /\ e = f.experience => About(h, e) = About(g, e) \cup {n + 1}
<1> DEFINE h == Append(g, f)
           n == Len(g)
<1>1. /\ n \in Nat /\ n = Len(g) /\ h \in Seq(Told) /\ Len(h) = n + 1 /\ h[n + 1] = f
      /\ \A i \in 1 .. n : h[i] = g[i]
  OBVIOUS
<1> HIDE DEF h, n
<1>2. ASSUME NEW e \in Experiences
      PROVE  /\ About(g, e) \in SUBSET (1 .. n) /\ n + 1 \notin About(g, e)
             /\ IsFiniteSet(About(g, e))
             /\ e # f.experience => About(h, e) = About(g, e)
             /\ e = f.experience => About(h, e) = About(g, e) \cup {n + 1}
  <2>1. About(g, e) \in SUBSET (1 .. n) /\ n + 1 \notin About(g, e)
    BY <1>1 DEF About
  <2>2. IsFiniteSet(About(g, e))
    <3>1. IsFiniteSet(1 .. n)
      BY <1>1, FS_Interval
    <3> QED
      BY <2>1, <3>1, FS_Subset
  <2>3. \A i \in 1 .. n + 1 : i \in 1 .. n \/ i = n + 1
    BY <1>1
  <2>4. e # f.experience => About(h, e) = About(g, e)
    BY <1>1, <2>3 DEF About
  <2>5. e = f.experience => About(h, e) = About(g, e) \cup {n + 1}
    BY <1>1, <2>3 DEF About
  <2> QED
    BY <2>1, <2>2, <2>4, <2>5
<1> QED
  BY <1>1, <1>2 DEF h, n

\* The feedbacks about an experience that come after one of them, with one more.
LEMMA OneMoreAfter ==
  ASSUME NEW g \in Seq(Told), NEW f \in Told, NEW i \in About(g, f.experience)
  PROVE  LET x == f.experience
             h == Append(g, f)
         IN  /\ IsFiniteSet(After(g, x, i)) /\ Cardinality(After(g, x, i)) \in Nat
             /\ After(h, x, i) = After(g, x, i) \cup {Len(g) + 1}
             /\ Cardinality(After(h, x, i)) = Cardinality(After(g, x, i)) + 1
<1> DEFINE h == Append(g, f)
           n == Len(g)
           x == f.experience
           later == After(g, x, i)
<1>1. x \in Experiences
  BY DEF Told
<1>2. /\ n \in Nat /\ About(g, x) \in SUBSET (1 .. n) /\ n + 1 \notin About(g, x)
      /\ IsFiniteSet(About(g, x)) /\ About(h, x) = About(g, x) \cup {n + 1}
  BY <1>1, OneMore
<1>3. After(h, x, i) = later \cup {n + 1} /\ n + 1 \notin later
  BY <1>2 DEF After
<1>4. IsFiniteSet(later)
  <2>1. later \subseteq About(g, x)
    BY DEF After
  <2> QED
    BY <1>2, <2>1, FS_Subset
<1>5. Cardinality(later) \in Nat
  BY <1>4, FS_CardinalityType
<1> HIDE DEF later
<1>6. Cardinality(later \cup {n + 1}) = Cardinality(later) + 1
  BY <1>3, <1>4, FS_AddElement
<1> QED
  BY <1>3, <1>4, <1>5, <1>6 DEF later

\* The counters add up with one more feedback.
LEMMA AddsUp ==
  ASSUME FeedbackAssumption, NEW s \in [Experiences -> Counters], NEW g \in Seq(Told),
         NEW f \in Told, AddUp(s, g)
  PROVE  AddUp(Stored(s, f), Append(g, f))
<1> DEFINE x == f.experience
           h == Append(g, f)
           n == Len(g)
           t == Stored(s, f)
<1>1. /\ x \in Experiences
      /\ \A e \in Experiences \ {x} : t[e] = s[e]
      /\ t[x].hits = s[x].hits + (IF f.hit THEN 1 ELSE 0)
      /\ t[x].misses = s[x].misses + (IF f.hit THEN 0 ELSE 1)
  BY StoredIs
<1>2. f.hit \in BOOLEAN
  BY DEF Told
<1>3. /\ n \in Nat /\ h[n + 1] = f /\ \A i \in 1 .. n : h[i] = g[i]
      /\ \A e \in Experiences :
               /\ About(g, e) \in SUBSET (1 .. n) /\ n + 1 \notin About(g, e)
               /\ IsFiniteSet(About(g, e))
               /\ e # f.experience => About(h, e) = About(g, e)
               /\ e = f.experience => About(h, e) = About(g, e) \cup {n + 1}
  BY OneMore
<1> HIDE DEF h, n, t
<1>4. ASSUME NEW e \in Experiences
      PROVE  /\ t[e].hits = Cardinality({i \in About(h, e) : h[i].hit})
             /\ t[e].misses = Cardinality({i \in About(h, e) : ~ h[i].hit})
  <2> DEFINE yes == {i \in About(g, e) : g[i].hit}
             no == {i \in About(g, e) : ~ g[i].hit}
             yesNow == {i \in About(h, e) : h[i].hit}
             noNow == {i \in About(h, e) : ~ h[i].hit}
  <2>1. s[e].hits = Cardinality(yes) /\ s[e].misses = Cardinality(no)
    BY DEF AddUp
  <2>2. IsFiniteSet(yes)
    BY <1>3, FS_Subset
  <2>3. IsFiniteSet(no)
    BY <1>3, FS_Subset
  <2>4. ASSUME e # x
        PROVE  t[e].hits = Cardinality(yesNow) /\ t[e].misses = Cardinality(noNow)
    <3>1. yesNow = yes /\ noNow = no
      BY <1>3, <2>4
    <3> QED
      BY <1>1, <2>1, <2>4, <3>1
  <2>5. ASSUME e = x, f.hit
        PROVE  t[e].hits = Cardinality(yesNow) /\ t[e].misses = Cardinality(noNow)
    <3>1. yesNow = yes \cup {n + 1} /\ noNow = no
      BY <1>3, <2>5
    <3>2. n + 1 \notin yes
      BY <1>3
    <3>3. Cardinality(yes \cup {n + 1}) = Cardinality(yes) + 1
      BY <2>2, <3>2, FS_AddElement
    <3>4. s[e].misses \in Nat
      BY DEF Counters
    <3>5. t[e].hits = s[e].hits + 1
      BY <1>1, <2>5
    <3>6. t[e].misses = s[e].misses + 0
      BY <1>1, <2>5
    <3> HIDE DEF yes, no, yesNow, noNow
    <3> QED
      BY <2>1, <3>1, <3>3, <3>4, <3>5, <3>6
  <2>6. ASSUME e = x, ~ f.hit
        PROVE  t[e].hits = Cardinality(yesNow) /\ t[e].misses = Cardinality(noNow)
    <3>1. yesNow = yes /\ noNow = no \cup {n + 1}
      BY <1>3, <2>6
    <3>2. n + 1 \notin no
      BY <1>3
    <3>3. Cardinality(no \cup {n + 1}) = Cardinality(no) + 1
      BY <2>3, <3>2, FS_AddElement
    <3>4. s[e].hits \in Nat
      BY DEF Counters
    <3>5. t[e].misses = s[e].misses + 1
      BY <1>1, <2>6
    <3>6. t[e].hits = s[e].hits + 0
      BY <1>1, <2>6
    <3> HIDE DEF yes, no, yesNow, noNow
    <3> QED
      BY <2>1, <3>1, <3>3, <3>4, <3>5, <3>6
  <2>7. t[e].hits = Cardinality(yesNow) /\ t[e].misses = Cardinality(noNow)
    <3> HIDE DEF yesNow, noNow
    <3> QED
      BY <1>2, <2>4, <2>5, <2>6
  <2> QED
    BY <2>7
<1> QED
  BY <1>4 DEF AddUp, h, t

\* The file still has the last keys.
LEMMA LastAreKept ==
  ASSUME FeedbackAssumption, NEW s \in [Experiences -> Counters], NEW g \in Seq(Told),
         NEW f \in Told, KeepsLast(s, g)
  PROVE  KeepsLast(Stored(s, f), Append(g, f))
<1> DEFINE x == f.experience
           h == Append(g, f)
           n == Len(g)
           t == Stored(s, f)
           a == s[x].applied
           b == Append(a, f.key)
<1>1. /\ x \in Experiences /\ f.key \in Keys
      /\ \A e \in Experiences \ {x} : t[e] = s[e]
      /\ t[x].applied = Keep(b)
  BY StoredIs
<1>2. /\ n \in Nat /\ h[n + 1] = f /\ \A i \in 1 .. n : h[i] = g[i]
      /\ \A e \in Experiences :
               /\ About(g, e) \in SUBSET (1 .. n) /\ n + 1 \notin About(g, e)
               /\ e # f.experience => About(h, e) = About(g, e)
               /\ e = f.experience => About(h, e) = About(g, e) \cup {n + 1}
  BY OneMore
<1>3. a \in Seq(Keys)
  BY <1>1 DEF Counters
<1>4. /\ b \in Seq(Keys) /\ Len(a) \in Nat /\ Len(b) = Len(a) + 1 /\ b[Len(b)] = f.key
      /\ \A k \in 1 .. Len(a) : b[k] = a[k]
  BY <1>1, <1>3
<1> HIDE DEF b
<1>5. /\ Len(Keep(b)) = IF Len(b) > KeyWindow THEN KeyWindow ELSE Len(b)
      /\ \A k \in Nat : k < Len(b) /\ k < KeyWindow => Keep(b)[Len(Keep(b)) - k] = b[Len(b) - k]
  BY <1>4, KeepIs
<1>6. KeyWindow \in Nat \ {0}
  BY DEF FeedbackAssumption
<1> DEFINE q == Keep(b)
<1>7. t[x].applied = q /\ Len(q) \in Nat
  BY <1>1, <1>4, <1>5, <1>6
<1> HIDE DEF h, n, t, a, q
<1>8. ASSUME NEW e \in Experiences, NEW i \in About(h, e),
             Cardinality(After(h, e, i)) < KeyWindow
      PROVE  /\ Cardinality(After(h, e, i)) < Len(t[e].applied)
             /\ t[e].applied[Len(t[e].applied) - Cardinality(After(h, e, i))] = h[i].key
  <2>1. CASE e # x
    <3>1. About(h, e) = About(g, e) /\ t[e] = s[e] /\ h[i] = g[i]
      BY <1>1, <1>2, <2>1
    <3>2. After(h, e, i) = After(g, e, i) /\ i \in About(g, e)
      BY <3>1 DEF After
    <3> QED
      BY <1>8, <3>1, <3>2 DEF KeepsLast
  <2>2. CASE e = x /\ i = n + 1
    <3>1. After(h, e, i) = {}
      BY <1>2, <2>2 DEF After
    <3>2. Cardinality(After(h, e, i)) = 0
      BY <3>1, FS_EmptySet
    <3>3. 0 < Len(b) /\ Len(b) - 0 = Len(b)
      BY <1>4
    <3>4. q[Len(q) - 0] = b[Len(b)] /\ 0 < Len(q)
      BY <1>5, <1>6, <3>3 DEF q
    <3> QED
      BY <1>2, <1>4, <1>7, <2>2, <3>2, <3>4
  <2>3. CASE e = x /\ i # n + 1
    <3> DEFINE r == Cardinality(After(g, x, i))
    <3>1. i \in About(g, x) /\ h[i] = g[i]
      BY <1>2, <2>3
    <3>2. r \in Nat /\ Cardinality(After(h, x, i)) = r + 1
      BY <3>1, OneMoreAfter DEF h
    <3> HIDE DEF r
    <3>3. r + 1 < KeyWindow /\ r < KeyWindow
      BY <1>6, <1>8, <2>3, <3>2
    <3>4. r < Len(a) /\ a[Len(a) - r] = g[i].key
      BY <1>1, <3>1, <3>3 DEF KeepsLast, r, a
    <3>5. r + 1 \in Nat /\ r + 1 < Len(b) /\ Len(b) - (r + 1) = Len(a) - r /\ Len(a) - r \in 1 .. Len(a)
      BY <1>4, <3>2, <3>4
    <3>6. q[Len(q) - (r + 1)] = b[Len(b) - (r + 1)] /\ r + 1 < Len(q)
      BY <1>4, <1>5, <1>6, <3>3, <3>5 DEF q
    <3>7. b[Len(b) - (r + 1)] = g[i].key
      BY <1>4, <3>4, <3>5
    <3> QED
      BY <1>7, <2>3, <3>1, <3>2, <3>6, <3>7
  <2> QED
    BY <2>1, <2>2, <2>3
<1> QED
  BY <1>8 DEF KeepsLast, h, t

\* A key that is not known in this process, nor remembered in the file, may
\* count: what it counted for before lies far enough back.
LEMMA StaysBounded ==
  ASSUME FeedbackAssumption, NEW s \in [Experiences -> Counters], NEW p, NEW g \in Seq(Told),
         NEW f \in Told, KeepsLast(s, g), Processed(p, g, f.process), Bounded(g),
         <<f.experience, f.key>> \notin p, f.key \notin ToSet(s[f.experience].applied)
  PROVE  Bounded(Append(g, f))
<1> DEFINE x == f.experience
           h == Append(g, f)
           n == Len(g)
           a == s[x].applied
<1>1. x \in Experiences
  BY StoredIs
<1>2. /\ n \in Nat /\ n = Len(g) /\ h[n + 1] = f /\ \A i \in 1 .. n : h[i] = g[i]
      /\ \A e \in Experiences :
               /\ About(g, e) \in SUBSET (1 .. n) /\ n + 1 \notin About(g, e)
               /\ e # f.experience => About(h, e) = About(g, e)
               /\ e = f.experience => About(h, e) = About(g, e) \cup {n + 1}
  BY OneMore
<1>3. a \in Seq(Keys)
  BY <1>1 DEF Counters
<1>4. KeyWindow \in Nat \ {0}
  BY DEF FeedbackAssumption
<1> HIDE DEF h, n, a
<1>5. ASSUME NEW e \in Experiences, NEW i \in About(h, e), NEW j \in About(h, e),
             i < j, h[i].key = h[j].key
      PROVE  /\ h[i].process # h[j].process
             /\ Cardinality({k \in About(h, e) : i < k /\ k <= j}) > KeyWindow
  <2>1. i \in About(g, e) /\ i \in 1 .. n /\ h[i] = g[i]
    <3>1. j \in 1 .. n + 1 /\ i \in 1 .. n + 1
      BY <1>2
    <3>2. i # n + 1
      BY <1>2, <1>5, <3>1
    <3> QED
      BY <1>2, <3>2
  <2>2. CASE j \in About(g, e)
    <3>1. h[j] = g[j] /\ j \in 1 .. n
      BY <1>2, <2>2
    <3>2. {k \in About(h, e) : i < k /\ k <= j} = {k \in About(g, e) : i < k /\ k <= j}
      BY <1>2, <3>1
    <3> QED
      BY <1>5, <2>1, <2>2, <3>1, <3>2 DEF Bounded
  <2>3. CASE j \notin About(g, e)
    <3>1. e = x /\ j = n + 1 /\ h[j] = f
      BY <1>2, <2>3
    <3>2. g[i].experience = x /\ g[i].key = f.key
      BY <1>5, <2>1, <3>1 DEF About
    <3>3. g[i].process # f.process
      BY <1>2, <2>1, <3>2 DEF Processed
    <3> DEFINE r == Cardinality(After(g, x, i))
    <3>4. i \in About(g, x)
      BY <2>1, <3>1
    <3>5. r \in Nat /\ Cardinality(After(h, x, i)) = r + 1
      BY <3>4, OneMoreAfter DEF h
    <3> HIDE DEF r
    <3>6. ~ (r < KeyWindow)
      <4>1. SUFFICES ASSUME r < KeyWindow PROVE FALSE
        OBVIOUS
      <4>2. r < Len(a) /\ a[Len(a) - r] = f.key
        BY <1>1, <3>2, <3>4, <4>1 DEF KeepsLast, r, a
      <4>3. Len(a) - r \in 1 .. Len(a)
        BY <1>3, <3>5, <4>2
      <4> QED
        BY <1>3, <4>2, <4>3 DEF ToSet, a
    <3>7. {k \in About(h, e) : i < k /\ k <= j} = After(h, x, i)
      BY <1>2, <2>1, <3>1 DEF After
    <3>8. Cardinality({k \in About(h, e) : i < k /\ k <= j}) = r + 1
      BY <3>5, <3>7
    <3>9. r + 1 > KeyWindow
      BY <1>4, <3>5, <3>6
    <3>10. h[i].process # h[j].process
      BY <2>1, <3>1, <3>3
    <3> QED
      BY <3>8, <3>9, <3>10
  <2> QED
    BY <2>2, <2>3
<1>6. Bounded(h)
  BY <1>5 DEF Bounded
<1> QED
  BY <1>6 DEF h

\* A process that goes on remembers what it has processed.
LEMMA ProcessedGrows ==
  ASSUME NEW p, NEW q, NEW g \in Seq(Told), NEW now \in Nat, Processed(p, g, now), p \subseteq q
  PROVE  Processed(q, g, now)
BY DEF Processed

\* One feedback, for an outcome that says something.
LEMMA AppliedIsFine ==
  ASSUME FeedbackAssumption, NEW s, NEW p, NEW g, NEW f \in Told, Fine(s, p, g, f.process),
         f.process \in Nat,
         <<f.experience, f.key>> \notin p, f.key \notin ToSet(s[f.experience].applied),
         f.source # "rule" => f.experience = f.owner,
         f.source = "expsm_mechanism_search" => f.own /\ f.key[1] = "search"
  PROVE  Fine(Stored(s, f), p \cup {<<f.experience, f.key>>}, Append(g, f), f.process)
<1>1. /\ s \in [Experiences -> Counters] /\ p \in SUBSET (Experiences \X Keys) /\ g \in Seq(Told)
      /\ AddUp(s, g) /\ KeepsLast(s, g) /\ Bounded(g) /\ Processed(p, g, f.process) /\ Owned(g)
  BY DEF Fine
<1>2. Stored(s, f) \in [Experiences -> Counters]
  BY <1>1, StoredTyped
<1>3. f.experience \in Experiences /\ f.key \in Keys
  BY DEF Told
<1>4. AddUp(Stored(s, f), Append(g, f))
  BY <1>1, AddsUp
<1>5. KeepsLast(Stored(s, f), Append(g, f))
  BY <1>1, LastAreKept
<1>6. Bounded(Append(g, f))
  BY <1>1, StaysBounded
<1> DEFINE h == Append(g, f)
<1>7. h \in Seq(Told) /\ \A i \in 1 .. Len(h) : (i \in 1 .. Len(g) /\ h[i] = g[i]) \/ h[i] = f
  BY <1>1
<1> HIDE DEF h
<1>8. Processed(p \cup {<<f.experience, f.key>>}, h, f.process)
  BY <1>1, <1>7 DEF Processed
<1>9. Owned(h)
  BY <1>1, <1>7 DEF Owned
<1> QED
  BY <1>1, <1>2, <1>3, <1>4, <1>5, <1>6, <1>7, <1>8, <1>9 DEF Fine, h

\* What a step of the loop does to a run keeps it fine, and when a claim speaks
\* it is processed.
FineRun(run) ==
    /\ run = [store |-> run.store, processed |-> run.processed, counted |-> run.counted]
    /\ Fine(run.store, run.processed, run.counted, restarts)

LEMMA StepIsFine ==
  ASSUME FeedbackAssumption, EventsInv, CountInv, NEW run, FineRun(run), NEW c, Sound(c)
  PROVE  /\ FineRun(Step(run, c)) /\ run.processed \subseteq Step(run, c).processed
         /\ Speaks(c) => <<c.experience, c.key>> \in Step(run, c).processed
<1> DEFINE f == Entry(c)
           k == <<c.experience, c.key>>
<1>1. c.experience \in Experiences /\ c.key \in Keys /\ restarts \in Nat
  BY DEF Sound, CountInv
<1>2. run.processed \in SUBSET (Experiences \X Keys)
  BY DEF FineRun, Fine
<1>3. CASE Counts(run, c)
  <2>1. Speaks(c) /\ k \notin run.processed /\ c.key \notin ToSet(run.store[c.experience].applied)
    BY <1>3 DEF Counts, Known, Remembered
  <2>2. c.outcome # 0
    BY <2>1 DEF Speaks
  <2>3. /\ f \in Told
        /\ f.source # "rule" => f.experience = f.owner
        /\ f.source = "expsm_mechanism_search" => f.own /\ f.key[1] = "search"
    BY <2>2, EntryIsTold
  <2>4. f.experience = c.experience /\ f.key = c.key /\ f.process = restarts
    BY DEF Entry
  <2>5. Step(run, c) = [store |-> Stored(run.store, f), processed |-> run.processed \cup {k},
                        counted |-> Append(run.counted, f)]
    BY <1>3 DEF Step, Applied, Stored, Entry
  <2> HIDE DEF f
  <2>6. Fine(Stored(run.store, f), run.processed \cup {<<f.experience, f.key>>},
             Append(run.counted, f), f.process)
    BY <1>1, <2>1, <2>3, <2>4, AppliedIsFine DEF FineRun
  <2> QED
    BY <2>4, <2>5, <2>6 DEF FineRun
<1>4. CASE ~ Counts(run, c) /\ Speaks(c) /\ Remembered(run, c)
  <2> DEFINE done == [run EXCEPT !.processed = @ \cup {k}]
  <2>1. Step(run, c) = done
    BY <1>4 DEF Step
  <2> DEFINE q == run.processed \cup {k}
  <2>2. done = [store |-> run.store, processed |-> q, counted |-> run.counted]
    BY DEF FineRun
  <2> HIDE DEF done
  <2>3. q \in SUBSET (Experiences \X Keys)
    BY <1>1, <1>2
  <2> HIDE DEF q
  <2>4. run.processed \subseteq q /\ k \in q
    BY DEF q
  <2>5. Fine(run.store, q, run.counted, restarts)
    BY <1>1, <2>3, <2>4, ProcessedGrows DEF FineRun, Fine
  <2> QED
    BY <2>1, <2>2, <2>4, <2>5 DEF FineRun
<1>5. CASE ~ Counts(run, c) /\ ~ (Speaks(c) /\ Remembered(run, c))
  <2>1. Step(run, c) = run
    BY <1>5 DEF Step
  <2>2. Speaks(c) => k \in run.processed
    BY <1>5 DEF Counts, Known
  <2> QED
    BY <2>1, <2>2
<1> QED
  BY <1>3, <1>4, <1>5

-----------------------------------------------------------------------------
(* The loops.                                                              *)

\* The states the loop over a list goes through.
RunOf(run, base, list, n) ==
    /\ run[0] = base
    /\ \A k \in 1 .. n : run[k] = Step(run[k - 1], list[k])
    /\ RunAll(base, list) = run[n]

\* The loop over a list goes through a state for each of its members.
LEMMA LoopRuns ==
  ASSUME NEW base, NEW list, NEW n \in Nat, DOMAIN list = 1 .. n
  PROVE  \E run : RunOf(run, base, list, n)
<1> DEFINE Runs(f, k) ==
              f = [s \in SUBSET (1 .. k) |->
                      IF s = {} THEN base ELSE Step(f[s \ {Max(s)}], list[Max(s)])]
           Good == {k \in Nat : \E f : Runs(f, k)}
<1>1. 0 \in Good
  <2> DEFINE f == [s \in SUBSET (1 .. 0) |-> base]
  <2>1. \A s \in SUBSET (1 .. 0) : s = {}
    OBVIOUS
  <2>2. Runs(f, 0)
    BY <2>1
  <2> QED
    BY <2>2
<1>2. ASSUME NEW k \in Nat, k \in Good PROVE k + 1 \in Good
  <2>1. PICK g : Runs(g, k)
    BY <1>2
  <2> DEFINE h == [s \in SUBSET (1 .. k + 1) |->
                      IF s = {} THEN base ELSE Step(g[s \ {Max(s)}], list[Max(s)])]
  <2>2. ASSUME NEW s \in SUBSET (1 .. k + 1), s # {} PROVE s \ {Max(s)} \in SUBSET (1 .. k)
    <3>1. Max(s) \in s /\ \A x \in s : x <= Max(s)
      <4>1. k + 1 \in Nat
        OBVIOUS
      <4> QED
        BY <2>2, <4>1, GreatestIs
    <3>2. ASSUME NEW x \in s, x # Max(s) PROVE x \in 1 .. k
      <4>1. x <= Max(s) /\ x \in 1 .. k + 1 /\ Max(s) \in 1 .. k + 1
        BY <3>1
      <4> QED
        BY <3>2, <4>1
    <3> QED
      BY <3>2
  <2>3. \A t \in SUBSET (1 .. k) : t \in SUBSET (1 .. k + 1)
    OBVIOUS
  <2>4. ASSUME NEW t \in SUBSET (1 .. k) PROVE h[t] = g[t]
    BY <2>1, <2>3
  <2>5. ASSUME NEW s \in SUBSET (1 .. k + 1), s # {} PROVE h[s \ {Max(s)}] = g[s \ {Max(s)}]
    BY <2>2, <2>4, <2>5
  <2>6. Runs(h, k + 1)
    <3>1. ASSUME NEW s \in SUBSET (1 .. k + 1)
          PROVE  (IF s = {} THEN base ELSE Step(g[s \ {Max(s)}], list[Max(s)]))
                    = (IF s = {} THEN base ELSE Step(h[s \ {Max(s)}], list[Max(s)]))
      <4>1. CASE s = {}
        BY <4>1
      <4>2. CASE s # {}
        <5>1. h[s \ {Max(s)}] = g[s \ {Max(s)}]
          BY <2>5, <4>2
        <5> HIDE DEF h
        <5> QED
          BY <5>1, <4>2
      <4> QED
        BY <4>1, <4>2
    <3> QED
      BY <3>1
  <2> HIDE DEF h, Runs
  <2>7. \E f : Runs(f, k + 1)
    BY <2>6
  <2> QED
    BY <2>7
<1>3. n \in Good
  <2> HIDE DEF Good
  <2> QED
    BY <1>1, <1>2, NatSets
<1> DEFINE iter == CHOOSE f : Runs(f, n)
<1>4. Runs(iter, n)
  BY <1>3
<1>5. RunAll(base, list) = iter[1 .. n]
  BY DEF RunAll, FoldLeft, MapThenFoldSet
<1> HIDE DEF iter
<1> DEFINE run == [k \in 0 .. n |-> iter[1 .. k]]
<1>6. run[0] = base
  <2>1. 1 .. 0 = {} /\ {} \in SUBSET (1 .. n)
    OBVIOUS
  <2> QED
    BY <1>4, <2>1
<1>7. ASSUME NEW k \in 1 .. n PROVE run[k] = Step(run[k - 1], list[k])
  <2>1. /\ (1 .. k) \in SUBSET (1 .. n) /\ k \in 1 .. k /\ k \in Nat /\ k - 1 \in 0 .. n
        /\ (1 .. k) \ {k} = 1 .. (k - 1)
    OBVIOUS
  <2>2. Max(1 .. k) = k
    <3> DEFINE S == 1 .. k
    <3>1. S \in SUBSET (1 .. k) /\ S # {} /\ k \in S
      BY <2>1
    <3>2. Max(S) \in S /\ k <= Max(S)
      BY <2>1, <3>1, GreatestIs
    <3> QED
      BY <2>1, <3>2
  <2>3. iter[1 .. k] = Step(iter[(1 .. k) \ {k}], list[k])
    BY <1>4, <2>1, <2>2
  <2>4. run[k] = iter[1 .. k] /\ run[k - 1] = iter[1 .. (k - 1)]
    BY <2>1
  <2> HIDE DEF run
  <2> QED
    BY <2>1, <2>3, <2>4
<1>8. RunAll(base, list) = run[n]
  BY <1>5
<1> HIDE DEF run
<1> QED
  BY <1>6, <1>7, <1>8 DEF RunOf

\* A loop over sound claims keeps a run fine, forgets nothing, and every claim
\* that speaks is processed in the end.
LEMMA LoopIsFine ==
  ASSUME FeedbackAssumption, EventsInv, CountInv, NEW base, FineRun(base), NEW list,
         NEW n \in Nat, DOMAIN list = 1 .. n, \A k \in 1 .. n : Sound(list[k])
  PROVE  /\ FineRun(RunAll(base, list)) /\ base.processed \subseteq RunAll(base, list).processed
         /\ \A k \in 1 .. n : Speaks(list[k]) =>
               <<list[k].experience, list[k].key>> \in RunAll(base, list).processed
<1>1. PICK run : RunOf(run, base, list, n)
  BY LoopRuns
<1>2. run[0] = base /\ (\A k \in 1 .. n : run[k] = Step(run[k - 1], list[k])) /\ RunAll(base, list) = run[n]
  BY <1>1 DEF RunOf
<1> DEFINE Done(m) ==
              /\ FineRun(run[m]) /\ base.processed \subseteq run[m].processed
              /\ \A k \in 1 .. m : Speaks(list[k]) =>
                    <<list[k].experience, list[k].key>> \in run[m].processed
           Good == {m \in Nat : m <= n => Done(m)}
<1>3. 0 \in Good
  BY <1>2
<1>4. ASSUME NEW m \in Nat, m \in Good PROVE m + 1 \in Good
  <2>1. SUFFICES ASSUME m + 1 <= n PROVE Done(m + 1)
    <3> HIDE DEF Done
    <3> QED
      BY DEF Good
  <2>2. Done(m)
    BY <1>4, <2>1
  <2>3. m + 1 \in 1 .. n /\ (m + 1) - 1 = m
    BY <2>1
  <2>4. run[m + 1] = Step(run[m], list[m + 1]) /\ Sound(list[m + 1])
    BY <1>2, <2>3
  <2> DEFINE c == list[m + 1]
             next == Step(run[m], c)
  <2> HIDE DEF c
  <2>5. /\ FineRun(next) /\ run[m].processed \subseteq next.processed
        /\ Speaks(c) => <<c.experience, c.key>> \in next.processed
    BY <2>2, <2>4, StepIsFine DEF c
  <2>6. run[m + 1] = next
    BY <2>4 DEF c
  <2> HIDE DEF next
  <2>7. \A k \in 1 .. m + 1 : k \in 1 .. m \/ k = m + 1
    OBVIOUS
  <2> QED
    BY <2>2, <2>5, <2>6, <2>7 DEF c
<1> HIDE DEF Good
<1>5. n \in Good
  BY <1>3, <1>4, NatSets
<1> QED
  BY <1>2, <1>5 DEF Good

-----------------------------------------------------------------------------
(* The claims of a feedback.                                               *)

\* What is selected from the log is a set of positions of it, numbered.
LEMMA RecordsArePicked ==
  ASSUME EventsInv
  PROVE  /\ Len(events) \in Nat
         /\ Decisions \in SUBSET (1 .. Len(events)) /\ Activations \in SUBSET (1 .. Len(events))
         /\ Outcomes \in SUBSET (1 .. Len(events)) /\ Judgeable \in SUBSET (1 .. Len(events))
         /\ MechanismDecisions \in SUBSET (1 .. Len(events))
         /\ \A a : Selected(a) \in SUBSET (1 .. Len(events))
         /\ \A i \in 1 .. Len(events) : Number(i) \in Nat
<1>1. events \in Seq(Event)
  BY DEF EventsInv, Logged
<1>2. Len(events) \in Nat
  BY <1>1
<1>3. ASSUME NEW i \in 1 .. Len(events) PROVE Number(i) \in Nat
  <2> DEFINE same == {j \in 1 .. i : events[j].type = events[i].type}
  <2>1. i \in Nat
    BY <1>2
  <2>2. IsFiniteSet(1 .. i)
    BY <2>1, FS_Interval
  <2>3. IsFiniteSet(same)
    BY <2>2, FS_Subset
  <2>4. Cardinality(same) \in Nat
    BY <2>3, FS_CardinalityType
  <2> QED
    BY <2>4 DEF Number
<1>4. Decisions \in SUBSET (1 .. Len(events)) /\ Activations \in SUBSET (1 .. Len(events))
  BY DEF Decisions, Activations, At
<1>5. Outcomes \in SUBSET (1 .. Len(events)) /\ Judgeable \in SUBSET (1 .. Len(events))
  BY DEF Outcomes, Judgeable, At
<1>6. MechanismDecisions \in SUBSET (1 .. Len(events))
  BY <1>4 DEF MechanismDecisions
<1>7. \A a : Selected(a) \in SUBSET (1 .. Len(events))
  BY <1>4 DEF Selected
<1> QED
  BY <1>2, <1>3, <1>4, <1>5, <1>6, <1>7

\* The outcome that is taken for a decision: when the decision is old, its own.
LEMMA LinkedIs ==
  ASSUME FeedbackAssumption, EventsInv, pc = "feedback", mode = "active", NEW d \in Decisions
  PROVE  /\ Linked(d) \in Outcomes \cup {0}
         /\ Old(d) => Linked(d) # 0 /\ events[Linked(d)].of = d
<1> DEFINE later == {o \in Outcomes : events[o].tick >= events[d].tick}
           direct == {o \in later : events[o].of = d}
           nearby == {o \in later : events[o].tick <= events[d].tick + Delay + 1}
<1>1. Linked(d) = IF direct # {} THEN First(direct) ELSE IF nearby # {} THEN First(nearby) ELSE 0
  BY DEF Linked
<1>2. Len(events) \in Nat /\ direct \in SUBSET (1 .. Len(events)) /\ nearby \in SUBSET (1 .. Len(events))
  BY RecordsArePicked
<1>3. direct # {} => First(direct) \in direct
  BY <1>2, LeastIs DEF First
<1>4. nearby # {} => First(nearby) \in nearby
  BY <1>2, LeastIs DEF First
<1>5. Old(d) => direct # {}
  <2>1. HAVE Old(d)
  <2>2. d \in Judgeable
    BY DEF Decisions, Judgeable, At
  <2>3. d \in Judged
    BY <2>1, <2>2 DEF EventsInv, Due, Old
  <2>4. PICK o \in Outcomes : events[o].of = d
    BY <2>3 DEF Judged
  <2>5. events[o].tick >= events[d].tick
    <3>1. o \in 1 .. Len(events) /\ events[o].type = "outcome" /\ d \in 1 .. Len(events)
      BY DEF Outcomes, Decisions, At
    <3>2. events[d].tick <= events[o].tick
      BY <2>4, <3>1 DEF EventsInv, Logged, Grounded
    <3>3. events \in Seq(Event)
      BY DEF EventsInv, Logged
    <3>4. events[d].tick \in Nat /\ events[o].tick \in Nat
      BY <3>1, <3>3, EventFields
    <3> QED
      BY <3>2, <3>4
  <2> QED
    BY <2>4, <2>5
<1>6. 0 \notin Outcomes
  BY RecordsArePicked
<1> DEFINE fd == First(direct)
           fn == First(nearby)
<1>7. direct # {} => fd \in Outcomes /\ events[fd].of = d
  BY <1>3
<1>8. nearby # {} => fn \in Outcomes
  BY <1>4
<1>9. Linked(d) = IF direct # {} THEN fd ELSE IF nearby # {} THEN fn ELSE 0
  BY <1>1
<1> HIDE DEF fd, fn, direct, nearby, later
<1> QED
  BY <1>5, <1>6, <1>7, <1>8, <1>9

DirectClaim(d) == Claim(events[d].experience, "search", events[d].ref, d)
ActivationClaim(a, d) == Claim(events[a].experience, "activation", Number(a), d)

\* What is claimed for the decision of a mechanism is sound.
LEMMA DirectIsSound ==
  ASSUME FeedbackAssumption, EventsInv, pc = "feedback", mode = "active",
         NEW d \in MechanismDecisions
  PROVE  Sound(DirectClaim(d))
<1>1. /\ d \in Decisions /\ d \in 1 .. Len(events) /\ events[d].type = "decision" /\ Old(d)
      /\ events[d].source = "expsm_mechanism_search"
  BY DEF MechanismDecisions, Decisions, At
<1>2. events[d].experience \in Experiences
  BY <1>1 DEF EventsInv, Logged, Grounded
<1>3. events[d].ref \in Nat
  BY <1>1, EventFields DEF EventsInv, Logged
<1>4. Number(d) \in Nat
  BY <1>1, RecordsArePicked
<1>5. Linked(d) \in Outcomes \cup {0} /\ events[Linked(d)].of = d
  BY <1>1, LinkedIs
<1> HIDE DEF Number, Linked
<1> QED
  BY <1>1, <1>2, <1>3, <1>4, <1>5 DEF Sound, DirectClaim, Claim, Keys

\* What is claimed for an activation is sound.
LEMMA ActivationIsSound ==
  ASSUME FeedbackAssumption, EventsInv, pc = "feedback", mode = "active",
         NEW a \in Activations, NEW d \in Selected(a)
  PROVE  Sound(ActivationClaim(a, d))
<1>1. /\ d \in Decisions /\ d \in 1 .. Len(events) /\ events[d].type = "decision"
      /\ (events[d].source = "expsm_activation" /\ events[d].ref = a) \/ events[d].source = "rule"
  BY DEF Selected, Decisions, At
<1>2. a \in 1 .. Len(events) /\ events[a].type = "activation"
  BY DEF Activations, At
<1>3. events[a].experience \in Experiences
  BY <1>2, EventFields DEF EventsInv, Logged
<1>4. events[d].source # "rule" => events[d].experience = events[a].experience
  BY <1>1 DEF EventsInv, Logged, Grounded
<1>5. Number(a) \in Nat /\ Number(d) \in Nat
  BY <1>1, <1>2, RecordsArePicked
<1>6. Linked(d) \in Outcomes \cup {0}
  BY <1>1, LinkedIs
<1> QED
  BY <1>1, <1>3, <1>4, <1>5, <1>6 DEF Sound, ActivationClaim, Claim, Keys

\* What is claimed for activation a.
OfActivation(a) == {ActivationClaim(a, d) : d \in Selected(a)}

ClaimRecord == [experience : Experiences, key : Keys, decision : Nat, outcome : Nat]

LEMMA SoundIsRecord ==
  ASSUME EventsInv, NEW e, NEW origin, NEW number, NEW d, Sound(Claim(e, origin, number, d))
  PROVE  Claim(e, origin, number, d) \in ClaimRecord
<1> DEFINE c == Claim(e, origin, number, d)
<1>1. c = [experience |-> c.experience, key |-> c.key, decision |-> c.decision, outcome |-> c.outcome]
  BY DEF Claim
<1> HIDE DEF c
<1>2. c.experience \in Experiences /\ c.key \in Keys /\ c.decision \in Decisions /\ c.outcome \in Outcomes \cup {0}
  BY DEF Sound, c
<1>3. c.decision \in Nat /\ c.outcome \in Nat
  BY <1>2, RecordsArePicked
<1>4. c \in ClaimRecord
  BY <1>1, <1>2, <1>3 DEF ClaimRecord
<1> QED
  BY <1>4 DEF c

\* The claims of one activation are those for its selected decisions.
LEMMA ClaimsOfAre ==
  ASSUME FeedbackAssumption, EventsInv, pc = "feedback", mode = "active", NEW a \in Activations
  PROVE  /\ ClaimsOf(a) \in Seq(ClaimRecord)
         /\ ToSet(ClaimsOf(a)) = OfActivation(a)
<1> DEFINE n == Cardinality(Selected(a))
           ds == InOrder(Selected(a))
           list == ClaimsOf(a)
<1>1. /\ n \in Nat /\ ds \in [1 .. n -> Selected(a)] /\ Len(ds) = n
      /\ \A x \in Selected(a) : \E i \in 1 .. n : ds[i] = x
  BY RecordsArePicked, InOrderLists
<1>2. list = [k \in 1 .. Len(ds) |-> ActivationClaim(a, ds[k])]
  BY DEF ClaimsOf, ActivationClaim
<1> HIDE DEF list, ds, n
<1>3. ASSUME NEW d \in Selected(a) PROVE ActivationClaim(a, d) \in ClaimRecord
  BY ActivationIsSound, SoundIsRecord DEF ActivationClaim
<1>4. list = [k \in 1 .. n |-> ActivationClaim(a, ds[k])]
  BY <1>1, <1>2
<1>5. list \in Seq(ClaimRecord)
  BY <1>1, <1>3, <1>4
<1>6. ToSet(list) = {ActivationClaim(a, d) : d \in Selected(a)}
  <2>1. DOMAIN list = 1 .. n
    BY <1>4
  <2>2. \A k \in 1 .. n : list[k] = ActivationClaim(a, ds[k]) /\ ds[k] \in Selected(a)
    BY <1>1, <1>4
  <2> HIDE DEF ActivationClaim
  <2> QED
    BY <1>1, <2>1, <2>2 DEF ToSet
<1> QED
  BY <1>5, <1>6 DEF list, OfActivation

\* The claims of a feedback are those of the mechanisms and those of the
\* activations that are old.
LEMMA ClaimsAre ==
  ASSUME FeedbackAssumption, EventsInv, pc = "feedback", mode = "active"
  PROVE  /\ Claims \in Seq(ClaimRecord)
         /\ ToSet(Claims) =
               {DirectClaim(d) : d \in MechanismDecisions}
               \cup UNION {OfActivation(a) : a \in {b \in Activations : Old(b)}}
<1> DEFINE olds == {a \in Activations : Old(a)}
           m == Cardinality(MechanismDecisions)
           ds == InOrder(MechanismDecisions)
           n == Cardinality(olds)
           as == InOrder(olds)
           first == [k \in 1 .. Len(ds) |->
                        Claim(events[ds[k]].experience, "search", events[ds[k]].ref, ds[k])]
           lists == [k \in 1 .. Len(as) |-> ClaimsOf(as[k])]
<1>1. /\ m \in Nat /\ ds \in [1 .. m -> MechanismDecisions] /\ Len(ds) = m
      /\ \A x \in MechanismDecisions : \E i \in 1 .. m : ds[i] = x
  BY RecordsArePicked, InOrderLists
<1>2. olds \in SUBSET (1 .. Len(events)) /\ Len(events) \in Nat
  BY RecordsArePicked
<1>3. /\ n \in Nat /\ as \in [1 .. n -> olds] /\ Len(as) = n
      /\ \A x \in olds : \E i \in 1 .. n : as[i] = x
  BY <1>2, InOrderLists
<1>4. Claims = first \o FlattenSeq(lists)
  BY DEF Claims
<1>5. first = [k \in 1 .. Len(ds) |-> DirectClaim(ds[k])]
  BY DEF DirectClaim
<1> HIDE DEF ds, m, as, n, olds
<1>6. first \in Seq(ClaimRecord) /\ ToSet(first) = {DirectClaim(d) : d \in MechanismDecisions}
  <2>1. ASSUME NEW d \in MechanismDecisions PROVE DirectClaim(d) \in ClaimRecord
    BY DirectIsSound, SoundIsRecord DEF DirectClaim
  <2>2. first = [k \in 1 .. m |-> DirectClaim(ds[k])]
    BY <1>1, <1>5
  <2> HIDE DEF first, DirectClaim
  <2>3. first \in Seq(ClaimRecord)
    BY <1>1, <2>1, <2>2
  <2>4. DOMAIN first = 1 .. m
    BY <2>2
  <2>5. \A k \in 1 .. m : first[k] = DirectClaim(ds[k]) /\ ds[k] \in MechanismDecisions
    BY <1>1, <2>2
  <2> QED
    BY <1>1, <2>3, <2>4, <2>5 DEF ToSet
<1>7. /\ lists \in Seq(Seq(ClaimRecord)) /\ Len(lists) = n
      /\ \A k \in 1 .. n : ToSet(lists[k]) = OfActivation(as[k])
  <2>1. \A k \in 1 .. n : as[k] \in Activations
    BY <1>3 DEF olds
  <2>2. \A k \in 1 .. n :
           /\ ClaimsOf(as[k]) \in Seq(ClaimRecord)
           /\ ToSet(ClaimsOf(as[k])) = OfActivation(as[k])
    BY <2>1, ClaimsOfAre
  <2>3. lists = [k \in 1 .. n |-> ClaimsOf(as[k])]
    BY <1>3
  <2> HIDE DEF lists, first
  <2> DEFINE T == Seq(ClaimRecord)
  <2>4. lists \in Seq(T) /\ Len(lists) = n
    <3>1. \A k \in 1 .. n : ClaimsOf(as[k]) \in T
      BY <2>2
    <3> HIDE DEF T
    <3>2. n \in Nat
      BY <1>3
    <3>3. lists \in [1 .. n -> T]
      <4> HIDE DEF ClaimsOf
      <4> QED
        BY <2>3, <3>1
    <3> QED
      BY <3>2, <3>3
  <2>5. \A k \in 1 .. n : lists[k] = ClaimsOf(as[k])
    BY <2>3
  <2> QED
    BY <2>2, <2>4, <2>5
<1> HIDE DEF lists
<1>8. /\ FlattenSeq(lists) \in Seq(ClaimRecord)
      /\ ToSet(FlattenSeq(lists)) = UNION {ToSet(lists[j]) : j \in 1 .. n}
  BY <1>7, FlatIs
<1>9. UNION {ToSet(lists[j]) : j \in 1 .. n}
         = UNION {OfActivation(a) : a \in olds}
  BY <1>3, <1>7
<1>10. /\ first \o FlattenSeq(lists) \in Seq(ClaimRecord)
       /\ ToSet(first \o FlattenSeq(lists)) = ToSet(first) \cup ToSet(FlattenSeq(lists))
  BY <1>6, <1>8, JoinedSet
<1> HIDE DEF first
<1> QED
  BY <1>4, <1>6, <1>8, <1>9, <1>10 DEF olds

\* Every claim of a feedback is sound.
LEMMA ClaimsAreSound ==
  ASSUME FeedbackAssumption, EventsInv, pc = "feedback", mode = "active"
  PROVE  /\ Len(Claims) \in Nat /\ DOMAIN Claims = 1 .. Len(Claims)
         /\ \A k \in 1 .. Len(Claims) : Sound(Claims[k])
<1>1. Claims \in Seq(ClaimRecord)
  BY ClaimsAre
<1>2. Len(Claims) \in Nat /\ DOMAIN Claims = 1 .. Len(Claims)
  BY <1>1
<1>3. ASSUME NEW k \in 1 .. Len(Claims) PROVE Sound(Claims[k])
  <2>1. Claims[k] \in ToSet(Claims)
    BY <1>2 DEF ToSet
  <2>2. CASE Claims[k] \in {DirectClaim(d) : d \in MechanismDecisions}
    BY <2>2, DirectIsSound
  <2>3. CASE Claims[k] \in UNION {OfActivation(a) : a \in {b \in Activations : Old(b)}}
    <3>1. PICK a \in Activations : \E d \in Selected(a) : Claims[k] = ActivationClaim(a, d)
      BY <2>3 DEF OfActivation
    <3> QED
      BY <3>1, ActivationIsSound
  <2> QED
    BY <2>1, <2>2, <2>3, ClaimsAre
<1> QED
  BY <1>2, <1>3

-----------------------------------------------------------------------------
(* The log.                                                                *)

\* A log that has more events, each resting on what is there, is a log.
LEMMA LogGrows ==
  ASSUME NEW log, NEW now \in Nat, Logged(log, now), NEW more \in Seq(Event),
         \A i \in 1 .. Len(more) : more[i].tick <= now /\ Grounded(log, more[i])
  PROVE  Logged(log \o more, now)
<1> DEFINE all == log \o more
<1>1. log \in Seq(Event)
  BY DEF Logged
<1>2. /\ all \in Seq(Event) /\ Len(log) \in Nat /\ Len(all) = Len(log) + Len(more) /\ Len(more) \in Nat
      /\ \A i \in 1 .. Len(log) : all[i] = log[i]
      /\ \A i \in 1 .. Len(all) : i \notin 1 .. Len(log) =>
            i - Len(log) \in 1 .. Len(more) /\ all[i] = more[i - Len(log)]
  BY <1>1, Joined
<1> HIDE DEF all
<1>3. \A i \in 1 .. Len(log) : i \in 1 .. Len(all)
  BY <1>2
<1>4. ASSUME NEW e, Grounded(log, e) PROVE Grounded(all, e)
  BY <1>2, <1>3, <1>4 DEF Grounded
<1>5. ASSUME NEW i \in 1 .. Len(all) PROVE all[i].tick <= now /\ Grounded(all, all[i])
  <2>1. CASE i \in 1 .. Len(log)
    BY <1>2, <1>4, <2>1 DEF Logged
  <2>2. CASE i \notin 1 .. Len(log)
    BY <1>2, <1>4, <2>2
  <2> QED
    BY <2>1, <2>2
<1> QED
  BY <1>2, <1>5 DEF Logged, all

\* The experiences that are active, in any order.
LEMMA ActiveIs ==
  ASSUME FeedbackAssumption, NEW active \in SetToAllKPermutations(Experiences)
  PROVE  active \in Seq(Experiences)
<1>1. PICK s \in SUBSET Experiences : active \in SetToSeqs(s)
  BY DEF SetToAllKPermutations
<1>2. IsFiniteSet(s)
  BY FS_Subset DEF FeedbackAssumption
<1>3. Cardinality(s) \in Nat
  BY <1>2, FS_CardinalityType
<1>4. active \in [1 .. Cardinality(s) -> s]
  BY <1>1 DEF SetToSeqs
<1> QED
  BY <1>3, <1>4

\* What phases 01-05 add to the log rests on it.
LEMMA PastIs ==
  ASSUME FeedbackAssumption, EventsInv, NEW predicted \in {<<>>, <<Prediction>>},
         NEW active \in SetToAllKPermutations(Experiences)
  PROVE  Logged(events \o predicted \o [i \in 1 .. Len(active) |-> Activation(active[i])], tick)
<1> DEFINE acts == [i \in 1 .. Len(active) |-> Activation(active[i])]
<1>1. tick \in Nat /\ Logged(events, tick)
  BY DEF EventsInv
<1>2. Prediction \in Event /\ Prediction.tick = tick /\ Prediction.type = "prediction"
  BY <1>1 DEF Prediction, Event, PredictionEvent
<1> HIDE DEF Prediction
<1>3. predicted \in Seq(Event)
  <2> DEFINE one == Prediction
  <2>1. one \in Event
    BY <1>2
  <2> HIDE DEF one
  <2>2. <<one>> \in Seq(Event) /\ <<>> \in Seq(Event)
    BY <2>1
  <2> QED
    BY <2>2 DEF one
<1>4. \A i \in 1 .. Len(predicted) : predicted[i] = Prediction
  OBVIOUS
<1>5. Logged(events \o predicted, tick)
  <2>1. \A i \in 1 .. Len(predicted) : predicted[i].tick <= tick /\ Grounded(events, predicted[i])
    BY <1>1, <1>2, <1>4 DEF Grounded
  <2> QED
    BY <1>1, <1>3, <2>1, LogGrows
<1>6. active \in Seq(Experiences)
  BY ActiveIs
<1>7. ASSUME NEW e \in Experiences
      PROVE  /\ Activation(e) \in Event /\ Activation(e).tick = tick
             /\ Activation(e).type = "activation"
  BY <1>1 DEF Activation, Event, ActivationEvent
<1>8. acts \in Seq(Event) /\ \A i \in 1 .. Len(acts) : acts[i].tick = tick /\ acts[i].type = "activation"
  <2>1. Len(active) \in Nat /\ \A i \in 1 .. Len(active) : active[i] \in Experiences
    BY <1>6
  <2> QED
    BY <1>7, <2>1
<1> HIDE DEF acts
<1>9. \A i \in 1 .. Len(acts) : acts[i].tick <= tick /\ Grounded(events \o predicted, acts[i])
  BY <1>1, <1>8 DEF Grounded
<1>10. Logged((events \o predicted) \o acts, tick)
  BY <1>1, <1>5, <1>8, <1>9, LogGrows
<1> QED
  BY <1>10 DEF acts

\* So does a decision.
LEMMA DecisionIs ==
  ASSUME FeedbackAssumption, tick \in Nat, NEW past, Logged(past, tick), NEW choice \in MayDecide(past)
  PROVE  Logged(past \o choice, tick)
<1> DEFINE acts == {i \in 1 .. Len(past) : past[i].type = "activation"}
           Good(d) == d \in Event /\ d.tick <= tick /\ Grounded(past, d)
<1>1. past \in Seq(Event)
  BY DEF Logged
<1>2. \/ choice = <<>>
      \/ \E i \in acts : choice = <<Decision("expsm_activation", past[i].experience, i, {})>>
      \/ \E e \in Experiences : choice = <<Decision("expsm_mechanism_search", e, 1, {})>>
      \/ \E links \in {{}, acts} : choice = <<Decision("rule", "none", 0, links)>>
  BY DEF MayDecide
<1>3. ASSUME NEW i \in acts PROVE Good(Decision("expsm_activation", past[i].experience, i, {}))
  <2>1. i \in 1 .. Len(past) /\ i \in Nat /\ past[i].type = "activation"
    BY <1>1
  <2>2. past[i].experience \in Experiences /\ past[i].tick <= tick
    BY <1>1, <2>1, EventFields DEF Logged
  <2> DEFINE d == Decision("expsm_activation", past[i].experience, i, {})
  <2>3. d \in DecisionEvent
    BY <2>1, <2>2 DEF Decision, DecisionEvent, Sources
  <2>4. /\ d.type = "decision" /\ d.tick = tick /\ d.ref = i /\ d.experience = past[i].experience
        /\ d.source = "expsm_activation"
    BY DEF Decision
  <2> HIDE DEF d
  <2>5. Good(d)
    BY <2>1, <2>2, <2>3, <2>4 DEF Event, Grounded
  <2> QED
    BY <2>5 DEF d
<1>4. ASSUME NEW e \in Experiences PROVE Good(Decision("expsm_mechanism_search", e, 1, {}))
  <2> DEFINE d == Decision("expsm_mechanism_search", e, 1, {})
  <2>1. d \in DecisionEvent
    BY DEF Decision, DecisionEvent, Sources
  <2>2. /\ d.type = "decision" /\ d.tick = tick /\ d.experience = e
        /\ d.source = "expsm_mechanism_search"
    BY DEF Decision
  <2> HIDE DEF d
  <2>3. Good(d)
    BY <2>1, <2>2 DEF Event, Grounded
  <2> QED
    BY <2>3 DEF d
<1>5. ASSUME NEW links \in {{}, acts} PROVE Good(Decision("rule", "none", 0, links))
  <2> DEFINE d == Decision("rule", "none", 0, links)
  <2>1. d \in DecisionEvent
    BY DEF Decision, DecisionEvent, Sources
  <2>2. d.type = "decision" /\ d.tick = tick /\ d.source = "rule"
    BY DEF Decision
  <2> HIDE DEF d
  <2>3. Good(d)
    BY <2>1, <2>2 DEF Event, Grounded
  <2> QED
    BY <2>3 DEF d
<1> HIDE DEF acts
<1>6. choice = <<>> \/ \E d : Good(d) /\ choice = <<d>>
  BY <1>2, <1>3, <1>4, <1>5
<1> HIDE DEF Good
<1>7. choice \in Seq(Event) /\ \A i \in 1 .. Len(choice) : Good(choice[i])
  <2>1. CASE choice = <<>>
    BY <2>1
  <2>2. ASSUME NEW d, Good(d), choice = <<d>>
        PROVE  choice \in Seq(Event) /\ \A i \in 1 .. Len(choice) : Good(choice[i])
    <3>1. d \in Event
      BY <2>2 DEF Good
    <3> QED
      BY <2>2, <3>1
  <2> QED
    BY <1>6, <2>1, <2>2
<1> QED
  BY <1>7, LogGrows DEF Good

-----------------------------------------------------------------------------
(* The steps.                                                              *)

LEMMA ActIsLogged == ASSUME FeedbackAssumption, EventsInv, Act PROVE EventsInv'
<1>1. PICK predicted \in {<<>>, <<Prediction>>}, active \in SetToAllKPermutations(Experiences) :
         LET past == events \o predicted \o [i \in 1 .. Len(active) |-> Activation(active[i])]
         IN  \E choice \in MayDecide(past) : events' = past \o choice
  BY DEF Act
<1> DEFINE past == events \o predicted \o [i \in 1 .. Len(active) |-> Activation(active[i])]
<1>2. PICK choice \in MayDecide(past) : events' = past \o choice
  BY <1>1
<1>3. Logged(past, tick)
  BY PastIs
<1>4. tick' = tick /\ pc' = "evaluate" /\ tick \in Nat
  BY DEF Act, EventsInv
<1> HIDE DEF past
<1>5. Logged(past \o choice, tick)
  BY <1>3, <1>4, DecisionIs
<1>6. Logged(events', tick')
  BY <1>2, <1>4, <1>5
<1> QED
  BY <1>4, <1>6 DEF EventsInv

\* An outcome for each of the things that are due rests on the log, and then
\* nothing is due.
LEMMA EvaluateIsLogged == ASSUME FeedbackAssumption, EventsInv, Evaluate PROVE EventsInv'
<1>1. tick' = tick /\ mode' = mode /\ pc' = "feedback" /\ tick \in Nat /\ Logged(events, tick)
  BY DEF Evaluate, EventsInv
<1>2. CASE mode = "consolidation"
  <2>1. events' = events
    BY <1>2 DEF Evaluate
  <2>2. Logged(events', tick')
    BY <1>1, <2>1
  <2> QED
    BY <1>1, <1>2, <2>2 DEF EventsInv
<1>3. CASE mode # "consolidation"
  <2> DEFINE n == Cardinality(Due)
             due == InOrder(Due)
  <2>1. PICK status \in [1 .. Len(due) -> {"confirmed", "failed", "inconclusive"}] :
           events' = events \o
              [k \in 1 .. Len(due) |->
                  [type |-> "outcome", of |-> due[k], status |-> status[k], tick |-> tick]]
    BY <1>3 DEF Evaluate
  <2>2. /\ Due \in SUBSET Judgeable /\ Due \in SUBSET (1 .. Len(events)) /\ Len(events) \in Nat
        /\ \A x \in Due : x \in Nat
    BY RecordsArePicked DEF Due
  <2>3. /\ n \in Nat /\ due \in [1 .. n -> Due] /\ Len(due) = n
        /\ \A x \in Due : \E i \in 1 .. n : due[i] = x
    BY <2>2, InOrderLists
  <2> DEFINE more == [k \in 1 .. n |->
                         [type |-> "outcome", of |-> due[k], status |-> status[k], tick |-> tick]]
  <2>4. events' = events \o more /\ status \in [1 .. n -> Statuses]
    BY <2>1, <2>3 DEF Statuses
  <2> HIDE DEF due, n
  <2>5. /\ more \in [1 .. n -> Event]
        /\ \A k \in 1 .. n :
              more[k].type = "outcome" /\ more[k].of = due[k] /\ more[k].tick = tick
    <3>1. ASSUME NEW k \in 1 .. n
          PROVE  [type |-> "outcome", of |-> due[k], status |-> status[k], tick |-> tick] \in Event
      <4>1. due[k] \in Nat
        <5>1. due[k] \in Due
          BY <2>3
        <5> QED
          BY <2>2, <5>1
      <4>2. status[k] \in Statuses
        BY <2>4
      <4> QED
        BY <1>1, <4>1, <4>2 DEF Event, OutcomeEvent
    <3> QED
      BY <3>1
  <2> HIDE DEF more
  <2>6. more \in Seq(Event) /\ Len(more) = n
    BY <2>3, <2>5
  <2>7. ASSUME NEW k \in 1 .. n PROVE more[k].tick <= tick /\ Grounded(events, more[k])
    <3>1. due[k] \in Judgeable
      BY <2>2, <2>3
    <3>2. /\ due[k] \in 1 .. Len(events) /\ events[due[k]].type \in {"decision", "prediction"}
          /\ events[due[k]].tick <= tick
      BY <1>1, <3>1 DEF Judgeable, At, Logged
    <3> QED
      BY <1>1, <2>5, <3>2 DEF Grounded
  <2>8. Logged(events', tick')
    BY <1>1, <2>4, <2>6, <2>7, LogGrows
  <2>9. /\ Len(events') = Len(events) + n
        /\ \A i \in 1 .. Len(events) : i \in 1 .. Len(events') /\ events'[i] = events[i]
        /\ \A i \in 1 .. Len(events') : i \notin 1 .. Len(events) =>
              i - Len(events) \in 1 .. n /\ events'[i] = more[i - Len(events)]
        /\ \A k \in 1 .. n : Len(events) + k \in 1 .. Len(events') /\ events'[Len(events) + k] = more[k]
    <3>1. events \in Seq(Event)
      BY <1>1 DEF Logged
    <3> DEFINE all == events \o more
    <3>2. /\ Len(all) = Len(events) + Len(more)
          /\ \A i \in 1 .. Len(events) : all[i] = events[i]
          /\ \A i \in 1 .. Len(more) : all[Len(events) + i] = more[i]
          /\ \A i \in 1 .. Len(all) : i \notin 1 .. Len(events) =>
                i - Len(events) \in 1 .. Len(more) /\ all[i] = more[i - Len(events)]
      <4>1. more \in Seq(Event)
        BY <2>6
      <4> QED
        BY <3>1, <4>1, Joined
    <3>3. events' = all
      BY <2>4
    <3> HIDE DEF all
    <3>4. \A i \in 1 .. Len(events) : i \in 1 .. Len(all)
      BY <2>2, <2>3, <2>6, <3>2
    <3>5. \A k \in 1 .. n : Len(events) + k \in 1 .. Len(all)
      BY <2>2, <2>3, <2>6, <3>2
    <3> QED
      BY <2>6, <3>2, <3>3, <3>4, <3>5
  <2>10. Due' = {}
    <3>1. ASSUME NEW i \in Judgeable', tick' >= events'[i].tick + Delay
          PROVE  \E o \in Outcomes' : events'[o].of = i
      <4>1. i \in 1 .. Len(events') /\ events'[i].type \in {"decision", "prediction"}
        BY DEF Judgeable, At
      <4>2. i \in 1 .. Len(events)
        BY <2>5, <2>9, <4>1
      <4>3. events'[i] = events[i]
        BY <2>9, <4>2
      <4>4. i \in Judgeable
        BY <4>1, <4>2, <4>3 DEF Judgeable, At
      <4>5. CASE i \in Judged
        <5>1. PICK o \in Outcomes : events[o].of = i
          BY <4>5 DEF Judged
        <5>2. o \in 1 .. Len(events) /\ events[o].type = "outcome"
          BY DEF Outcomes, At
        <5>3. o \in 1 .. Len(events') /\ events'[o] = events[o]
          BY <2>9, <5>2
        <5>4. o \in Outcomes'
          BY <5>2, <5>3 DEF Outcomes, At
        <5> QED
          BY <5>1, <5>3, <5>4
      <4>6. CASE i \notin Judged
        <5>1. i \in Due
          BY <1>1, <3>1, <4>3, <4>4, <4>6 DEF Due
        <5>2. PICK k \in 1 .. n : due[k] = i
          BY <2>3, <5>1
        <5> DEFINE o == Len(events) + k
        <5>3. o \in 1 .. Len(events') /\ events'[o].type = "outcome" /\ events'[o].of = i
          BY <2>5, <2>9, <5>2
        <5>4. o \in Outcomes'
          BY <5>3 DEF Outcomes, At
        <5> QED
          BY <5>3, <5>4
      <4> QED
        BY <4>5, <4>6
    <3> QED
      BY <3>1 DEF Due, Judged
  <2> QED
    BY <1>1, <2>8, <2>10 DEF EventsInv
<1> QED
  BY <1>2, <1>3

\* The log of a process that begins.
LEMMA FreshIsLogged ==
  ASSUME NEW log, log = <<>>, NEW now \in Nat PROVE Logged(log, now)
<1>1. log \in Seq(Event) /\ Len(log) = 0
  OBVIOUS
<1> QED
  BY <1>1 DEF Logged

LEMMA EventsStep ==
  ASSUME FeedbackAssumption, EventsInv, [Next]_vars PROVE EventsInv'
<1>1. CASE Act
  BY <1>1, ActIsLogged
<1>2. CASE Evaluate
  BY <1>2, EvaluateIsLogged
<1>3. CASE Feedback
  <2>1. events' = events /\ pc' = "act" /\ tick' = tick + 1 /\ tick \in Nat
    BY <1>3 DEF Feedback, NextTick, EventsInv
  <2>2. Logged(events, tick)
    BY DEF EventsInv
  <2>3. Logged(events, tick + 1)
    <3>1. \A i \in 1 .. Len(events) : events[i].tick \in Nat
      BY <2>2, EventFields DEF Logged
    <3> QED
      BY <2>1, <2>2, <3>1 DEF Logged
  <2> QED
    BY <2>1, <2>3 DEF EventsInv
<1>4. CASE Stop \/ WriteFails
  <2>1. events' = <<>> /\ pc' = "act" /\ tick' = 1
    BY <1>4 DEF Stop, WriteFails, Restart
  <2>2. Logged(events', tick')
    BY <2>1, FreshIsLogged
  <2> QED
    BY <2>1, <2>2 DEF EventsInv
<1>5. CASE UNCHANGED vars
  <2>1. pc' = pc /\ tick' = tick /\ mode' = mode /\ events' = events
    BY <1>5 DEF vars
  <2> QED
    BY <2>1 DEF EventsInv, Due, Judged, Judgeable, Outcomes, At
<1> QED
  BY <1>1, <1>2, <1>3, <1>4, <1>5 DEF Next

\* What the process has counted is another's when it has ended.
LEMMA EndIsFine ==
  ASSUME FeedbackAssumption, NEW s, NEW p, NEW g, NEW now \in Nat, Fine(s, p, g, now)
  PROVE  Fine(s, {}, g, now + 1)
<1>1. g \in Seq(Told) /\ Processed(p, g, now)
  BY DEF Fine
<1>2. \A i \in 1 .. Len(g) : g[i].process \in Nat
  <2>1. \A i \in 1 .. Len(g) : g[i] \in Told
    BY <1>1
  <2> QED
    BY <2>1 DEF Told
<1>3. ASSUME NEW i \in 1 .. Len(g)
      PROVE  g[i].process <= now + 1 /\ g[i].process # now + 1
  <2>1. g[i].process <= now /\ g[i].process \in Nat
    BY <1>1, <1>2 DEF Processed
  <2> QED
    BY <2>1
<1>4. Processed({}, g, now + 1)
  BY <1>3 DEF Processed
<1> QED
  BY <1>4 DEF Fine

\* What a feedback makes of the file.
LEMMA RunIsFine ==
  ASSUME FeedbackAssumption, EventsInv, CountInv, pc = "feedback", mode = "active"
  PROVE  /\ FineRun(RunAll(Run, Claims))
         /\ \A k \in 1 .. Len(Claims) : Speaks(Claims[k]) =>
               <<Claims[k].experience, Claims[k].key>> \in RunAll(Run, Claims).processed
         /\ \A n \in 0 .. Len(Claims) - 1 : FineRun(RunAll(Run, SubSeq(Claims, 1, n)))
<1>1. FineRun(Run)
  BY DEF FineRun, Run, CountInv
<1> DEFINE claims == Claims
<1>2. Len(claims) \in Nat /\ DOMAIN claims = 1 .. Len(claims) /\ \A k \in 1 .. Len(claims) : Sound(claims[k])
  BY ClaimsAreSound
<1>3. claims \in Seq(ClaimRecord)
  BY ClaimsAre
<1> HIDE DEF claims
<1>4. /\ FineRun(RunAll(Run, claims))
      /\ \A k \in 1 .. Len(claims) : Speaks(claims[k]) =>
            <<claims[k].experience, claims[k].key>> \in RunAll(Run, claims).processed
  BY <1>1, <1>2, LoopIsFine
<1>5. ASSUME NEW n \in 0 .. Len(claims) - 1 PROVE FineRun(RunAll(Run, SubSeq(claims, 1, n)))
  <2> DEFINE part == SubSeq(claims, 1, n)
  <2>1. n \in Nat /\ DOMAIN part = 1 .. n /\ \A k \in 1 .. n : part[k] = claims[k] /\ k \in 1 .. Len(claims)
    BY <1>2, <1>3
  <2> HIDE DEF part
  <2>2. \A k \in 1 .. n : Sound(part[k])
    BY <1>2, <2>1
  <2>3. FineRun(RunAll(Run, part))
    BY <1>1, <2>1, <2>2, LoopIsFine
  <2> QED
    BY <2>3 DEF part
<1> QED
  BY <1>4, <1>5 DEF claims

LEMMA CountStep ==
  ASSUME FeedbackAssumption, EventsInv, CountInv, [Next]_vars PROVE CountInv'
<1>1. restarts \in Nat /\ Fine(store, processed, counted, restarts)
  BY DEF CountInv
<1>2. CASE UNCHANGED <<store, processed, counted, restarts>>
  <2>1. restarts' \in Nat /\ Fine(store', processed', counted', restarts')
    BY <1>1, <1>2
  <2> QED
    BY <2>1 DEF CountInv
<1>3. CASE Feedback /\ mode = "active"
  <2> DEFINE run == RunAll(Run, Claims)
  <2>1. /\ store' = run.store /\ processed' = run.processed /\ counted' = run.counted
        /\ restarts' = restarts /\ pc = "feedback"
    BY <1>3 DEF Feedback
  <2>2. FineRun(run)
    BY <1>3, <2>1, RunIsFine
  <2> HIDE DEF run
  <2>3. Fine(store', processed', counted', restarts')
    BY <2>1, <2>2 DEF FineRun
  <2> QED
    BY <1>1, <2>1, <2>3 DEF CountInv
<1>4. CASE Stop
  <2>1. store' = store /\ processed' = {} /\ counted' = counted /\ restarts' = restarts + 1
    BY <1>4 DEF Stop, Restart
  <2>2. Fine(store, {}, counted, restarts + 1)
    BY <1>1, EndIsFine
  <2>3. Fine(store', processed', counted', restarts')
    BY <2>1, <2>2
  <2> QED
    BY <1>1, <2>1, <2>3 DEF CountInv
<1>5. CASE WriteFails
  <2>1. PICK n \in 0 .. Len(Claims) - 1 :
           /\ store' = RunAll(Run, SubSeq(Claims, 1, n)).store
           /\ counted' = RunAll(Run, SubSeq(Claims, 1, n)).counted
    BY <1>5 DEF WriteFails
  <2> DEFINE run == RunAll(Run, SubSeq(Claims, 1, n))
  <2>2. FineRun(run)
    BY <1>5, RunIsFine DEF WriteFails
  <2>3. store' = run.store /\ counted' = run.counted
    BY <2>1
  <2>4. restarts' = restarts + 1 /\ processed' = {}
    BY <1>5 DEF WriteFails, Restart
  <2> HIDE DEF run
  <2>5. Fine(run.store, {}, run.counted, restarts + 1)
    BY <1>1, <2>2, EndIsFine DEF FineRun
  <2>6. Fine(store', processed', counted', restarts')
    BY <2>3, <2>4, <2>5
  <2> QED
    BY <1>1, <2>4, <2>6 DEF CountInv
<1>6. CASE Act \/ Evaluate \/ (Feedback /\ mode # "active") \/ UNCHANGED vars
  <2>1. UNCHANGED <<store, processed, counted, restarts>>
    BY <1>6 DEF Act, Evaluate, Feedback, vars
  <2> QED
    BY <1>2, <2>1
<1> QED
  BY <1>3, <1>4, <1>5, <1>6 DEF Next

LEMMA InitInv == ASSUME FeedbackAssumption, Init PROVE EventsInv /\ CountInv
<1>1. EventsInv
  <2>1. events = <<>> /\ tick = 1 /\ pc = "act"
    BY DEF Init
  <2>2. Logged(events, tick)
    BY <2>1, FreshIsLogged
  <2> QED
    BY <2>1, <2>2 DEF EventsInv
<1>2. CountInv
  <2>1. /\ store = [e \in Experiences |-> Record] /\ processed = {} /\ counted = <<>> /\ restarts = 0
    BY DEF Init
  <2>2. Record \in Counters /\ Record.hits = 0 /\ Record.misses = 0
    BY DEF Record, Counters
  <2>3. store \in [Experiences -> Counters] /\ processed \in SUBSET (Experiences \X Keys)
        /\ counted \in Seq(Told) /\ Len(counted) = 0
    BY <2>1, <2>2
  <2>4. \A e \in Experiences : About(counted, e) = {}
    BY <2>3 DEF About
  <2>5. AddUp(store, counted)
    <3>1. ASSUME NEW e \in Experiences
          PROVE  /\ store[e].hits = Cardinality({i \in About(counted, e) : counted[i].hit})
                 /\ store[e].misses = Cardinality({i \in About(counted, e) : ~ counted[i].hit})
      <4>1. /\ {i \in About(counted, e) : counted[i].hit} = {}
            /\ {i \in About(counted, e) : ~ counted[i].hit} = {}
        BY <2>4
      <4>2. Cardinality({}) = 0
        BY FS_EmptySet
      <4> QED
        BY <2>1, <2>2, <4>1, <4>2
    <3> QED
      BY <3>1 DEF AddUp
  <2>6. KeepsLast(store, counted) /\ Bounded(counted)
    BY <2>4 DEF KeepsLast, Bounded
  <2>7. Processed(processed, counted, restarts) /\ Owned(counted)
    BY <2>3 DEF Processed, Owned
  <2> QED
    BY <2>1, <2>3, <2>5, <2>6, <2>7 DEF CountInv, Fine
<1> QED
  BY <1>1, <1>2

\* The invariant holds in every state.
THEOREM FeedbackInvariant ==
  ASSUME FeedbackAssumption PROVE Spec => [](EventsInv /\ CountInv)
<1>1. Init => EventsInv /\ CountInv
  BY InitInv
<1>2. EventsInv /\ CountInv /\ [Next]_vars => (EventsInv /\ CountInv)'
  BY EventsStep, CountStep
<1> QED
  BY <1>1, <1>2, PTL DEF Spec

\* CountedOnce: one key counts once for an experience in a process, after a
\* restart only when the file has forgotten it, and the counters in the file are
\* the feedbacks that were given.
THEOREM FeedbackCountsOnce ==
  ASSUME FeedbackAssumption PROVE Spec => []CountedOnce
<1>1. ASSUME CountInv PROVE CountedOnce
  <2>1. AddUp(store, counted) /\ Bounded(counted)
    BY <1>1 DEF CountInv, Fine
  <2>2. \A e \in Experiences : CountedFor(e) = About(counted, e)
    BY DEF CountedFor, About
  <2>3. CountersAddUp
    BY <2>1, <2>2 DEF CountersAddUp, AddUp
  <2>4. ReplayIsBounded
    BY <2>1, <2>2 DEF ReplayIsBounded, Bounded
  <2> QED
    BY <2>3, <2>4 DEF CountedOnce
<1> QED
  BY <1>1, FeedbackInvariant, PTL

-----------------------------------------------------------------------------
(* What must have been counted.                                            *)

\* The claim for a decision that came from an experience.
OwnClaim(d) ==
    Claim(events[d].experience,
          IF events[d].source = "expsm_activation" THEN "activation" ELSE "search",
          IF events[d].source = "expsm_activation"
          THEN Number(events[d].ref) ELSE events[d].ref, d)

\* It is among the claims of the feedback that finds the decision old.
LEMMA OwnIsClaimed ==
  ASSUME FeedbackAssumption, EventsInv, pc = "feedback", mode = "active", NEW d \in Decisions,
         events[d].source # "rule", Old(d)
  PROVE  \E k \in 1 .. Len(Claims) : Claims[k] = OwnClaim(d)
<1>1. d \in 1 .. Len(events) /\ events[d].type = "decision" /\ events \in Seq(Event) /\ tick \in Nat
  BY DEF Decisions, At, EventsInv, Logged
<1>2. events[d].source \in Sources /\ events[d].tick \in Nat
  BY <1>1, EventFields
<1>3. OwnClaim(d) \in ToSet(Claims)
  <2>1. CASE events[d].source = "expsm_activation"
    <3> DEFINE a == events[d].ref
    <3>1. /\ a \in 1 .. Len(events) /\ events[a].type = "activation"
          /\ events[a].experience = events[d].experience /\ events[a].tick <= events[d].tick
      BY <1>1, <2>1 DEF EventsInv, Logged, Grounded
    <3>2. events[a].tick \in Nat
      BY <1>1, <3>1, EventFields
    <3>3. a \in Activations
      BY <3>1 DEF Activations, At
    <3>4. Old(a)
      <4>1. tick >= events[d].tick + Delay /\ Delay \in Nat
        BY DEF Old, FeedbackAssumption
      <4>2. tick >= events[a].tick + Delay
        BY <1>1, <1>2, <3>1, <3>2, <4>1
      <4> QED
        BY <4>2 DEF Old
    <3>5. d \in Selected(a)
      BY <1>2, <2>1, <3>1, <3>2 DEF Selected
    <3>6. OwnClaim(d) = ActivationClaim(a, d)
      BY <2>1, <3>1 DEF OwnClaim, ActivationClaim
    <3>7. OwnClaim(d) \in OfActivation(a)
      BY <3>5, <3>6 DEF OfActivation
    <3> HIDE DEF a
    <3> QED
      BY <3>3, <3>4, <3>7, ClaimsAre
  <2>2. CASE events[d].source # "expsm_activation"
    <3>1. events[d].source = "expsm_mechanism_search"
      BY <1>2, <2>2 DEF Sources
    <3>2. d \in MechanismDecisions
      BY <3>1 DEF MechanismDecisions
    <3>3. OwnClaim(d) = DirectClaim(d)
      BY <2>2 DEF OwnClaim, DirectClaim
    <3> QED
      BY <3>2, <3>3, ClaimsAre
  <2> QED
    BY <2>1, <2>2
<1>4. DOMAIN Claims = 1 .. Len(Claims)
  BY ClaimsAreSound
<1> QED
  BY <1>3, <1>4 DEF ToSet

JudgedInv ==
    pc = "act" /\ mode = "active" =>
        \A d \in Decisions :
            /\ events[d].source # "rule"
            /\ tick > events[d].tick + Delay
            /\ Speaks(OwnClaim(d))
            => <<OwnClaim(d).experience, OwnClaim(d).key>> \in processed

\* What a claim says depends on the log.
LEMMA SameLog ==
  ASSUME events' = events
  PROVE  /\ Decisions' = Decisions
         /\ \A d : OwnClaim(d)' = OwnClaim(d)
         /\ \A c : Speaks(c)' <=> Speaks(c)
<1>1. Decisions' = Decisions /\ Outcomes' = Outcomes
  BY DEF Decisions, Outcomes, At
<1>2. ASSUME NEW i PROVE Number(i)' = Number(i)
  <2>1. {j \in 1 .. i : events'[j].type = events'[i].type} = {j \in 1 .. i : events[j].type = events[i].type}
    OBVIOUS
  <2> QED
    BY <2>1 DEF Number
<1>3. ASSUME NEW d PROVE Linked(d)' = Linked(d)
  BY <1>1 DEF Linked
<1>4. \A c : Speaks(c)' <=> Speaks(c)
  BY DEF Speaks
<1>5. ASSUME NEW d PROVE OwnClaim(d)' = OwnClaim(d)
  <2>1. /\ Number(d)' = Number(d) /\ Number(events[d].ref)' = Number(events[d].ref)
        /\ Linked(d)' = Linked(d)
    BY <1>2, <1>3
  <2> QED
    BY <2>1 DEF OwnClaim, Claim
<1> QED
  BY <1>1, <1>4, <1>5

LEMMA JudgedStep ==
  ASSUME FeedbackAssumption, EventsInv, CountInv, JudgedInv, [Next]_vars PROVE JudgedInv'
<1>1. CASE Act \/ Evaluate
  <2>1. pc' # "act"
    BY <1>1 DEF Act, Evaluate
  <2> QED
    BY <2>1 DEF JudgedInv
<1>2. CASE Stop \/ WriteFails
  <2>1. events' = <<>>
    BY <1>2 DEF Stop, WriteFails, Restart
  <2>2. Decisions' = {}
    BY <2>1 DEF Decisions, At
  <2> QED
    BY <2>2 DEF JudgedInv
<1>3. CASE Feedback
  <2>1. pc = "feedback" /\ events' = events /\ mode' = mode /\ tick' = tick + 1
    BY <1>3 DEF Feedback, NextTick
  <2>2. CASE mode # "active"
    BY <2>1, <2>2 DEF JudgedInv
  <2>3. CASE mode = "active"
    <3>1. processed' = RunAll(Run, Claims).processed
      BY <1>3, <2>3 DEF Feedback
    <3>2. \A k \in 1 .. Len(Claims) : Speaks(Claims[k]) =>
             <<Claims[k].experience, Claims[k].key>> \in processed'
      BY <2>1, <2>3, <3>1, RunIsFine
    <3>3. /\ Decisions' = Decisions
          /\ \A d : OwnClaim(d)' = OwnClaim(d)
          /\ \A c : Speaks(c)' <=> Speaks(c)
      BY <2>1, SameLog
    <3>4. ASSUME NEW d \in Decisions, events[d].source # "rule", tick + 1 > events[d].tick + Delay,
                 Speaks(OwnClaim(d))
          PROVE  <<OwnClaim(d).experience, OwnClaim(d).key>> \in processed'
      <4>1. tick \in Nat /\ events[d].tick \in Nat /\ Delay \in Nat
        <5>1. d \in 1 .. Len(events) /\ events \in Seq(Event)
          BY DEF Decisions, At, EventsInv, Logged
        <5>2. events[d].tick \in Nat
          BY <5>1, EventFields
        <5> QED
          BY <5>2 DEF EventsInv, FeedbackAssumption
      <4>2. tick >= events[d].tick + Delay
        BY <3>4, <4>1
      <4>3. Old(d)
        BY <4>2 DEF Old
      <4>4. \E k \in 1 .. Len(Claims) : Claims[k] = OwnClaim(d)
        BY <2>1, <2>3, <3>4, <4>3, OwnIsClaimed
      <4> QED
        BY <3>2, <3>4, <4>4
    <3>5. \A d \in Decisions' :
             /\ events'[d].source # "rule"
             /\ tick' > events'[d].tick + Delay
             /\ Speaks(OwnClaim(d))'
             => <<OwnClaim(d)'.experience, OwnClaim(d)'.key>> \in processed'
      <4>1. TAKE d \in Decisions'
      <4>2. HAVE events'[d].source # "rule" /\ tick' > events'[d].tick + Delay /\ Speaks(OwnClaim(d))'
      <4>3. d \in Decisions /\ OwnClaim(d)' = OwnClaim(d)
        BY <3>3
      <4>4. Speaks(OwnClaim(d))' <=> Speaks(OwnClaim(d))
        BY <2>1, <4>3 DEF Speaks
      <4> QED
        BY <2>1, <3>4, <4>2, <4>3, <4>4
    <3> QED
      BY <3>5 DEF JudgedInv
  <2> QED
    BY <2>2, <2>3
<1>4. CASE UNCHANGED vars
  <2>1. pc' = pc /\ tick' = tick /\ mode' = mode /\ events' = events /\ processed' = processed
    BY <1>4 DEF vars
  <2>2. /\ Decisions' = Decisions
        /\ \A d : OwnClaim(d)' = OwnClaim(d)
        /\ \A c : Speaks(c)' <=> Speaks(c)
    BY <2>1, SameLog
  <2>3. \A d : Speaks(OwnClaim(d))' <=> Speaks(OwnClaim(d))
    BY <2>1, <2>2 DEF Speaks
  <2> QED
    BY <2>1, <2>2, <2>3 DEF JudgedInv
<1> QED
  BY <1>1, <1>2, <1>3, <1>4 DEF Next

\* SourcedDecisionsCount: the decision of an experience is counted for it alone,
\* that of a mechanism by its own outcome; and when an active tick is over each
\* that is old enough and came to a conclusion has been, in this process or, for
\* what the file remembers, in an earlier one.
THEOREM DecisionsCountForTheirOwn ==
  ASSUME FeedbackAssumption PROVE Spec => []SourcedDecisionsCount
<1>1. Init => JudgedInv
  <2>1. ASSUME Init PROVE Decisions = {}
    <3>1. events = <<>>
      BY <2>1 DEF Init
    <3> QED
      BY <3>1 DEF Decisions, At
  <2> QED
    BY <2>1 DEF JudgedInv
<1>2. EventsInv /\ CountInv /\ JudgedInv /\ [Next]_vars => JudgedInv'
  BY JudgedStep
<1>3. CountInv /\ JudgedInv => SourcedDecisionsCount
  <2>1. ASSUME CountInv PROVE SourcedDecisionsAreOwned
    BY <2>1 DEF CountInv, Fine, Owned, SourcedDecisionsAreOwned
  <2>2. ASSUME JudgedInv PROVE SelectedAreJudged
    BY <2>2 DEF JudgedInv, SelectedAreJudged, OwnClaim
  <2> QED
    BY <2>1, <2>2 DEF SourcedDecisionsCount
<1> QED
  BY <1>1, <1>2, <1>3, FeedbackInvariant, PTL DEF Spec

-----------------------------------------------------------------------------
(***************************************************************************)
(* ValueFeedback.                                                          *)
(***************************************************************************)

-----------------------------------------------------------------------------
(* What is read from evidence.                                             *)

\* What a score may be.
Scores == -1000 .. 1000

\* A sum of integers is one.
LEMMA TotalIs ==
  ASSUME NEW list \in Seq(Int)
  PROVE  Total(list) \in Int
<1> DEFINE n == Len(list)
           step == [p \in Int \X (1 .. n) |-> p[1] + list[p[2]]]
           Sums(f) == f = [s \in SUBSET (1 .. n) |->
                              IF s = {} THEN 0 ELSE f[s \ {Max(s)}] + list[Max(s)]]
           iter == CHOOSE f : Sums(f)
<1>1. n \in Nat /\ DOMAIN list = 1 .. n /\ \A i \in 1 .. n : list[i] \in Int
  OBVIOUS
<1>2. ASSUME NEW s \in SUBSET (1 .. n), s # {}
      PROVE  Max(s) \in 1 .. n /\ s \ {Max(s)} \in SUBSET (1 .. n)
  <2>1. Max(s) \in s
    BY <1>1, <1>2, GreatestIs
  <2> QED
    BY <2>1
<1>3. step \in [Int \X (1 .. n) -> Int]
  <2>1. ASSUME NEW p \in Int \X (1 .. n) PROVE p[1] + list[p[2]] \in Int
    <3>1. p[1] \in Int /\ p[2] \in 1 .. n
      OBVIOUS
    <3>2. list[p[2]] \in Int
      BY <1>1, <3>1
    <3> QED
      BY <3>1, <3>2
  <2> QED
    BY <2>1
<1>4. PICK f \in [SUBSET (1 .. n) -> Int] : Folded(f, 0, step)
  <2> HIDE DEF step, n
  <2>1. Foldable(Int, 0, step, n)
    <3>1. 0 \in Int
      OBVIOUS
    <3> QED
      BY <1>1, <1>3, <3>1, FoldsExist
  <2> QED
    BY <2>1 DEF Foldable
<1>5. Sums(f)
  <2>1. ASSUME NEW s \in SUBSET (1 .. n)
        PROVE  f[s] = IF s = {} THEN 0 ELSE f[s \ {Max(s)}] + list[Max(s)]
    <3>1. CASE s = {}
      BY <1>4, <3>1 DEF Folded
    <3>2. CASE s # {}
      <4> DEFINE p == <<f[s \ {Max(s)}], Max(s)>>
      <4>1. f[s] = step[p]
        BY <1>4, <3>2 DEF Folded
      <4>2. p \in Int \X (1 .. n)
        BY <1>2, <1>4, <3>2
      <4>3. step[p] = p[1] + list[p[2]]
        BY <4>2
      <4> HIDE DEF step
      <4> QED
        BY <3>2, <4>1, <4>3
    <3> QED
      BY <3>1, <3>2
  <2> QED
    BY <1>4, <2>1
<1> HIDE DEF step
<1>6. Sums(iter)
  BY <1>5
<1>7. Total(list) = iter[1 .. n]
  BY <1>1 DEF Total, FoldLeft, MapThenFoldSet
<1> HIDE DEF iter
<1> DEFINE Good == {k \in Nat : k <= n => iter[1 .. k] \in Int}
<1>8. 0 \in Good
  <2>1. 1 .. 0 = {} /\ {} \in SUBSET (1 .. n)
    OBVIOUS
  <2> QED
    BY <1>6, <2>1
<1>9. ASSUME NEW k \in Nat, k \in Good PROVE k + 1 \in Good
  <2>1. SUFFICES ASSUME k + 1 <= n PROVE iter[1 .. k + 1] \in Int
    OBVIOUS
  <2> DEFINE s == 1 .. k + 1
  <2>2. s \in SUBSET (1 .. n) /\ s # {} /\ k + 1 \in s /\ s \ {k + 1} = 1 .. k
    BY <1>1, <2>1
  <2>3. Max(s) = k + 1
    <3>1. Max(s) \in s /\ k + 1 <= Max(s)
      BY <1>1, <2>2, GreatestIs
    <3> QED
      BY <3>1
  <2>4. iter[s] = iter[1 .. k] + list[k + 1]
    <3>1. iter[s] = iter[s \ {Max(s)}] + list[Max(s)]
      BY <1>6, <2>2
    <3> HIDE DEF s
    <3> QED
      BY <2>2, <2>3, <3>1
  <2>5. iter[1 .. k] \in Int /\ list[k + 1] \in Int
    BY <1>1, <1>9, <2>1
  <2> QED
    BY <2>4, <2>5
<1> HIDE DEF Good
<1>10. n \in Good
  BY <1>1, <1>8, <1>9, NatSets
<1> QED
  BY <1>1, <1>7, <1>10 DEF Good

\* What is shown of a dimension is an amount.
LEMMA ShownIs ==
  ASSUME NEW shows, shows \in [DOMAIN shows -> Amounts], NEW d
  PROVE  (IF d \in DOMAIN shows THEN shows[d] ELSE 0) \in Amounts
<1>1. 0 \in Amounts
  BY DEF Amounts
<1>2. d \in DOMAIN shows => shows[d] \in Amounts
  <2> HIDE DEF Amounts
  <2> QED
    OBVIOUS
<1> QED
  BY <1>1, <1>2

\* And so is the strongest that is.
LEMMA DimensionIs ==
  ASSUME NEW e, WellFormed(e), NEW d
  PROVE  Dimension(e, d) \in Amounts
<1> DEFINE Of(shows) == IF d \in DOMAIN shows THEN shows[d] ELSE 0
           shown == {Of(e.entry)} \cup {Of(e.signals[i].shows) : i \in LinkedSignals(e)}
           S == shown \ {0}
<1>1. shown \subseteq 0 .. 1000
  <2>1. Of(e.entry) \in Amounts
    <3>1. e.entry \in [DOMAIN e.entry -> Amounts]
      BY DEF WellFormed
    <3> QED
      BY <3>1, ShownIs
  <2>2. ASSUME NEW i \in LinkedSignals(e) PROVE Of(e.signals[i].shows) \in Amounts
    <3>1. i \in DOMAIN e.signals
      BY DEF LinkedSignals
    <3>2. e.signals[i].shows \in [DOMAIN e.signals[i].shows -> Amounts]
      BY <3>1 DEF WellFormed
    <3> QED
      BY <3>2, ShownIs
  <2>3. shown \subseteq Amounts
    <3> HIDE DEF Of
    <3> QED
      BY <2>1, <2>2
  <2> HIDE DEF shown
  <2> QED
    BY <2>3 DEF Amounts
<1>2. Of(e.entry) \in shown
  OBVIOUS
<1> HIDE DEF shown
<1>3. \E x \in shown : \A y \in shown : y <= x
  <2>1. CASE S = {}
    <3>1. Of(e.entry) = 0
      BY <1>2, <2>1
    <3> QED
      BY <1>2, <2>1, <3>1
  <2>2. CASE S # {}
    <3> DEFINE n == 1000
    <3>1. n \in Nat /\ S \in SUBSET (1 .. n)
      BY <1>1
    <3> HIDE DEF n
    <3>2. Max(S) \in S /\ \A x \in S : x <= Max(S)
      <4> HIDE DEF S
      <4> QED
        BY <2>2, <3>1, GreatestIs
    <3>3. Max(S) \in shown /\ Max(S) \in 0 .. 1000
      BY <1>1, <3>2
    <3>4. \A y \in shown : y <= Max(S)
      BY <3>2, <3>3
    <3> QED
      BY <3>3, <3>4
  <2> QED
    BY <2>1, <2>2
<1>4. Dimension(e, d) \in shown
  <2>1. Dimension(e, d) = CHOOSE x \in shown : \A y \in shown : y <= x
    BY DEF Dimension, shown
  <2> QED
    BY <1>3, <2>1
<1> QED
  BY <1>1, <1>4 DEF Amounts

\* The reading of evidence is cut to its range.
LEMMA ScoredIs ==
  ASSUME NEW e, WellFormed(e)
  PROVE  Scored(e).score \in Scores /\ Scored(e).strength \in Amounts
<1>1. PositiveSignal(e) \in Int /\ NegativeSignal(e) \in Int
  <2>1. \A d : Dimension(e, d) \in Int
    BY DimensionIs DEF Amounts
  <2> DEFINE a == 300 * Dimension(e, "usefulness") + 200 * Dimension(e, "need")
                    + 150 * Dimension(e, "want") + 250 * Dimension(e, "safety")
                    + 100 * Dimension(e, "priority")
             b == 450 * Dimension(e, "harmfulness") + 350 * Dimension(e, "avoid")
  <2>2. a \in Int /\ b \in Int
    BY <2>1
  <2>3. PositiveSignal(e) = a \div 1000 /\ NegativeSignal(e) = b \div 1000
    BY DEF PositiveSignal, NegativeSignal
  <2> HIDE DEF a, b
  <2> QED
    BY <2>2, <2>3
<1> DEFINE good == PositiveSignal(e)
           bad == NegativeSignal(e)
           linked == LinkedOutcomes(e)
           List(table) ==
              [i \in DOMAIN e.outcomes |-> If(i \in linked, table[e.outcomes[i].status])]
           scores == Total(List(OutcomeScore))
           strengths == Total(List(OutcomeStrength))
<1>2. scores \in Int /\ strengths \in Int
  <2>1. \A s \in OutcomeStatuses : OutcomeScore[s] \in Int /\ OutcomeStrength[s] \in Int
    BY DEF OutcomeStatuses, OutcomeScore, OutcomeStrength
  <2>2. /\ Len(e.outcomes) \in Nat /\ DOMAIN e.outcomes = 1 .. Len(e.outcomes)
        /\ \A i \in DOMAIN e.outcomes : e.outcomes[i].status \in OutcomeStatuses
    <3> DEFINE list == e.outcomes
               Seen == [own : BOOLEAN, of : Nat, kind : {"decision", "effect", "prediction"},
                        after : Int, status : OutcomeStatuses, mentions : BOOLEAN]
    <3>1. list \in Seq(Seen)
      BY DEF WellFormed
    <3>2. \A o \in Seen : o.status \in OutcomeStatuses
      OBVIOUS
    <3> HIDE DEF list, Seen
    <3>3. Len(list) \in Nat /\ DOMAIN list = 1 .. Len(list)
          /\ \A i \in DOMAIN list : list[i] \in Seen
      BY <3>1
    <3>4. \A i \in DOMAIN list : list[i].status \in OutcomeStatuses
      BY <3>2, <3>3
    <3> QED
      BY <3>3, <3>4 DEF list
  <2>3. List(OutcomeScore) \in Seq(Int)
    BY <2>1, <2>2 DEF If
  <2>4. List(OutcomeStrength) \in Seq(Int)
    BY <2>1, <2>2 DEF If
  <2> HIDE DEF List
  <2> QED
    BY <2>3, <2>4, TotalIs
<1> DEFINE confirmed == \E i \in linked : e.outcomes[i].status = "confirmed"
           wanted == If(Mentioned(e), 450) + Upto(450, good) - Upto(450, bad) + scores
           avoided == good - bad + If(confirmed, 250)
           strength == If(Mentioned(e), 350) + Upto(350, good) + Upto(350, bad)
                         + strengths + If(e.active, 80) + If(LinkedEffects(e) # {}, 80)
           score == (IF e.avoid THEN avoided ELSE wanted) + If(e.active, 80)
<1>3. Scored(e) = [score |-> Signed(score), strength |-> Unit(strength)]
  BY DEF Scored
<1>4. wanted \in Int /\ avoided \in Int /\ strength \in Int
  <2> HIDE DEF good, bad, scores, strengths, confirmed
  <2>1. good \in Int /\ bad \in Int
    BY <1>1 DEF good, bad
  <2>2. Upto(450, good) \in Int /\ Upto(450, bad) \in Int /\ Upto(350, good) \in Int
        /\ Upto(350, bad) \in Int
    BY <2>1 DEF Upto
  <2>3. \A c, x : x \in Int => If(c, x) \in Int
    BY DEF If
  <2> QED
    BY <1>2, <2>1, <2>2, <2>3
<1> HIDE DEF wanted, avoided, strength
<1>5. score \in Int
  <2>1. If(e.active, 80) \in Int
    BY DEF If
  <2> QED
    BY <1>4, <2>1
<1> HIDE DEF score
<1>6. Signed(score) \in -1000 .. 1000 /\ Unit(strength) \in 0 .. 1000
  BY <1>4, <1>5 DEF Signed, Unit
<1> QED
  BY <1>3, <1>6 DEF Amounts, Scores

\* What a status says of the score.
LEMMA StatusIs ==
  ASSUME NEW score \in Int, NEW strength \in Int
  PROVE  /\ Status(score, strength) \in {"satisfied", "partially_satisfied"} => score >= 200
         /\ Status(score, strength) = "worsened" => score <= -350
         /\ Status(score, strength) = "not_satisfied" => score < 200 /\ score > -350
BY DEF Status

\* What the strength of a candidate is made of.
Weight(score, strength, mechanism) ==
  600 * Magnitude(score) + 250 * strength + 150 * mechanism

LEMMA WeightIs ==
  ASSUME NEW score \in Scores, NEW strength \in Amounts, NEW mechanism \in Amounts
  PROVE  Weight(score, strength, mechanism) \in Int
<1>1. Magnitude(score) \in Int
  BY DEF Magnitude, Scores
<1> QED
  BY <1>1 DEF Weight, Amounts

\* A score that is clear on neither side is not enough for the review.
LEMMA WeightIsLow ==
  ASSUME NEW score \in Scores, NEW strength \in Amounts, NEW mechanism \in Amounts,
         score < 200, score > -350
  PROVE  Weight(score, strength, mechanism) < 700 * 1000
<1> DEFINE m == Magnitude(score)
<1>1. m \in Int /\ m <= 349
  BY DEF Magnitude, Scores
<1>2. Weight(score, strength, mechanism) = 600 * m + 250 * strength + 150 * mechanism
  BY DEF Weight
<1> HIDE DEF m
<1> USE DEF Amounts
<1>3. 600 * m + 250 * strength + 150 * mechanism < 700 * 1000
  BY <1>1
<1> QED
  BY <1>2, <1>3

\* What is in a reading.
LEMMA ReadingIs ==
  ASSUME ValueAssumption, NEW r \in Readings
  PROVE  /\ r.score \in Scores /\ r.strength \in Amounts /\ r.mechanism \in Amounts
         /\ r.status = Status(r.score, r.strength)
         /\ CandidateStrength(r) \in Amounts /\ Bucket(r) \in Buckets
         /\ ReviewDecision(r) \in {"ready", "wait", "reject"}
         /\ r # NoReading
<1>1. PICK e \in Evidence : r = Reading(e)
  BY DEF Readings
<1>2. WellFormed(e)
  BY DEF ValueAssumption
<1>3. Scored(e).score \in Scores /\ Scored(e).strength \in Amounts
  BY <1>2, ScoredIs
<1>4. /\ r.score = Scored(e).score /\ r.strength = Scored(e).strength
      /\ r.mechanism = e.mechanism /\ r.status = Status(r.score, r.strength)
  BY <1>1 DEF Reading
<1>5. r.score \in Scores /\ r.strength \in Amounts /\ r.mechanism \in Amounts
  BY <1>2, <1>3, <1>4 DEF WellFormed
<1>6. CandidateStrength(r) \in Amounts
  <2> DEFINE x == Weight(r.score, r.strength, r.mechanism)
  <2>1. x \in Int
    BY <1>5, WeightIs, Zenon
  <2> HIDE DEF x
  <2>2. x \div 1000 \in Int
    BY <2>1
  <2>3. CandidateStrength(r) = Unit(x \div 1000)
    BY DEF CandidateStrength, Weight, x
  <2> QED
    BY <2>2, <2>3 DEF Unit, Amounts
<1>7. Bucket(r) \in Buckets
  BY DEF Bucket, Buckets
<1>8. ReviewDecision(r) \in {"ready", "wait", "reject"}
  BY DEF ReviewDecision
<1>9. r # NoReading
  <2>1. r.status # "none"
    BY <1>4 DEF Status
  <2> QED
    BY <2>1 DEF NoReading
<1> QED
  BY <1>4, <1>5, <1>6, <1>7, <1>8, <1>9

\* Only evidence that is clear gets ready, and then it counts on its side: what
\* is neither satisfied nor harmed has a score of less than 350 either way, and
\* so a strength of at most 610.
LEMMA ReadyIsClear ==
  ASSUME ValueAssumption, NEW r \in Readings, ReviewDecision(r) = "ready"
  PROVE  \/ Bucket(r) = "positive" /\ r.score >= 200
         \/ Bucket(r) = "negative" /\ r.score <= -350
<1>1. PICK score \in Scores, strength \in Amounts, mechanism \in Amounts :
         /\ r.score = score /\ r.strength = strength /\ r.mechanism = mechanism
         /\ r.status = Status(score, strength)
  <2>1. /\ r.score \in Scores /\ r.strength \in Amounts /\ r.mechanism \in Amounts
        /\ r.status = Status(r.score, r.strength)
    BY ReadingIs
  <2> QED
    BY <2>1, Zenon
<1> USE DEF Scores, Amounts
<1>2. CandidateType(r) # "inconclusive" /\ CandidateStrength(r) >= 700 /\ strength >= 600
  BY <1>1 DEF ReviewDecision, AtLeast
<1>3. CASE r.status \in {"satisfied", "partially_satisfied"}
  <2>1. CandidateType(r) = "positive"
    BY <1>3 DEF CandidateType
  <2>2. Bucket(r) = "positive"
    BY <2>1 DEF Bucket
  <2>3. r.score >= 200
    <3>1. Status(score, strength) \in {"satisfied", "partially_satisfied"}
      <4> HIDE DEF Scores, Amounts
      <4> QED
        BY <1>1, <1>3, Zenon
    <3>2. score >= 200
      BY <3>1, StatusIs
    <3> QED
      BY <1>1, <3>2
  <2> QED
    BY <2>2, <2>3
<1>4. CASE Harmed(r)
  <2>1. r.score <= -350
    <3>1. CASE r.status = "worsened"
      <4>1. Status(score, strength) = "worsened"
        <5> HIDE DEF Scores, Amounts
        <5> QED
          BY <1>1, <3>1, Zenon
      <4>2. score <= -350
        BY <4>1, StatusIs
      <4> QED
        BY <1>1, <4>2
    <3>2. CASE r.status # "worsened"
      BY <1>4, <3>2 DEF Harmed
    <3> QED
      BY <3>1, <3>2
  <2>2. r.status \notin {"satisfied", "partially_satisfied"}
    BY <1>4 DEF Harmed
  <2>3. CandidateType(r) = "negative" /\ Direction(r) = "negative"
    BY <1>4, <2>2 DEF CandidateType, Direction
  <2>4. Bucket(r) = "negative"
    BY <2>3 DEF Bucket
  <2> QED
    BY <2>1, <2>4
<1>5. CASE r.status \notin {"satisfied", "partially_satisfied"} /\ ~ Harmed(r)
  <2>1. r.status = "not_satisfied"
    BY <1>2, <1>5 DEF CandidateType
  <2>2. score < 200 /\ score > -350
    <3>1. Status(score, strength) = "not_satisfied"
      <4> HIDE DEF Scores, Amounts
      <4> QED
        BY <1>1, <2>1, Zenon
    <3> QED
      BY <3>1, StatusIs
  <2> DEFINE x == Weight(score, strength, mechanism)
  <2>4. x \in Int /\ x < 700 * 1000
    <3> HIDE DEF Scores, Amounts
    <3> QED
      BY <2>2, WeightIs, WeightIsLow
  <2> HIDE DEF x
  <2>5. x \div 1000 \in Int /\ x \div 1000 < 700
    BY <2>4
  <2>6. CandidateStrength(r) = Unit(x \div 1000)
    BY <1>1 DEF CandidateStrength, Weight, x
  <2>7. CandidateStrength(r) < 700
    BY <2>5, <2>6 DEF Unit
  <2>8. CandidateStrength(r) \in Int
    BY <2>5, <2>6 DEF Unit
  <2> QED
    BY <1>2, <2>7, <2>8
<1> QED
  BY <1>3, <1>4, <1>5

-----------------------------------------------------------------------------
(* The invariant of value feedback.                                        *)

Observation == [decision : Nat, reading : Readings, tick : Nat]
ValueCandidate == [observation : Nat, tick : Nat]
ReviewAnswers == {"ready", "wait", "reject"}
ValueReview == [candidate : Nat, tick : Nat, decision : ReviewAnswers]
Update == [id : Nat, process : Nat, candidate : Nat, tick : Nat, score : Int, bucket : Buckets,
           strength : Int]

\* Each rests on what is there, and a review decides what the reading says.
ListsInv ==
    /\ clock \in Nat /\ faults \in Nat /\ process \in Nat
    /\ module \in {"observe", "build", "review", "write"}
    /\ Len(decisions) \in Nat
    /\ observations \in Seq(Observation)
    /\ valueCandidates \in Seq(ValueCandidate)
    /\ \A c \in 1 .. Len(valueCandidates) : valueCandidates[c].observation \in 1 .. Len(observations)
    /\ valueReviews \in Seq(ValueReview)
    /\ \A r \in 1 .. Len(valueReviews) :
          /\ valueReviews[r].candidate \in 1 .. Len(valueCandidates)
          /\ valueReviews[r].decision = ReviewDecision(ReadingOf(valueReviews[r].candidate))

\* What speaks of the same keeps its distance.
Paced(n, of, when, cooldown) ==
    \A i, j \in 1 .. n : i < j /\ of[i] = of[j] => when[j] >= when[i] + cooldown

ObservationsSpokenOf == [i \in 1 .. Len(valueCandidates) |-> valueCandidates[i].observation]
CandidatesSpokenOf == [i \in 1 .. Len(valueReviews) |-> valueReviews[i].candidate]
CandidateTicks == [i \in 1 .. Len(valueCandidates) |-> valueCandidates[i].tick]
ReviewTicks == [i \in 1 .. Len(valueReviews) |-> valueReviews[i].tick]

PacedInv ==
    /\ Paced(Len(valueCandidates), ObservationsSpokenOf, CandidateTicks, CandidateCooldown)
    /\ Paced(Len(valueReviews), CandidatesSpokenOf, ReviewTicks, ReviewCooldown)

\* The updates of this process are copies of its reviews, and remembered.
Copies(list, made, applied, now) ==
    /\ \A i \in 1 .. Len(list) : list[i].process <= now
    /\ \A i \in 1 .. Len(list) : list[i].process = now =>
          /\ list[i].id \in applied /\ list[i].id \in 1 .. Len(made)
          /\ list[i].candidate = made[list[i].id].candidate
          /\ list[i].tick = made[list[i].id].tick
    /\ \A r \in applied : \E i \in 1 .. Len(list) : list[i].id = r /\ list[i].process = now

OnceIn(list) ==
    \A i, j \in 1 .. Len(list) :
        i < j /\ list[i].id = list[j].id
            => list[i].process # list[j].process /\ j - i > LinkWindow

ApartIn(list) ==
    \A i, j \in 1 .. Len(list) :
        i < j /\ list[i].process = list[j].process /\ list[i].candidate = list[j].candidate
            => Apart(list[i].tick, list[j].tick, ReviewCooldown)

OnItsSide(u) ==
    \/ u.bucket = "positive" /\ u.score >= 200
    \/ u.bucket = "negative" /\ u.score <= -350

AddedInv ==
    /\ updates \in Seq(Update)
    /\ record = AddedAll(Unvalued, updates)
    /\ Copies(updates, valueReviews, appliedIds, process)
    /\ OnceIn(updates) /\ ApartIn(updates)
    /\ \A i \in 1 .. Len(updates) : OnItsSide(updates[i])

ValueInv == ListsInv /\ PacedInv /\ AddedInv

-----------------------------------------------------------------------------
(* The record.                                                             *)

\* The records adding a list of updates goes through.
AddingRun(run, base, list, n) ==
    /\ run[0] = base
    /\ \A k \in 1 .. n : run[k] = Added(run[k - 1], list[k])
    /\ AddedAll(base, list) = run[n]

\* Adding a list of updates goes through a record for each of them.
LEMMA AddingRuns ==
  ASSUME NEW base, NEW list, NEW n \in Nat, DOMAIN list = 1 .. n
  PROVE  \E run : AddingRun(run, base, list, n)
<1> DEFINE Runs(f, k) ==
              f = [s \in SUBSET (1 .. k) |->
                      IF s = {} THEN base ELSE Added(f[s \ {Max(s)}], list[Max(s)])]
           Good == {k \in Nat : \E f : Runs(f, k)}
<1>1. 0 \in Good
  <2> DEFINE f == [s \in SUBSET (1 .. 0) |-> base]
  <2>1. \A s \in SUBSET (1 .. 0) : s = {}
    OBVIOUS
  <2>2. Runs(f, 0)
    BY <2>1
  <2> QED
    BY <2>2
<1>2. ASSUME NEW k \in Nat, k \in Good PROVE k + 1 \in Good
  <2>1. PICK g : Runs(g, k)
    BY <1>2
  <2> DEFINE h == [s \in SUBSET (1 .. k + 1) |->
                      IF s = {} THEN base ELSE Added(g[s \ {Max(s)}], list[Max(s)])]
  <2>2. ASSUME NEW s \in SUBSET (1 .. k + 1), s # {} PROVE s \ {Max(s)} \in SUBSET (1 .. k)
    <3>1. Max(s) \in s /\ \A x \in s : x <= Max(s)
      <4>1. k + 1 \in Nat
        OBVIOUS
      <4> QED
        BY <2>2, <4>1, GreatestIs
    <3>2. ASSUME NEW x \in s, x # Max(s) PROVE x \in 1 .. k
      <4>1. x <= Max(s) /\ x \in 1 .. k + 1 /\ Max(s) \in 1 .. k + 1
        BY <3>1
      <4> QED
        BY <3>2, <4>1
    <3> QED
      BY <3>2
  <2>3. \A t \in SUBSET (1 .. k) : t \in SUBSET (1 .. k + 1)
    OBVIOUS
  <2>4. ASSUME NEW t \in SUBSET (1 .. k) PROVE h[t] = g[t]
    BY <2>1, <2>3
  <2>5. ASSUME NEW s \in SUBSET (1 .. k + 1), s # {} PROVE h[s \ {Max(s)}] = g[s \ {Max(s)}]
    BY <2>2, <2>4, <2>5
  <2>6. Runs(h, k + 1)
    <3>1. ASSUME NEW s \in SUBSET (1 .. k + 1)
          PROVE  (IF s = {} THEN base ELSE Added(g[s \ {Max(s)}], list[Max(s)]))
                    = (IF s = {} THEN base ELSE Added(h[s \ {Max(s)}], list[Max(s)]))
      <4>1. CASE s = {}
        BY <4>1
      <4>2. CASE s # {}
        <5>1. h[s \ {Max(s)}] = g[s \ {Max(s)}]
          BY <2>5, <4>2
        <5> HIDE DEF h
        <5> QED
          BY <5>1, <4>2
      <4> QED
        BY <4>1, <4>2
    <3> QED
      BY <3>1
  <2> HIDE DEF h, Runs
  <2>7. \E f : Runs(f, k + 1)
    BY <2>6
  <2> QED
    BY <2>7
<1>3. n \in Good
  <2> HIDE DEF Good
  <2> QED
    BY <1>1, <1>2, NatSets
<1> DEFINE iter == CHOOSE f : Runs(f, n)
<1>4. Runs(iter, n)
  BY <1>3
<1>5. AddedAll(base, list) = iter[1 .. n]
  BY DEF AddedAll, FoldLeft, MapThenFoldSet
<1> HIDE DEF iter
<1> DEFINE run == [k \in 0 .. n |-> iter[1 .. k]]
<1>6. run[0] = base
  <2>1. 1 .. 0 = {} /\ {} \in SUBSET (1 .. n)
    OBVIOUS
  <2> QED
    BY <1>4, <2>1
<1>7. ASSUME NEW k \in 1 .. n PROVE run[k] = Added(run[k - 1], list[k])
  <2>1. /\ (1 .. k) \in SUBSET (1 .. n) /\ k \in 1 .. k /\ k \in Nat /\ k - 1 \in 0 .. n
        /\ (1 .. k) \ {k} = 1 .. (k - 1)
    OBVIOUS
  <2>2. Max(1 .. k) = k
    <3> DEFINE S == 1 .. k
    <3>1. S \in SUBSET (1 .. k) /\ S # {} /\ k \in S
      BY <2>1
    <3>2. Max(S) \in S /\ k <= Max(S)
      BY <2>1, <3>1, GreatestIs
    <3> QED
      BY <2>1, <3>2
  <2>3. iter[1 .. k] = Added(iter[(1 .. k) \ {k}], list[k])
    BY <1>4, <2>1, <2>2
  <2>4. run[k] = iter[1 .. k] /\ run[k - 1] = iter[1 .. (k - 1)]
    BY <2>1
  <2> HIDE DEF run
  <2> QED
    BY <2>1, <2>3, <2>4
<1>8. AddedAll(base, list) = run[n]
  BY <1>5
<1> HIDE DEF run
<1> QED
  BY <1>6, <1>7, <1>8 DEF AddingRun

\* Adding more updates is adding all of them.
LEMMA AddingMore ==
  ASSUME NEW base, NEW T, NEW s \in Seq(T), NEW t \in Seq(T)
  PROVE  AddedAll(AddedAll(base, s), t) = AddedAll(base, s \o t)
<1> DEFINE st == s \o t
           n == Len(s)
           m == Len(t)
<1>1. /\ n \in Nat /\ m \in Nat /\ Len(st) = n + m
      /\ DOMAIN s = 1 .. n /\ DOMAIN t = 1 .. m /\ DOMAIN st = 1 .. n + m
      /\ \A i \in 1 .. n : st[i] = s[i]
      /\ \A i \in 1 .. m : st[n + i] = t[i]
  <2>1. st \in Seq(T)
    OBVIOUS
  <2> QED
    BY <2>1, Joined
<1> HIDE DEF st, n, m
<1>2. PICK a : AddingRun(a, base, s, n)
  BY <1>1, AddingRuns
<1>3. PICK b : AddingRun(b, AddedAll(base, s), t, m)
  BY <1>1, AddingRuns
<1>4. PICK c : AddingRun(c, base, st, n + m)
  <2>1. n + m \in Nat
    BY <1>1
  <2> QED
    BY <1>1, <2>1, AddingRuns
<1>5. \A k \in 1 .. n : a[k] = Added(a[k - 1], s[k]) /\ c[k] = Added(c[k - 1], s[k])
  <2>1. \A k \in 1 .. n : k \in 1 .. n + m
    BY <1>1
  <2> QED
    BY <1>1, <1>2, <1>4, <2>1 DEF AddingRun
<1>6. \A k \in 1 .. m : b[k] = Added(b[k - 1], t[k]) /\ c[n + k] = Added(c[n + (k - 1)], t[k])
  <2>1. ASSUME NEW k \in 1 .. m PROVE n + k \in 1 .. n + m /\ (n + k) - 1 = n + (k - 1)
    BY <1>1
  <2>2. ASSUME NEW k \in 1 .. m PROVE c[n + k] = Added(c[(n + k) - 1], st[n + k])
    BY <1>4, <2>1 DEF AddingRun
  <2> QED
    BY <1>1, <1>3, <2>1, <2>2 DEF AddingRun
<1> DEFINE Good == {k \in Nat : k <= n => a[k] = c[k]}
           More == {k \in Nat : k <= m => b[k] = c[n + k]}
<1>7. n \in Good
  <2>1. 0 \in Good
    BY <1>2, <1>4 DEF AddingRun
  <2>2. ASSUME NEW k \in Nat, k \in Good PROVE k + 1 \in Good
    <3>1. SUFFICES ASSUME k + 1 <= n PROVE a[k + 1] = c[k + 1]
      OBVIOUS
    <3>2. k + 1 \in 1 .. n /\ (k + 1) - 1 = k /\ a[k] = c[k]
      BY <1>1, <2>2, <3>1
    <3> QED
      BY <1>5, <3>2
  <2> HIDE DEF Good
  <2> QED
    BY <1>1, <2>1, <2>2, NatSets
<1>8. m \in More
  <2>1. 0 \in More
    <3>1. b[0] = AddedAll(base, s) /\ AddedAll(base, s) = a[n]
      BY <1>2, <1>3 DEF AddingRun
    <3>2. a[n] = c[n] /\ n + 0 = n
      BY <1>1, <1>7
    <3> QED
      BY <3>1, <3>2
  <2>2. ASSUME NEW k \in Nat, k \in More PROVE k + 1 \in More
    <3>1. SUFFICES ASSUME k + 1 <= m PROVE b[k + 1] = c[n + (k + 1)]
      OBVIOUS
    <3>2. k + 1 \in 1 .. m /\ (k + 1) - 1 = k /\ b[k] = c[n + k]
      BY <1>1, <2>2, <3>1
    <3> QED
      BY <1>6, <3>2
  <2> HIDE DEF More
  <2> QED
    BY <1>1, <2>1, <2>2, NatSets
<1>9. b[m] = c[n + m]
  BY <1>1, <1>8
<1> QED
  BY <1>3, <1>4, <1>9 DEF AddingRun, st

\* The links that are kept of the first k of a list of updates.
Named(k) == IF k < LinkWindow THEN k ELSE LinkWindow
LastIds(list, k) == [i \in 1 .. Named(k) |-> list[k - Named(k) + i].id]
InBucket(list, k, b) == {i \in 1 .. k : list[i].bucket = b}

\* One more link.
LEMMA OneMoreLink ==
  ASSUME ValueAssumption, NEW list \in Seq(Update), NEW k \in Nat, k + 1 <= Len(list)
  PROVE  KeptLinks(Append(LastIds(list, k), list[k + 1].id)) = LastIds(list, k + 1)
<1> DEFINE m == Named(k)
           id(i) == list[i].id
           old == LastIds(list, k)
           new == Append(old, id(k + 1))
<1>1. /\ LinkWindow \in Nat /\ LinkWindow # 0
      /\ m \in Nat /\ m <= k /\ m <= LinkWindow /\ (m < LinkWindow => m = k)
      /\ m + 1 <= LinkWindow => Named(k + 1) = m + 1
      /\ m + 1 > LinkWindow => Named(k + 1) = m /\ m = LinkWindow
  BY DEF ValueAssumption, Named
<1>2. old = [i \in 1 .. m |-> id(k - m + i)]
  BY DEF LastIds
<1>3. \A i \in 1 .. k + 1 : id(i) \in Nat
  <2>1. ASSUME NEW i \in 1 .. k + 1 PROVE list[i].id \in Nat
    <3>1. list[i] \in Update
      BY <2>1
    <3> QED
      BY <3>1 DEF Update
  <2> QED
    BY <2>1
<1>4. LastIds(list, k + 1) = [i \in 1 .. Named(k + 1) |-> id((k + 1) - Named(k + 1) + i)]
  BY DEF LastIds
<1> HIDE DEF m, id, old
<1>5. old \in Seq(Nat) /\ Len(old) = m /\ \A i \in 1 .. m : old[i] = id(k - m + i)
  <2>1. \A i \in 1 .. m : k - m + i \in 1 .. k + 1
    BY <1>1
  <2> QED
    BY <1>1, <1>2, <1>3, <2>1
<1>6. /\ new \in Seq(Nat) /\ Len(new) = m + 1 /\ new[m + 1] = id(k + 1)
      /\ \A i \in 1 .. m : new[i] = old[i]
  <2>1. id(k + 1) \in Nat
    BY <1>3
  <2> QED
    BY <1>5, <2>1
<1>7. \A i \in 1 .. m + 1 : new[i] = id(k - m + i)
  <2>1. ASSUME NEW i \in 1 .. m + 1 PROVE new[i] = id(k - m + i)
    <3>1. CASE i \in 1 .. m
      BY <1>5, <1>6, <3>1
    <3>2. CASE i \notin 1 .. m
      <4>1. i = m + 1 /\ k - m + i = k + 1
        BY <1>1, <3>2
      <4> QED
        BY <1>6, <4>1
    <3> QED
      BY <3>1, <3>2
  <2> QED
    BY <2>1
<1> HIDE DEF new
<1>8. ASSUME m + 1 <= LinkWindow PROVE KeptLinks(new) = LastIds(list, k + 1)
  <2>1. KeptLinks(new) = new
    BY <1>1, <1>6, <1>8 DEF KeptLinks
  <2>2. new = [i \in 1 .. m + 1 |-> id(k - m + i)]
    BY <1>1, <1>6, <1>7
  <2>3. \A i \in 1 .. m + 1 : k - m + i = (k + 1) - (m + 1) + i
    BY <1>1
  <2> QED
    <3>1. LastIds(list, k + 1) = [i \in 1 .. m + 1 |-> id((k + 1) - (m + 1) + i)]
      BY <1>1, <1>4, <1>8
    <3> QED
      BY <2>1, <2>2, <2>3, <3>1
<1>9. ASSUME m + 1 > LinkWindow PROVE KeptLinks(new) = LastIds(list, k + 1)
  <2>1. KeptLinks(new) = SubSeq(new, 2, m + 1)
    <3>1. Len(new) > LinkWindow
      BY <1>6, <1>9
    <3>2. KeptLinks(new) = SubSeq(new, Len(new) - LinkWindow + 1, Len(new))
      BY <3>1 DEF KeptLinks
    <3>3. Len(new) - LinkWindow + 1 = 2
      BY <1>1, <1>6, <1>9
    <3> QED
      BY <1>6, <3>2, <3>3
  <2>2. SubSeq(new, 2, m + 1) = [i \in 1 .. m |-> new[i + 1]]
    <3>1. /\ SubSeq(new, 2, m + 1) \in Seq(Nat) /\ Len(SubSeq(new, 2, m + 1)) = m
          /\ \A i \in 1 .. m : SubSeq(new, 2, m + 1)[i] = new[i + 1]
      BY <1>1, <1>6
    <3> QED
      BY <3>1
  <2>3. \A i \in 1 .. m : new[i + 1] = id((k + 1) - m + i)
    <3>1. \A i \in 1 .. m : i + 1 \in 1 .. m + 1 /\ k - m + (i + 1) = (k + 1) - m + i
      BY <1>1
    <3> QED
      BY <1>7, <3>1
  <2> QED
    <3>1. LastIds(list, k + 1) = [i \in 1 .. m |-> id((k + 1) - m + i)]
      BY <1>1, <1>4, <1>9
    <3> QED
      BY <2>1, <2>2, <2>3, <3>1
<1>10. KeptLinks(new) = LastIds(list, k + 1)
  BY <1>1, <1>8, <1>9
<1> QED
  BY <1>10 DEF old, new, id

\* What adding a list of updates makes of a record: the counters are the updates
\* in each bucket, the links are the last ids.
LEMMA ReplayIs ==
  ASSUME ValueAssumption, NEW list \in Seq(Update)
  PROVE  LET n == Len(list)
         IN  /\ \A b \in Buckets :
                   AddedAll(Unvalued, list).counts[b] = Cardinality(InBucket(list, n, b))
             /\ AddedAll(Unvalued, list).links = LastIds(list, n)
<1> DEFINE n == Len(list)
           count(k, b) == Cardinality(InBucket(list, k, b))
<1>1. n \in Nat /\ DOMAIN list = 1 .. n
  OBVIOUS
<1>2. PICK run : AddingRun(run, Unvalued, list, n)
  BY <1>1, AddingRuns
<1> DEFINE Good == {k \in Nat : k <= n =>
                       /\ \A b \in Buckets : run[k].counts[b] = count(k, b)
                       /\ run[k].links = LastIds(list, k)}
<1>3. 0 \in Good
  <2>1. run[0] = Unvalued
    BY <1>2 DEF AddingRun
  <2>2. \A b \in Buckets : count(0, b) = 0
    <3>1. \A b \in Buckets : InBucket(list, 0, b) = {}
      BY DEF InBucket
    <3> QED
      BY <3>1, FS_EmptySet
  <2>3. \A b \in Buckets : Unvalued.counts[b] = 0
    BY DEF Unvalued
  <2>4. Unvalued.links = LastIds(list, 0)
    <3>1. Named(0) = 0
      BY DEF Named, ValueAssumption
    <3>2. LastIds(list, 0) = <<>>
      BY <3>1 DEF LastIds
    <3> QED
      BY <3>2 DEF Unvalued
  <2> HIDE DEF count
  <2> QED
    BY <2>1, <2>2, <2>3, <2>4
<1>4. ASSUME NEW k \in Nat, k \in Good PROVE k + 1 \in Good
  <2>1. SUFFICES ASSUME k + 1 <= n
                 PROVE  /\ \A b \in Buckets : run[k + 1].counts[b] = count(k + 1, b)
                        /\ run[k + 1].links = LastIds(list, k + 1)
    OBVIOUS
  <2> DEFINE u == list[k + 1]
  <2>2. k + 1 \in 1 .. n /\ (k + 1) - 1 = k /\ k <= n
    BY <1>1, <2>1
  <2>3. run[k + 1] = Added(run[k], u)
    BY <1>2, <2>2 DEF AddingRun
  <2>4. (\A b \in Buckets : run[k].counts[b] = count(k, b)) /\ run[k].links = LastIds(list, k)
    BY <1>4, <2>2
  <2>5. ASSUME NEW b \in Buckets PROVE run[k + 1].counts[b] = count(k + 1, b)
    <3>1. run[k + 1].counts[b] = run[k].counts[b] + If(b = u.bucket, 1)
      BY <2>3 DEF Added
    <3>2. IsFiniteSet(InBucket(list, k, b)) /\ count(k, b) \in Nat
      <4>1. IsFiniteSet(1 .. k) /\ InBucket(list, k, b) \subseteq 1 .. k
        BY FS_Interval DEF InBucket
      <4> QED
        BY <4>1, FS_Subset, FS_CardinalityType
    <3>3. CASE b = u.bucket
      <4>1. InBucket(list, k + 1, b) = InBucket(list, k, b) \cup {k + 1}
        BY <3>3 DEF InBucket
      <4>2. k + 1 \notin InBucket(list, k, b)
        BY DEF InBucket
      <4>3. count(k + 1, b) = count(k, b) + 1
        BY <3>2, <4>1, <4>2, FS_AddElement
      <4> HIDE DEF count
      <4> QED
        BY <2>4, <3>1, <3>3, <4>3 DEF If
    <3>4. CASE b # u.bucket
      <4>1. InBucket(list, k + 1, b) = InBucket(list, k, b)
        BY <3>4 DEF InBucket
      <4>2. count(k + 1, b) = count(k, b)
        BY <4>1
      <4> HIDE DEF count
      <4> QED
        BY <2>4, <3>1, <3>2, <3>4, <4>2 DEF If
    <3> QED
      BY <3>3, <3>4
  <2>6. run[k + 1].links = LastIds(list, k + 1)
    <3>1. run[k + 1].links = KeptLinks(Append(run[k].links, u.id))
      BY <2>3 DEF Added
    <3> QED
      BY <2>1, <2>4, <3>1, OneMoreLink
  <2> QED
    BY <2>5, <2>6
<1>5. n \in Good
  <2> HIDE DEF Good
  <2> QED
    BY <1>1, <1>3, <1>4, NatSets
<1>6. AddedAll(Unvalued, list) = run[n]
  BY <1>2 DEF AddingRun
<1> QED
  BY <1>1, <1>5, <1>6

-----------------------------------------------------------------------------
(* The lists.                                                              *)

\* The first n elements are there; the next m are those that are due now.
SpeakAgain(n, m, of, when, ofAll, whenAll, due, now, cooldown) ==
    /\ \A i \in 1 .. n : ofAll[i] = of[i] /\ whenAll[i] = when[i] /\ when[i] \in Nat
    /\ \A i \in 1 .. m : ofAll[n + i] = due[i] /\ whenAll[n + i] = now /\ due[i] \in Nat
    /\ \A i, j \in 1 .. m : i < j => due[i] < due[j]
    /\ \A i \in 1 .. m : LET past == {k \in 1 .. n : of[k] = due[i]}
                         IN  past = {} \/ now >= when[Max(past)] + cooldown

\* What speaks again after the cooldown keeps the distance of all that came
\* before, because the last of those did.
LEMMA PacedGrows ==
  ASSUME NEW n \in Nat, NEW m \in Nat, NEW cooldown \in Nat, NEW now \in Nat,
         NEW of, NEW when, NEW ofAll, NEW whenAll, NEW due,
         Paced(n, of, when, cooldown),
         SpeakAgain(n, m, of, when, ofAll, whenAll, due, now, cooldown)
  PROVE  Paced(n + m, ofAll, whenAll, cooldown)
<1> USE DEF SpeakAgain
<1>1. SUFFICES ASSUME NEW i \in 1 .. n + m, NEW j \in 1 .. n + m, i < j, ofAll[i] = ofAll[j]
               PROVE  whenAll[j] >= whenAll[i] + cooldown
  BY DEF Paced
<1>2. CASE j <= n
  <2>1. i \in 1 .. n /\ j \in 1 .. n
    BY <1>1, <1>2
  <2> QED
    BY <1>1, <2>1 DEF Paced
<1>3. CASE j > n
  <2> DEFINE b == j - n
             past == {k \in 1 .. n : of[k] = due[b]}
  <2>1. b \in 1 .. m /\ n + b = j
    BY <1>1, <1>3
  <2>2. ofAll[j] = due[b] /\ whenAll[j] = now
    BY <2>1
  <2>3. past = {} \/ now >= when[Max(past)] + cooldown
    BY <2>1
  <2>4. CASE i <= n
    <3>1. i \in 1 .. n /\ i \in past
      BY <1>1, <2>2, <2>4
    <3>2. Max(past) \in past /\ i <= Max(past)
      <4>1. past \in SUBSET (1 .. n) /\ past # {}
        BY <3>1
      <4> HIDE DEF past
      <4> QED
        BY <3>1, <4>1, GreatestIs
    <3>3. Max(past) \in 1 .. n /\ of[Max(past)] = of[i]
      BY <3>1, <3>2
    <3>4. now >= when[Max(past)] + cooldown
      BY <2>3, <3>1
    <3> HIDE DEF past
    <3>5. i < Max(past) => when[Max(past)] >= when[i] + cooldown
      BY <3>1, <3>3 DEF Paced
    <3>6. when[Max(past)] \in Nat /\ when[i] \in Nat /\ whenAll[i] = when[i]
      BY <3>1, <3>3
    <3>7. when[Max(past)] >= when[i]
      <4>1. CASE i < Max(past)
        BY <3>5, <3>6, <4>1
      <4>2. CASE ~ i < Max(past)
        <5>1. i = Max(past)
          BY <3>2, <3>3, <4>2
        <5> QED
          BY <3>6, <5>1
      <4> QED
        BY <4>1, <4>2
    <3> QED
      BY <2>2, <3>4, <3>6, <3>7
  <2>5. CASE i > n
    <3> DEFINE a == i - n
    <3>1. a \in 1 .. m /\ n + a = i /\ a < b
      BY <1>1, <2>1, <2>5
    <3>2. ofAll[i] = due[a] /\ due[a] < due[b] /\ due[a] \in Nat /\ due[b] \in Nat
      BY <2>1, <3>1
    <3> HIDE DEF a, b
    <3> QED
      BY <1>1, <2>2, <3>2
  <2> QED
    BY <2>4, <2>5
<1> QED
  BY <1>2, <1>3

\* What the invariant says of the elements of the lists.
LEMMA ListFields ==
  ASSUME ListsInv
  PROVE  /\ Len(observations) \in Nat /\ Len(valueCandidates) \in Nat /\ Len(valueReviews) \in Nat
         /\ \A o \in 1 .. Len(observations) :
               observations[o] \in Observation /\ observations[o].reading \in Readings
         /\ \A c \in 1 .. Len(valueCandidates) :
               /\ valueCandidates[c] \in ValueCandidate
               /\ valueCandidates[c].observation \in 1 .. Len(observations)
               /\ valueCandidates[c].tick \in Nat
               /\ ReadingOf(c) \in Readings
         /\ \A r \in 1 .. Len(valueReviews) :
               /\ valueReviews[r] \in ValueReview
               /\ valueReviews[r].candidate \in 1 .. Len(valueCandidates)
               /\ valueReviews[r].tick \in Nat
               /\ valueReviews[r].decision = ReviewDecision(ReadingOf(valueReviews[r].candidate))
<1>1. /\ observations \in Seq(Observation) /\ valueCandidates \in Seq(ValueCandidate)
      /\ valueReviews \in Seq(ValueReview)
  BY DEF ListsInv
<1>2. /\ Len(observations) \in Nat /\ Len(valueCandidates) \in Nat /\ Len(valueReviews) \in Nat
      /\ \A o \in 1 .. Len(observations) : observations[o] \in Observation
      /\ \A c \in 1 .. Len(valueCandidates) : valueCandidates[c] \in ValueCandidate
      /\ \A r \in 1 .. Len(valueReviews) : valueReviews[r] \in ValueReview
  BY <1>1
<1>3. \A x \in Observation : x.reading \in Readings
  BY DEF Observation
<1>4. \A x \in ValueCandidate : x.tick \in Nat
  BY DEF ValueCandidate
<1>5. \A x \in ValueReview : x.tick \in Nat
  BY DEF ValueReview
<1>6. \A o \in 1 .. Len(observations) : observations[o].reading \in Readings
  BY <1>2, <1>3
<1>7. \A c \in 1 .. Len(valueCandidates) :
         /\ valueCandidates[c].observation \in 1 .. Len(observations)
         /\ valueCandidates[c].tick \in Nat
  BY <1>2, <1>4 DEF ListsInv
<1>8. \A c \in 1 .. Len(valueCandidates) : ReadingOf(c) \in Readings
  BY <1>6, <1>7 DEF ReadingOf
<1>9. \A r \in 1 .. Len(valueReviews) :
         /\ valueReviews[r].candidate \in 1 .. Len(valueCandidates)
         /\ valueReviews[r].tick \in Nat
         /\ valueReviews[r].decision = ReviewDecision(ReadingOf(valueReviews[r].candidate))
  BY <1>2, <1>5 DEF ListsInv
<1> QED
  BY <1>2, <1>6, <1>7, <1>8, <1>9

\* A list that has grown, in the terms of the two lengths.
LEMMA Grown ==
  ASSUME NEW T, NEW s \in Seq(T), NEW t \in Seq(T), NEW st, st = s \o t,
         NEW n, NEW m, n = Len(s), m = Len(t)
  PROVE  /\ st \in Seq(T) /\ n \in Nat /\ m \in Nat /\ Len(st) = n + m
         /\ \A c \in 1 .. n : st[c] = s[c]
         /\ \A i \in 1 .. m : st[n + i] = t[i]
         /\ \A c \in 1 .. n + m : c \notin 1 .. n => c - n \in 1 .. m /\ st[c] = t[c - n]
BY Joined

\* What is observed rests on readings, and nothing that was there changes.
LEMMA ObserveLists == ASSUME ListsInv, Observe PROVE ListsInv'
<1>1. PICK reading \in [1 .. Len(decisions) -> Readings \cup {NoReading}],
           news \in SUBSET (1 .. Len(decisions)) :
         LET Speaking(d) ==
                 LET past == ObservationsOf(d)
                 IN  /\ reading[d] # NoReading
                     /\ \/ Again(observations, past, ObserverCooldown)
                        \/ observations[Max(past)].reading.status # reading[d].status
                        \/ d \in news
             spoken == InOrder({d \in 1 .. Len(decisions) : Speaking(d)})
         IN  observations' = observations \o
                 [i \in 1 .. Len(spoken) |->
                     [decision |-> spoken[i], reading |-> reading[spoken[i]], tick |-> clock]]
  BY DEF Observe
<1> DEFINE Speaking(d) ==
                 LET past == ObservationsOf(d)
                 IN  /\ reading[d] # NoReading
                     /\ \/ Again(observations, past, ObserverCooldown)
                        \/ observations[Max(past)].reading.status # reading[d].status
                        \/ d \in news
           S == {d \in 1 .. Len(decisions) : Speaking(d)}
           spoken == InOrder(S)
           more == [i \in 1 .. Len(spoken) |->
                      [decision |-> spoken[i], reading |-> reading[spoken[i]], tick |-> clock]]
<1>2. observations' = observations \o more
  BY <1>1
<1>3. S \in SUBSET (1 .. Len(decisions)) /\ \A d \in S : d \in Nat /\ reading[d] \in Readings
  <2>1. Len(decisions) \in Nat
    BY DEF ListsInv
  <2>2. \A d \in S : d \in Nat
    BY <2>1
  <2>3. \A d \in S : reading[d] \in Readings
    OBVIOUS
  <2> QED
    BY <2>2, <2>3
<1> HIDE DEF S
<1>4. Len(spoken) \in Nat /\ \A i \in 1 .. Len(spoken) : spoken[i] \in S
  <2>1. Len(decisions) \in Nat
    BY DEF ListsInv
  <2>2. spoken \in Seq(S)
    BY <1>3, <2>1, InOrderLists
  <2> QED
    BY <2>2
<1>5. more \in Seq(Observation)
  <2>1. clock \in Nat
    BY DEF ListsInv
  <2>2. ASSUME NEW i \in 1 .. Len(spoken)
        PROVE  [decision |-> spoken[i], reading |-> reading[spoken[i]], tick |-> clock]
                  \in Observation
    <3>1. spoken[i] \in Nat /\ reading[spoken[i]] \in Readings
      <4> HIDE DEF spoken
      <4> QED
        BY <1>3, <1>4
    <3> QED
      BY <2>1, <3>1 DEF Observation
  <2> HIDE DEF spoken
  <2> QED
    BY <1>4, <2>2
<1> HIDE DEF more, spoken
<1>6. /\ observations \in Seq(Observation) /\ observations' \in Seq(Observation)
      /\ Len(observations) \in Nat /\ Len(observations') \in Nat
      /\ Len(observations) <= Len(observations')
      /\ \A o \in 1 .. Len(observations) : observations'[o] = observations[o]
  <2>1. observations \in Seq(Observation)
    BY DEF ListsInv
  <2> QED
    BY <1>2, <1>5, <2>1, Joined
<1>7. /\ UNCHANGED <<clock, faults, process, valueCandidates, valueReviews>>
      /\ module' = "build"
      /\ decisions' = decisions \/ decisions' = Append(decisions, clock)
  BY DEF Observe
<1>8. \A c \in 1 .. Len(valueCandidates) :
         /\ valueCandidates[c].observation \in 1 .. Len(observations')
         /\ observations'[valueCandidates[c].observation].reading = ReadingOf(c)
  BY <1>6, ListFields DEF ReadingOf
<1>9. Len(decisions') \in Nat
  <2>1. Len(decisions) \in Nat
    BY DEF ListsInv
  <2> QED
    BY <1>7, <2>1
<1>10. \A r \in 1 .. Len(valueReviews) :
          valueReviews[r].decision =
             ReviewDecision(observations'[valueCandidates[valueReviews[r].candidate].observation].reading)
  BY <1>8, ListFields
<1>11. \A r \in 1 .. Len(valueReviews) : valueReviews[r].candidate \in 1 .. Len(valueCandidates)
  BY ListFields
<1> QED
  BY <1>6, <1>7, <1>8, <1>9, <1>10, <1>11 DEF ListsInv, ReadingOf

\* Candidates are made of observations, each paced by its cooldown.
LEMMA BuildLists ==
  ASSUME ValueAssumption, ListsInv, PacedInv, BuildCandidates PROVE ListsInv' /\ PacedInv'
<1> DEFINE S == {o \in Recent(observations, ObservationWindow) : CandidateDue(o)}
           due == InOrder(S)
           more == [i \in 1 .. Len(due) |-> [observation |-> due[i], tick |-> clock]]
           n == Len(valueCandidates)
           m == Len(due)
<1>1. /\ valueCandidates' = valueCandidates \o more /\ module' = "review"
      /\ UNCHANGED <<clock, faults, process, decisions, observations, valueReviews>>
  BY DEF BuildCandidates
<1>2. clock \in Nat /\ CandidateCooldown \in Nat /\ n \in Nat /\ Len(observations) \in Nat
  BY ListFields DEF ListsInv, ValueAssumption
<1>3. /\ S \in SUBSET (1 .. Len(observations))
      /\ \A o \in S : o \in Nat /\ Again(valueCandidates, CandidatesOf(o), CandidateCooldown)
  <2>1. S \in SUBSET (1 .. Len(observations))
    BY DEF Recent
  <2>2. \A o \in S : o \in Nat
    BY <1>2, <2>1
  <2>3. \A o \in S : Again(valueCandidates, CandidatesOf(o), CandidateCooldown)
    BY DEF CandidateDue
  <2> QED
    BY <2>1, <2>2, <2>3
<1> HIDE DEF S
<1>4. /\ m \in Nat /\ \A i \in 1 .. m : due[i] \in S
      /\ \A i, j \in 1 .. m : i < j => due[i] < due[j]
  <2>1. /\ due \in Seq(S) /\ m = Cardinality(S)
        /\ \A i, j \in 1 .. Cardinality(S) : i < j => due[i] < due[j]
    BY <1>2, <1>3, InOrderLists
  <2> QED
    BY <2>1
<1>5. \A i \in 1 .. m : due[i] \in Nat /\ due[i] \in 1 .. Len(observations)
  BY <1>3, <1>4
<1> HIDE DEF due, m
<1>6. more \in Seq(ValueCandidate)
  BY <1>2, <1>4, <1>5 DEF ValueCandidate, m
<1>7. Len(more) = m /\ \A i \in 1 .. m : more[i].observation = due[i] /\ more[i].tick = clock
  BY <1>4 DEF m
<1> HIDE DEF more
<1>8. /\ valueCandidates \in Seq(ValueCandidate) /\ valueCandidates' \in Seq(ValueCandidate)
      /\ Len(valueCandidates') = n + m
      /\ \A c \in 1 .. n : valueCandidates'[c] = valueCandidates[c]
      /\ \A i \in 1 .. m : valueCandidates'[n + i] = more[i]
      /\ \A c \in 1 .. n + m : c \notin 1 .. n => c - n \in 1 .. m /\ valueCandidates'[c] = more[c - n]
  <2>1. valueCandidates \in Seq(ValueCandidate)
    BY DEF ListsInv
  <2>2. n = Len(valueCandidates) /\ m = Len(more) /\ valueCandidates' = valueCandidates \o more
    BY <1>1, <1>7
  <2> HIDE DEF n
  <2> QED
    BY <1>6, <2>1, <2>2, Grown
<1> HIDE DEF n
<1>9. ListsInv'
  <2>1. \A c \in 1 .. n + m : valueCandidates'[c].observation \in 1 .. Len(observations)
    <3>1. ASSUME NEW c \in 1 .. n + m
          PROVE  valueCandidates'[c].observation \in 1 .. Len(observations)
      <4>1. CASE c \in 1 .. n
        BY <1>8, <4>1, ListFields DEF n
      <4>2. CASE c \notin 1 .. n
        BY <1>5, <1>7, <1>8, <4>2
      <4> QED
        BY <4>1, <4>2
    <3> QED
      BY <3>1
  <2>2. \A r \in 1 .. Len(valueReviews) :
           LET c == valueReviews[r].candidate
           IN  /\ c \in 1 .. n + m /\ valueCandidates'[c] = valueCandidates[c]
               /\ valueReviews[r].decision =
                     ReviewDecision(observations[valueCandidates'[c].observation].reading)
    <3>1. ASSUME NEW r \in 1 .. Len(valueReviews)
          PROVE  LET c == valueReviews[r].candidate
                 IN  /\ c \in 1 .. n + m /\ valueCandidates'[c] = valueCandidates[c]
                     /\ valueReviews[r].decision =
                           ReviewDecision(observations[valueCandidates'[c].observation].reading)
      <4> DEFINE c == valueReviews[r].candidate
      <4>1. c \in 1 .. n /\ valueReviews[r].decision = ReviewDecision(ReadingOf(c))
        BY ListFields DEF n
      <4>2. c \in 1 .. n + m
        BY <1>2, <1>4, <4>1 DEF n
      <4>3. valueCandidates'[c] = valueCandidates[c]
        BY <1>8, <4>1
      <4> QED
        BY <4>1, <4>2, <4>3 DEF ReadingOf
    <3> QED
      BY <3>1
  <2> QED
    BY <1>1, <1>8, <2>1, <2>2 DEF ListsInv, ReadingOf
<1>10. PacedInv'
  <2> DEFINE of == ObservationsSpokenOf
             when == CandidateTicks
  <2>1. \A i \in 1 .. n : /\ of[i] = valueCandidates[i].observation
                          /\ when[i] = valueCandidates[i].tick /\ when[i] \in Nat
    BY ListFields DEF ObservationsSpokenOf, CandidateTicks, n
  <2>2. \A i \in 1 .. n + m : /\ of'[i] = valueCandidates'[i].observation
                              /\ when'[i] = valueCandidates'[i].tick
    BY <1>8 DEF ObservationsSpokenOf, CandidateTicks
  <2>3. \A i \in 1 .. n : i \in 1 .. n + m
    BY <1>2, <1>4 DEF n
  <2>4. \A i \in 1 .. n : of'[i] = of[i] /\ when'[i] = when[i] /\ when[i] \in Nat
    BY <1>8, <2>1, <2>2, <2>3
  <2>5. \A i \in 1 .. m : n + i \in 1 .. n + m
    BY <1>2, <1>4 DEF n
  <2>6. \A i \in 1 .. m : of'[n + i] = due[i] /\ when'[n + i] = clock /\ due[i] \in Nat
    BY <1>5, <1>7, <1>8, <2>2, <2>5
  <2>7. \A i \in 1 .. m : LET past == {k \in 1 .. n : of[k] = due[i]}
                          IN  past = {} \/ clock >= when[Max(past)] + CandidateCooldown
    <3>1. ASSUME NEW i \in 1 .. m
          PROVE  LET past == {k \in 1 .. n : of[k] = due[i]}
                 IN  past = {} \/ clock >= when[Max(past)] + CandidateCooldown
      <4> DEFINE past == {k \in 1 .. n : of[k] = due[i]}
      <4>1. Again(valueCandidates, CandidatesOf(due[i]), CandidateCooldown)
        BY <1>3, <1>4
      <4>2. past = CandidatesOf(due[i])
        BY <2>1 DEF CandidatesOf, n
      <4>3. past # {} => Max(past) \in 1 .. n
        <5>1. past \in SUBSET (1 .. n)
          OBVIOUS
        <5> HIDE DEF past
        <5>2. n \in Nat
          BY <1>2 DEF n
        <5> QED
          BY <5>1, <5>2, GreatestIs
      <4>4. past # {} => when[Max(past)] = valueCandidates[Max(past)].tick
        BY <2>1, <4>3
      <4> HIDE DEF past, of, when
      <4>5. past = {} \/ clock >= when[Max(past)] + CandidateCooldown
        BY <4>1, <4>2, <4>4 DEF Again
      <4> QED
        BY <4>5 DEF past
    <3> QED
      BY <3>1
  <2>8. Paced(n, of, when, CandidateCooldown)
    BY DEF PacedInv, n
  <2> HIDE DEF of, when
  <2>9. Paced(n + m, of', when', CandidateCooldown)
    <3>1. PICK ofAll, whenAll : ofAll = of' /\ whenAll = when'
      OBVIOUS
    <3>2. n \in Nat
      BY <1>2 DEF n
    <3>3. /\ \A i \in 1 .. n : ofAll[i] = of[i] /\ whenAll[i] = when[i] /\ when[i] \in Nat
          /\ \A i \in 1 .. m : ofAll[n + i] = due[i] /\ whenAll[n + i] = clock /\ due[i] \in Nat
      BY <2>4, <2>6, <3>1
    <3>4. clock \in Nat /\ CandidateCooldown \in Nat /\ m \in Nat
      BY <1>2, <1>4
    <3>5. Paced(n + m, ofAll, whenAll, CandidateCooldown)
      <4>1. SpeakAgain(n, m, of, when, ofAll, whenAll, due, clock, CandidateCooldown)
        BY <1>4, <2>7, <3>3 DEF SpeakAgain
      <4> QED
        BY <2>8, <3>2, <3>4, <4>1, PacedGrows
    <3> QED
      BY <3>1, <3>5
  <2>10. Paced(Len(valueReviews), CandidatesSpokenOf, ReviewTicks, ReviewCooldown)'
    <3>1. CandidatesSpokenOf' = CandidatesSpokenOf /\ ReviewTicks' = ReviewTicks
      BY <1>1 DEF CandidatesSpokenOf, ReviewTicks
    <3> QED
      BY <1>1, <3>1 DEF PacedInv, Paced
  <2> QED
    BY <1>8, <2>9, <2>10 DEF PacedInv, Paced, of, when
<1> QED
  BY <1>9, <1>10

\* Nothing is added to the lists, and the tick goes on.
LEMMA ListsStay ==
  ASSUME ListsInv, UNCHANGED valueMemory, UNCHANGED process, clock' \in Nat, faults' \in Nat,
         module' \in {"observe", "build", "review", "write"}
  PROVE  ListsInv'
<1>1. UNCHANGED <<decisions, observations, valueCandidates, valueReviews>>
  BY DEF valueMemory
<1> QED
  BY <1>1 DEF ListsInv, ReadingOf

\* What is not added to stays paced.
LEMMA PacedStays == ASSUME PacedInv, UNCHANGED valueMemory PROVE PacedInv'
<1>1. UNCHANGED <<decisions, observations, valueCandidates, valueReviews>>
  BY DEF valueMemory
<1>2. /\ UNCHANGED <<ObservationsSpokenOf, CandidateTicks, CandidatesSpokenOf, ReviewTicks>>
      /\ Len(valueCandidates') = Len(valueCandidates) /\ Len(valueReviews') = Len(valueReviews)
  BY <1>1 DEF ObservationsSpokenOf, CandidateTicks, CandidatesSpokenOf, ReviewTicks
<1> QED
  BY <1>2 DEF PacedInv, Paced

\* Reviews are made of candidates, each paced by its cooldown.
LEMMA ReviewLists ==
  ASSUME ValueAssumption, ListsInv, PacedInv, ReviewCandidates
  PROVE  /\ ListsInv' /\ PacedInv' /\ Len(valueReviews) <= Len(valueReviews')
         /\ \A r \in 1 .. Len(valueReviews) : valueReviews'[r] = valueReviews[r]
<1>1. CASE systemMode = "active"
  <2>1. UNCHANGED <<clock, faults, process, valueMemory>> /\ module' = "write"
    BY <1>1 DEF ReviewCandidates, valueMemory
  <2>2. clock \in Nat /\ faults \in Nat /\ Len(valueReviews) \in Nat
    BY ListFields DEF ListsInv
  <2>3. valueReviews' = valueReviews
    BY <2>1 DEF valueMemory
  <2> QED
    BY <2>1, <2>2, <2>3, ListsStay, PacedStays
<1>2. CASE systemMode # "active"
  <2> DEFINE S == {c \in Recent(valueCandidates, ValueCandidateWindow) : ReviewDue(c)}
             due == InOrder(S)
             more == [i \in 1 .. Len(due) |-> [candidate |-> due[i], tick |-> clock,
                                              decision |-> ReviewDecision(ReadingOf(due[i]))]]
             n == Len(valueReviews)
             m == Len(due)
  <2>1. /\ valueReviews' = valueReviews \o more /\ module' = "write"
        /\ UNCHANGED <<clock, faults, process, decisions, observations, valueCandidates>>
    BY <1>2 DEF ReviewCandidates
  <2>2. /\ clock \in Nat /\ ReviewCooldown \in Nat /\ n \in Nat /\ Len(valueCandidates) \in Nat
    BY ListFields DEF ListsInv, ValueAssumption
  <2>3. /\ S \in SUBSET (1 .. Len(valueCandidates))
        /\ \A c \in S : c \in Nat /\ Again(valueReviews, ReviewsOf(c), ReviewCooldown)
    <3>1. S \in SUBSET (1 .. Len(valueCandidates))
      BY DEF Recent
    <3>2. \A c \in S : c \in Nat
      BY <2>2, <3>1
    <3>3. \A c \in S : Again(valueReviews, ReviewsOf(c), ReviewCooldown)
      BY DEF ReviewDue
    <3> QED
      BY <3>1, <3>2, <3>3
  <2> HIDE DEF S
  <2>4. /\ m \in Nat /\ \A i \in 1 .. m : due[i] \in S
        /\ \A i, j \in 1 .. m : i < j => due[i] < due[j]
    <3>1. /\ due \in Seq(S) /\ m = Cardinality(S)
          /\ \A i, j \in 1 .. Cardinality(S) : i < j => due[i] < due[j]
      BY <2>2, <2>3, InOrderLists
    <3> QED
      BY <3>1
  <2>5. \A i \in 1 .. m : due[i] \in Nat /\ due[i] \in 1 .. Len(valueCandidates)
    BY <2>3, <2>4
  <2> HIDE DEF due, m
  <2>6. more \in Seq(ValueReview)
    <3>1. ASSUME NEW i \in 1 .. m
          PROVE  [candidate |-> due[i], tick |-> clock,
                  decision |-> ReviewDecision(ReadingOf(due[i]))] \in ValueReview
      <4>1. due[i] \in Nat /\ ReadingOf(due[i]) \in Readings
        BY <2>5, ListFields
      <4>2. ReviewDecision(ReadingOf(due[i])) \in ReviewAnswers
        BY <4>1, ReadingIs DEF ReviewAnswers
      <4> QED
        BY <2>2, <4>1, <4>2 DEF ValueReview
    <3> QED
      BY <2>4, <3>1 DEF m
  <2>7. /\ Len(more) = m
        /\ \A i \in 1 .. m : /\ more[i].candidate = due[i] /\ more[i].tick = clock
                             /\ more[i].decision = ReviewDecision(ReadingOf(due[i]))
    BY <2>4 DEF m
  <2> HIDE DEF more
  <2>8. /\ valueReviews' \in Seq(ValueReview)
        /\ Len(valueReviews') = n + m
        /\ \A r \in 1 .. n : valueReviews'[r] = valueReviews[r]
        /\ \A i \in 1 .. m : valueReviews'[n + i] = more[i]
        /\ \A r \in 1 .. n + m : r \notin 1 .. n => r - n \in 1 .. m /\ valueReviews'[r] = more[r - n]
    <3>1. valueReviews \in Seq(ValueReview)
      BY DEF ListsInv
    <3>2. n = Len(valueReviews) /\ m = Len(more) /\ valueReviews' = valueReviews \o more
      BY <2>1, <2>7
    <3> HIDE DEF n
    <3> QED
      BY <2>6, <3>1, <3>2, Grown
  <2> HIDE DEF n
  <2>9. ListsInv'
    <3>1. ASSUME NEW r \in 1 .. n + m
          PROVE  LET c == valueReviews'[r].candidate
                 IN  c \in 1 .. Len(valueCandidates)
                     /\ valueReviews'[r].decision = ReviewDecision(ReadingOf(c))
      <4>1. CASE r \in 1 .. n
        BY <2>8, <4>1, ListFields DEF n
      <4>2. CASE r \notin 1 .. n
        BY <2>5, <2>7, <2>8, <4>2
      <4> QED
        BY <4>1, <4>2
    <3>2. \A c : observations'[valueCandidates'[c].observation].reading = ReadingOf(c)
      BY <2>1 DEF ReadingOf
    <3>3. \A r \in 1 .. n + m :
             /\ valueReviews'[r].candidate \in 1 .. Len(valueCandidates)
             /\ valueReviews'[r].decision =
                   ReviewDecision(observations'[valueCandidates'[valueReviews'[r].candidate].observation].reading)
      BY <3>1, <3>2
    <3> QED
      BY <2>1, <2>8, <3>3 DEF ListsInv, ReadingOf
  <2>10. PacedInv'
    <3> DEFINE of == CandidatesSpokenOf
               when == ReviewTicks
    <3>1. \A i \in 1 .. n : /\ of[i] = valueReviews[i].candidate
                            /\ when[i] = valueReviews[i].tick /\ when[i] \in Nat
      BY ListFields DEF CandidatesSpokenOf, ReviewTicks, n
    <3>2. \A i \in 1 .. n + m : /\ of'[i] = valueReviews'[i].candidate
                                /\ when'[i] = valueReviews'[i].tick
      BY <2>8 DEF CandidatesSpokenOf, ReviewTicks
    <3>3. \A i \in 1 .. n : i \in 1 .. n + m
      BY <2>2, <2>4 DEF n
    <3>4. \A i \in 1 .. n : of'[i] = of[i] /\ when'[i] = when[i] /\ when[i] \in Nat
      BY <2>8, <3>1, <3>2, <3>3
    <3>5. \A i \in 1 .. m : n + i \in 1 .. n + m
      BY <2>2, <2>4 DEF n
    <3>6. \A i \in 1 .. m : of'[n + i] = due[i] /\ when'[n + i] = clock /\ due[i] \in Nat
      BY <2>5, <2>7, <2>8, <3>2, <3>5
    <3>7. \A i \in 1 .. m : LET past == {k \in 1 .. n : of[k] = due[i]}
                            IN  past = {} \/ clock >= when[Max(past)] + ReviewCooldown
      <4>1. ASSUME NEW i \in 1 .. m
            PROVE  LET past == {k \in 1 .. n : of[k] = due[i]}
                   IN  past = {} \/ clock >= when[Max(past)] + ReviewCooldown
        <5> DEFINE past == {k \in 1 .. n : of[k] = due[i]}
        <5>1. Again(valueReviews, ReviewsOf(due[i]), ReviewCooldown)
          BY <2>3, <2>4
        <5>2. past = ReviewsOf(due[i])
          BY <3>1 DEF ReviewsOf, n
        <5>3. past # {} => Max(past) \in 1 .. n
          <6>1. past \in SUBSET (1 .. n)
            OBVIOUS
          <6> HIDE DEF past
          <6>2. n \in Nat
            BY <2>2 DEF n
          <6> QED
            BY <6>1, <6>2, GreatestIs
        <5>4. past # {} => when[Max(past)] = valueReviews[Max(past)].tick
          BY <3>1, <5>3
        <5> HIDE DEF past, of, when
        <5>5. past = {} \/ clock >= when[Max(past)] + ReviewCooldown
          BY <5>1, <5>2, <5>4 DEF Again
        <5> QED
          BY <5>5 DEF past
      <4> QED
        BY <4>1
    <3>8. Paced(n, of, when, ReviewCooldown)
      BY DEF PacedInv, n
    <3> HIDE DEF of, when
    <3>9. Paced(n + m, of', when', ReviewCooldown)
      <4>1. PICK ofAll, whenAll : ofAll = of' /\ whenAll = when'
        OBVIOUS
      <4>2. n \in Nat /\ clock \in Nat /\ ReviewCooldown \in Nat /\ m \in Nat
        BY <2>2, <2>4 DEF n
      <4>3. /\ \A i \in 1 .. n : ofAll[i] = of[i] /\ whenAll[i] = when[i] /\ when[i] \in Nat
            /\ \A i \in 1 .. m : ofAll[n + i] = due[i] /\ whenAll[n + i] = clock /\ due[i] \in Nat
        BY <3>4, <3>6, <4>1
      <4>4. SpeakAgain(n, m, of, when, ofAll, whenAll, due, clock, ReviewCooldown)
        BY <2>4, <3>7, <4>3 DEF SpeakAgain
      <4>5. Paced(n + m, ofAll, whenAll, ReviewCooldown)
        BY <3>8, <4>2, <4>4, PacedGrows
      <4> QED
        BY <4>1, <4>5
    <3>10. Paced(Len(valueCandidates), ObservationsSpokenOf, CandidateTicks, CandidateCooldown)'
      <4>1. ObservationsSpokenOf' = ObservationsSpokenOf /\ CandidateTicks' = CandidateTicks
        BY <2>1 DEF ObservationsSpokenOf, CandidateTicks
      <4> QED
        BY <2>1, <4>1 DEF PacedInv, Paced
    <3> QED
      BY <2>8, <3>9, <3>10 DEF PacedInv, Paced, of, when
  <2>11. Len(valueReviews) <= Len(valueReviews')
    BY <2>2, <2>4, <2>8 DEF n
  <2> QED
    BY <2>8, <2>9, <2>10, <2>11 DEF n
<1> QED
  BY <1>1, <1>2

-----------------------------------------------------------------------------
(* The updates.                                                            *)

\* The ready reviews that are neither applied nor named in the file.
Unadded == {r \in Recent(valueReviews, ValueReviewWindow) : ReadyToAdd(r) /\ r \notin AlreadyAdded}

\* They are listed in the order of their numbers.
LEMMA ToApplyIs ==
  ASSUME ListsInv
  PROVE  /\ Len(ToApply) \in Nat
         /\ \A i \in 1 .. Len(ToApply) : ToApply[i] \in Unadded
         /\ \A i, j \in 1 .. Len(ToApply) : i < j => ToApply[i] < ToApply[j]
         /\ \A r \in Unadded : \E i \in 1 .. Len(ToApply) : ToApply[i] = r
         /\ Unadded \in SUBSET (1 .. Len(valueReviews))
<1>1. Unadded \in SUBSET (1 .. Len(valueReviews)) /\ Len(valueReviews) \in Nat
  BY ListFields DEF Unadded, Recent
<1>2. ToApply = InOrder(Unadded)
  BY DEF ToApply, Unadded
<1> DEFINE list == InOrder(Unadded)
<1>3. /\ list \in Seq(Unadded) /\ Len(list) = Cardinality(Unadded)
      /\ \A i, j \in 1 .. Cardinality(Unadded) : i < j => list[i] < list[j]
      /\ \A x \in Unadded : \E i \in 1 .. Cardinality(Unadded) : list[i] = x
  BY <1>1, InOrderLists
<1> HIDE DEF list
<1>4. Len(list) \in Nat /\ \A i \in 1 .. Len(list) : list[i] \in Unadded
  BY <1>3
<1> QED
  BY <1>1, <1>2, <1>3, <1>4 DEF list

\* An addition is a copy of its review, on the side of its evidence.
LEMMA AdditionsAre ==
  ASSUME ValueAssumption, ListsInv
  PROVE  /\ Additions \in Seq(Update) /\ Len(Additions) = Len(ToApply)
         /\ \A i \in 1 .. Len(ToApply) :
               /\ Additions[i].id = ToApply[i] /\ Additions[i].process = process
               /\ Additions[i].candidate = valueReviews[ToApply[i]].candidate
               /\ Additions[i].tick = valueReviews[ToApply[i]].tick
               /\ OnItsSide(Additions[i])
<1> DEFINE m == Len(ToApply)
<1>1. m \in Nat /\ \A i \in 1 .. m : ToApply[i] \in Unadded /\ ToApply[i] \in 1 .. Len(valueReviews)
  BY ToApplyIs
<1>2. process \in Nat
  BY DEF ListsInv
<1>3. ASSUME NEW i \in 1 .. m
      PROVE  LET r == ToApply[i]
             IN  /\ UpdateOf(r) \in Update /\ UpdateOf(r).id = r /\ UpdateOf(r).process = process
                 /\ UpdateOf(r).candidate = valueReviews[r].candidate
                 /\ UpdateOf(r).tick = valueReviews[r].tick
                 /\ OnItsSide(UpdateOf(r))
  <2> DEFINE r == ToApply[i]
             c == valueReviews[r].candidate
             t == valueReviews[r].tick
             reading == ReadingOf(c)
  <2>1. r \in 1 .. Len(valueReviews) /\ r \in Unadded
    BY <1>1
  <2>2. /\ c \in 1 .. Len(valueCandidates) /\ t \in Nat /\ reading \in Readings
        /\ valueReviews[r].decision = ReviewDecision(reading)
    BY <2>1, ListFields
  <2>3. valueReviews[r].decision = "ready"
    BY <2>1 DEF Unadded, ReadyToAdd
  <2>4. UpdateOf(r) = [id |-> r, process |-> process, candidate |-> c, tick |-> t,
                       score |-> reading.score, bucket |-> Bucket(reading),
                       strength |-> CandidateStrength(reading)]
    BY DEF UpdateOf
  <2>5. r \in Nat /\ c \in Nat
    BY <2>1, <2>2, ListFields
  <2> HIDE DEF r, c, t, reading
  <2>6. reading.score \in Int /\ CandidateStrength(reading) \in Int /\ Bucket(reading) \in Buckets
    <3>1. reading.score \in Scores /\ CandidateStrength(reading) \in Amounts
          /\ Bucket(reading) \in Buckets
      BY <2>2, ReadingIs
    <3>2. (\A x \in Scores : x \in Int) /\ (\A x \in Amounts : x \in Int)
      BY DEF Scores, Amounts
    <3> QED
      BY <3>1, <3>2
  <2>7. \/ Bucket(reading) = "positive" /\ reading.score >= 200
        \/ Bucket(reading) = "negative" /\ reading.score <= -350
    <3>1. ReviewDecision(reading) = "ready"
      BY <2>2, <2>3
    <3> QED
      BY <2>2, <3>1, ReadyIsClear
  <2>8. UpdateOf(r) \in Update
    BY <1>2, <2>2, <2>4, <2>5, <2>6 DEF Update
  <2>9. OnItsSide(UpdateOf(r))
    <3>1. UpdateOf(r).bucket = Bucket(reading) /\ UpdateOf(r).score = reading.score
      BY <2>4
    <3> QED
      BY <2>7, <3>1 DEF OnItsSide
  <2>10. /\ UpdateOf(r).id = r /\ UpdateOf(r).process = process
         /\ UpdateOf(r).candidate = c /\ UpdateOf(r).tick = t
    BY <2>4
  <2> QED
    BY <2>8, <2>9, <2>10 DEF r, c, t
<1>4. Additions = [i \in 1 .. m |-> UpdateOf(ToApply[i])]
  BY DEF Additions
<1> HIDE DEF m
<1>5. Additions \in Seq(Update) /\ Len(Additions) = m
      /\ \A i \in 1 .. m : Additions[i] = UpdateOf(ToApply[i])
  BY <1>1, <1>3, <1>4
<1> QED
  BY <1>3, <1>5 DEF m

\* What the invariant says of the updates, and of the links in the file.
LEMMA UpdateFields ==
  ASSUME ValueAssumption, AddedInv
  PROVE  /\ Len(updates) \in Nat
         /\ \A i \in 1 .. Len(updates) : updates[i] \in Update
         /\ \A i \in 1 .. Len(updates) : updates[i].process \in Nat /\ updates[i].tick \in Nat
         /\ record.links = LastIds(updates, Len(updates))
<1>1. updates \in Seq(Update) /\ record = AddedAll(Unvalued, updates)
  BY DEF AddedInv
<1>2. Len(updates) \in Nat /\ \A i \in 1 .. Len(updates) : updates[i] \in Update
  BY <1>1
<1>3. \A u \in Update : u.process \in Nat /\ u.tick \in Nat
  BY DEF Update
<1>4. record.links = LastIds(updates, Len(updates))
  BY <1>1, ReplayIs
<1> QED
  BY <1>2, <1>3, <1>4

\* An id that is not in the file any more lies behind all its links.
LEMMA ForgottenIsFar ==
  ASSUME ValueAssumption, AddedInv, NEW i \in 1 .. Len(updates),
         updates[i].id \notin ToSet(record.links)
  PROVE  Len(updates) + 1 - i > LinkWindow
<1> DEFINE n == Len(updates)
           k == Named(n)
<1>1. n \in Nat /\ record.links = LastIds(updates, n)
  BY UpdateFields
<1>2. LinkWindow \in Nat /\ k \in Nat /\ k <= n /\ (k < n => k = LinkWindow)
  BY <1>1 DEF ValueAssumption, Named
<1>3. record.links = [j \in 1 .. k |-> updates[n - k + j].id]
  BY <1>1 DEF LastIds
<1>4. ASSUME i > n - k PROVE FALSE
  <2> DEFINE j == i - (n - k)
  <2>1. j \in 1 .. k /\ n - k + j = i
    BY <1>1, <1>2, <1>4
  <2>2. j \in DOMAIN record.links /\ record.links[j] = updates[i].id
    BY <1>3, <2>1
  <2>3. updates[i].id \in ToSet(record.links)
    BY <2>2 DEF ToSet
  <2> QED
    BY <2>3
<1>5. i <= n - k
  BY <1>1, <1>2, <1>4
<1> HIDE DEF k
<1> QED
  BY <1>1, <1>2, <1>5

\* What an update writes keeps the invariant.
LEMMA UpdateAdds ==
  ASSUME ValueAssumption, ListsInv, PacedInv, AddedInv, UpdateRecord PROVE AddedInv'
<1> DEFINE n == Len(updates)
           m == Len(ToApply)
<1>1. /\ record' = AddedAll(record, Additions) /\ appliedIds' = appliedIds \cup ToSet(ToApply)
      /\ updates' = updates \o Additions /\ UNCHANGED <<process, valueReviews>>
  BY DEF UpdateRecord, EndValueTick, valueMemory
<1>2. /\ updates \in Seq(Update) /\ n \in Nat /\ process \in Nat
      /\ \A i \in 1 .. n : updates[i].process \in Nat /\ updates[i].tick \in Nat
  BY UpdateFields DEF AddedInv, ListsInv
<1>3. /\ m \in Nat /\ \A i \in 1 .. m : ToApply[i] \in Unadded /\ ToApply[i] \in 1 .. Len(valueReviews)
      /\ \A i, j \in 1 .. m : i < j => ToApply[i] < ToApply[j]
  BY ToApplyIs
<1>4. /\ Additions \in Seq(Update) /\ Len(Additions) = m
      /\ \A i \in 1 .. m :
            /\ Additions[i].id = ToApply[i] /\ Additions[i].process = process
            /\ Additions[i].candidate = valueReviews[ToApply[i]].candidate
            /\ Additions[i].tick = valueReviews[ToApply[i]].tick
            /\ OnItsSide(Additions[i])
  BY AdditionsAre
<1>5. \A r \in Unadded : r \notin appliedIds /\ r \notin ToSet(record.links)
  BY DEF Unadded, AlreadyAdded
<1>6. ToSet(ToApply) = {ToApply[i] : i \in 1 .. m}
  <2>1. DOMAIN ToApply = 1 .. m
    <3>1. Len(Additions) = Len(ToApply) /\ ToApply = InOrder(Unadded)
      BY AdditionsAre DEF ToApply, Unadded
    <3>2. Unadded \in SUBSET (1 .. Len(valueReviews)) /\ Len(valueReviews) \in Nat
      BY ToApplyIs, ListFields
    <3>3. InOrder(Unadded) \in Seq(Unadded)
      BY <3>2, InOrderLists
    <3> QED
      BY <3>1, <3>3
  <2> QED
    BY <2>1 DEF ToSet
<1> HIDE DEF m
<1>7. /\ updates' \in Seq(Update) /\ Len(updates') = n + m
      /\ \A i \in 1 .. n : updates'[i] = updates[i]
      /\ \A i \in 1 .. m : updates'[n + i] = Additions[i]
      /\ \A i \in 1 .. n + m : i \notin 1 .. n => i - n \in 1 .. m /\ updates'[i] = Additions[i - n]
  <2>1. n = Len(updates) /\ m = Len(Additions) /\ updates' = updates \o Additions
    BY <1>1, <1>4
  <2> HIDE DEF n
  <2> QED
    <3>1. updates \in Seq(Update) /\ Additions \in Seq(Update)
      BY <1>2, <1>4
    <3> QED
      BY <2>1, <3>1, Grown
<1>8. record' = AddedAll(Unvalued, updates')
  <2>1. record = AddedAll(Unvalued, updates)
    BY DEF AddedInv
  <2> QED
    BY <1>1, <1>2, <1>4, <2>1, AddingMore
<1> HIDE DEF n
\* Of the new ones all is known from their reviews.
<1>9. ASSUME NEW i \in 1 .. n + m, i \notin 1 .. n
      PROVE  LET r == updates'[i].id
             IN  /\ i - n \in 1 .. m /\ r = ToApply[i - n] /\ r \in Unadded
                 /\ r \in 1 .. Len(valueReviews) /\ updates'[i].process = process
                 /\ updates'[i].candidate = valueReviews[r].candidate
                 /\ updates'[i].tick = valueReviews[r].tick
                 /\ OnItsSide(updates'[i])
  BY <1>3, <1>4, <1>7, <1>9
\* The old ones of this process are copies too.
<1>10. ASSUME NEW i \in 1 .. n, updates[i].process = process
       PROVE  LET r == updates[i].id
              IN  /\ r \in appliedIds /\ r \in 1 .. Len(valueReviews)
                  /\ updates[i].candidate = valueReviews[r].candidate
                  /\ updates[i].tick = valueReviews[r].tick
  BY <1>10 DEF AddedInv, Copies, n
<1>11. Copies(updates', valueReviews', appliedIds', process')
  <2>1. ASSUME NEW i \in 1 .. n + m PROVE updates'[i].process <= process
    <3>1. CASE i \in 1 .. n
      BY <1>7, <3>1 DEF AddedInv, Copies, n
    <3>2. CASE i \notin 1 .. n
      BY <1>2, <1>9, <3>2
    <3> QED
      BY <3>1, <3>2
  <2>2. ASSUME NEW i \in 1 .. n + m, updates'[i].process = process
        PROVE  LET r == updates'[i].id
               IN  /\ r \in appliedIds' /\ r \in 1 .. Len(valueReviews)
                   /\ updates'[i].candidate = valueReviews[r].candidate
                   /\ updates'[i].tick = valueReviews[r].tick
    <3>1. CASE i \in 1 .. n
      BY <1>1, <1>7, <1>10, <2>2, <3>1
    <3>2. CASE i \notin 1 .. n
      BY <1>1, <1>6, <1>9, <3>2
    <3> QED
      BY <3>1, <3>2
  <2>3. ASSUME NEW r \in appliedIds'
        PROVE  \E i \in 1 .. n + m : updates'[i].id = r /\ updates'[i].process = process
    <3>1. CASE r \in appliedIds
      <4>1. PICK i \in 1 .. n : updates[i].id = r /\ updates[i].process = process
        BY <3>1 DEF AddedInv, Copies, n
      <4>2. i \in 1 .. n + m /\ updates'[i] = updates[i]
        BY <1>2, <1>3, <1>7, <4>1 DEF n, m
      <4> QED
        BY <4>1, <4>2
    <3>2. CASE r \in ToSet(ToApply)
      <4>1. PICK i \in 1 .. m : ToApply[i] = r
        BY <1>6, <3>2
      <4>2. n + i \in 1 .. n + m /\ updates'[n + i] = Additions[i]
        BY <1>2, <1>3, <1>7, <4>1 DEF n, m
      <4>3. Additions[i].id = r /\ Additions[i].process = process
        BY <1>4, <4>1
      <4> QED
        BY <4>2, <4>3
    <3> QED
      BY <1>1, <2>3, <3>1, <3>2
  <2> QED
    BY <1>1, <1>7, <2>1, <2>2, <2>3 DEF Copies
\* Two updates of one process are of different reviews.
<1>12. ASSUME NEW i \in 1 .. n + m, NEW j \in 1 .. n + m, i < j, updates'[i].id = updates'[j].id
       PROVE  updates'[i].process # updates'[j].process /\ j - i > LinkWindow
  <2>1. CASE j \in 1 .. n
    <3>1. i \in 1 .. n
      BY <1>2, <1>12, <2>1 DEF n
    <3> QED
      BY <1>7, <1>12, <2>1, <3>1 DEF AddedInv, OnceIn, n
  <2>2. CASE j \notin 1 .. n /\ i \in 1 .. n
    <3> DEFINE r == updates'[j].id
    <3>1. r \in Unadded /\ updates'[j].process = process /\ updates'[i] = updates[i]
      BY <1>7, <1>9, <2>2
    <3>2. r \notin appliedIds /\ r \notin ToSet(record.links)
      BY <1>5, <3>1
    <3>3. updates[i].process # process
      BY <1>10, <1>12, <2>2, <3>1, <3>2
    <3>4. n + 1 - i > LinkWindow
      <4>1. updates[i].id \notin ToSet(record.links) /\ i \in 1 .. Len(updates)
        BY <1>12, <2>2, <3>1, <3>2 DEF n
      <4> QED
        BY <4>1, ForgottenIsFar DEF n
    <3>5. j - i > LinkWindow
      <4>1. LinkWindow \in Nat /\ j >= n + 1
        BY <1>2, <2>2 DEF ValueAssumption, n
      <4> QED
        BY <1>2, <3>4, <4>1 DEF n
    <3> QED
      BY <3>1, <3>3, <3>5
  <2>3. CASE j \notin 1 .. n /\ i \notin 1 .. n
    <3>1. /\ i - n \in 1 .. m /\ j - n \in 1 .. m
          /\ updates'[i].id = ToApply[i - n] /\ updates'[j].id = ToApply[j - n]
      BY <1>9, <2>3
    <3>2. i - n < j - n
      BY <1>2, <1>12 DEF n
    <3>3. /\ ToApply[i - n] < ToApply[j - n]
          /\ ToApply[i - n] \in 1 .. Len(valueReviews) /\ ToApply[j - n] \in 1 .. Len(valueReviews)
      BY <1>3, <3>1, <3>2 DEF m
    <3>4. ToApply[i - n] # ToApply[j - n]
      BY <3>3
    <3> QED
      BY <1>12, <3>1, <3>4
  <2> QED
    BY <2>1, <2>2, <2>3
\* And two of one candidate keep its distance.
<1>13. ASSUME NEW i \in 1 .. n + m, NEW j \in 1 .. n + m, i < j,
              updates'[i].process = updates'[j].process,
              updates'[i].candidate = updates'[j].candidate
       PROVE  Apart(updates'[i].tick, updates'[j].tick, ReviewCooldown)
  <2>1. CASE j \in 1 .. n
    <3>1. i \in 1 .. n
      BY <1>2, <1>13, <2>1 DEF n
    <3> QED
      BY <1>7, <1>13, <2>1, <3>1 DEF AddedInv, ApartIn, n
  <2>2. CASE j \notin 1 .. n
    <3> DEFINE r == updates'[i].id
               s == updates'[j].id
    <3>1. /\ s \in 1 .. Len(valueReviews) /\ updates'[j].process = process
          /\ updates'[j].candidate = valueReviews[s].candidate
          /\ updates'[j].tick = valueReviews[s].tick
      BY <1>9, <2>2
    <3>2. /\ r \in 1 .. Len(valueReviews)
          /\ updates'[i].candidate = valueReviews[r].candidate
          /\ updates'[i].tick = valueReviews[r].tick
      <4>1. CASE i \in 1 .. n
        BY <1>7, <1>10, <1>13, <3>1, <4>1
      <4>2. CASE i \notin 1 .. n
        BY <1>9, <4>2
      <4> QED
        BY <4>1, <4>2
    <3>3. r # s
      BY <1>12, <1>13
    <3> HIDE DEF r, s
    <3>4. valueReviews[r].candidate = valueReviews[s].candidate
      BY <1>13, <3>1, <3>2
    <3>5. Apart(valueReviews[r].tick, valueReviews[s].tick, ReviewCooldown)
      <4> DEFINE of == CandidatesSpokenOf
                 when == ReviewTicks
      <4>1. /\ of[r] = of[s] /\ when[r] = valueReviews[r].tick /\ when[s] = valueReviews[s].tick
        BY <3>1, <3>2, <3>4 DEF CandidatesSpokenOf, ReviewTicks
      <4>2. Paced(Len(valueReviews), of, when, ReviewCooldown)
        BY DEF PacedInv
      <4> HIDE DEF of, when
      <4>3. r < s \/ s < r
        BY <3>1, <3>2, <3>3
      <4> QED
        BY <3>1, <3>2, <4>1, <4>2, <4>3 DEF Paced, Apart
    <3> QED
      BY <3>1, <3>2, <3>5
  <2> QED
    BY <2>1, <2>2
<1>14. \A i \in 1 .. n + m : OnItsSide(updates'[i])
  <2>1. ASSUME NEW i \in 1 .. n + m PROVE OnItsSide(updates'[i])
    <3>1. CASE i \in 1 .. n
      BY <1>7, <3>1 DEF AddedInv, n
    <3>2. CASE i \notin 1 .. n
      BY <1>9, <3>2
    <3> QED
      BY <3>1, <3>2
  <2> QED
    BY <2>1
<1>15. OnceIn(updates') /\ ApartIn(updates')
  BY <1>7, <1>12, <1>13 DEF OnceIn, ApartIn
<1>16. \A i \in 1 .. Len(updates') : OnItsSide(updates'[i])
  BY <1>7, <1>14
<1> QED
  BY <1>7, <1>8, <1>11, <1>15, <1>16 DEF AddedInv

-----------------------------------------------------------------------------
(* The steps of value feedback.                                            *)

\* Nothing is added to the record; there may be more reviews.
LEMMA AddedStays ==
  ASSUME ListsInv, AddedInv, UNCHANGED <<record, updates, appliedIds, process>>,
         Len(valueReviews') \in Nat, Len(valueReviews) <= Len(valueReviews'),
         \A r \in 1 .. Len(valueReviews) : valueReviews'[r] = valueReviews[r]
  PROVE  AddedInv'
<1>1. Copies(updates, valueReviews', appliedIds, process)
  <2>1. Len(valueReviews) \in Nat
    BY ListFields
  <2>2. \A r \in 1 .. Len(valueReviews) : r \in 1 .. Len(valueReviews')
    BY <2>1
  <2>3. Copies(updates, valueReviews, appliedIds, process)
    BY DEF AddedInv
  <2> QED
    BY <2>2, <2>3 DEF Copies
<1>2. Copies(updates', valueReviews', appliedIds', process')
  BY <1>1
<1>3. OnceIn(updates') /\ ApartIn(updates')
  BY DEF AddedInv
<1>4. /\ updates' \in Seq(Update) /\ record' = AddedAll(Unvalued, updates')
      /\ \A i \in 1 .. Len(updates') : OnItsSide(updates'[i])
  BY DEF AddedInv
<1> QED
  BY <1>2, <1>3, <1>4 DEF AddedInv

\* A new process has none of the updates.
LEMMA NextProcessKeeps ==
  ASSUME ListsInv, AddedInv, NextProcess PROVE ListsInv' /\ PacedInv' /\ AddedInv'
<1>1. /\ decisions' = <<>> /\ observations' = <<>> /\ valueCandidates' = <<>>
      /\ valueReviews' = <<>> /\ appliedIds' = {} /\ process' = process + 1
      /\ module' = "observe" /\ clock' = 1 /\ UNCHANGED <<record, faults, updates>>
  BY DEF NextProcess
<1>2. ListsInv'
  <2>1. process \in Nat /\ faults \in Nat
    BY DEF ListsInv
  <2>2. /\ Len(decisions') = 0 /\ observations' \in Seq(Observation)
        /\ valueCandidates' \in Seq(ValueCandidate) /\ valueReviews' \in Seq(ValueReview)
        /\ Len(valueCandidates') = 0 /\ Len(valueReviews') = 0
    BY <1>1
  <2>3. 1 .. 0 = {}
    OBVIOUS
  <2> QED
    BY <1>1, <2>1, <2>2, <2>3 DEF ListsInv
<1>3. PacedInv'
  <2>1. Len(valueCandidates') = 0 /\ Len(valueReviews') = 0 /\ 1 .. 0 = {}
    BY <1>1
  <2> QED
    BY <2>1 DEF PacedInv, Paced
<1>4. AddedInv'
  <2>1. updates \in Seq(Update) /\ Copies(updates, valueReviews, appliedIds, process)
    BY DEF AddedInv
  <2>2. \A i \in 1 .. Len(updates) : updates[i].process \in Nat
    <3>1. \A u \in Update : u.process \in Nat
      BY DEF Update
    <3>2. \A i \in 1 .. Len(updates) : updates[i] \in Update
      BY <2>1
    <3> QED
      BY <3>1, <3>2
  <2>3. \A i \in 1 .. Len(updates) : updates[i].process <= process + 1 /\ updates[i].process # process + 1
    <3>1. process \in Nat
      BY DEF ListsInv
    <3>2. \A i \in 1 .. Len(updates) : updates[i].process <= process
      BY <2>1 DEF Copies
    <3> QED
      BY <2>2, <3>1, <3>2
  <2>4. Copies(updates, valueReviews', {}, process + 1)
    BY <2>3 DEF Copies
  <2> QED
    BY <1>1, <2>4 DEF AddedInv
<1> QED
  BY <1>2, <1>3, <1>4

\* Every step keeps the invariant.
LEMMA ValueStep == ASSUME ValueAssumption, ValueInv, [ValueNext]_valueVars PROVE ValueInv'
<1>1. ListsInv /\ PacedInv /\ AddedInv
  BY DEF ValueInv
<1>2. clock \in Nat /\ clock + 1 \in Nat /\ faults \in Nat /\ faults + 1 \in Nat
      /\ Len(valueReviews) \in Nat
  BY <1>1, ListFields DEF ListsInv
<1>3. ASSUME Observe PROVE ValueInv'
  <2>1. ListsInv'
    BY <1>1, <1>3, ObserveLists
  <2>2. UNCHANGED <<valueCandidates, valueReviews, record, updates, appliedIds, process>>
    BY <1>3 DEF Observe
  <2>3. PacedInv'
    <3>1. UNCHANGED <<ObservationsSpokenOf, CandidateTicks, CandidatesSpokenOf, ReviewTicks>>
      BY <2>2 DEF ObservationsSpokenOf, CandidateTicks, CandidatesSpokenOf, ReviewTicks
    <3> QED
      BY <1>1, <2>2, <3>1 DEF PacedInv, Paced
  <2>4. AddedInv'
    BY <1>1, <1>2, <2>2, AddedStays
  <2> QED
    BY <2>1, <2>3, <2>4 DEF ValueInv
<1>4. ASSUME BuildCandidates PROVE ValueInv'
  <2>1. ListsInv' /\ PacedInv'
    BY <1>1, <1>4, BuildLists
  <2>2. UNCHANGED <<valueReviews, record, updates, appliedIds, process>>
    BY <1>4 DEF BuildCandidates
  <2>3. AddedInv'
    BY <1>1, <1>2, <2>2, AddedStays
  <2> QED
    BY <2>1, <2>3 DEF ValueInv
<1>5. ASSUME ReviewCandidates PROVE ValueInv'
  <2>1. /\ ListsInv' /\ PacedInv' /\ Len(valueReviews) <= Len(valueReviews')
        /\ \A r \in 1 .. Len(valueReviews) : valueReviews'[r] = valueReviews[r]
    BY <1>1, <1>5, ReviewLists
  <2>2. UNCHANGED <<record, updates, appliedIds, process>>
    BY <1>5 DEF ReviewCandidates
  <2>3. Len(valueReviews') \in Nat
    <3>1. valueReviews' \in Seq(ValueReview)
      BY <2>1 DEF ListsInv
    <3> QED
      BY <3>1
  <2>4. AddedInv'
    BY <1>1, <2>1, <2>2, <2>3, AddedStays
  <2> QED
    BY <2>1, <2>4 DEF ValueInv
<1>6. ASSUME UpdateRecord PROVE ValueInv'
  <2>1. UNCHANGED valueMemory /\ UNCHANGED process /\ clock' \in Nat /\ faults' \in Nat
        /\ module' = "observe"
    BY <1>2, <1>6 DEF UpdateRecord, EndValueTick
  <2>2. ListsInv' /\ PacedInv'
    BY <1>1, <2>1, ListsStay, PacedStays
  <2>3. AddedInv'
    BY <1>1, <1>6, UpdateAdds
  <2> QED
    BY <2>2, <2>3 DEF ValueInv
<1>7. ASSUME UpdateFails \/ UpdateNothing PROVE ValueInv'
  <2>1. /\ UNCHANGED valueMemory /\ UNCHANGED process /\ clock' = clock + 1
        /\ faults' \in {faults, faults + 1} /\ module' = "observe"
        /\ UNCHANGED <<record, updates, appliedIds>>
    BY <1>7 DEF UpdateFails, UpdateNothing, EndValueTick
  <2>2. ListsInv' /\ PacedInv'
    BY <1>1, <1>2, <2>1, ListsStay, PacedStays
  <2>3. valueReviews' = valueReviews
    BY <2>1 DEF valueMemory
  <2>4. AddedInv'
    BY <1>1, <1>2, <2>1, <2>3, AddedStays
  <2> QED
    BY <2>2, <2>4 DEF ValueInv
<1>8. ASSUME NextProcess PROVE ValueInv'
  BY <1>1, <1>8, NextProcessKeeps DEF ValueInv
<1>9. ASSUME UNCHANGED valueVars PROVE ValueInv'
  <2>1. UNCHANGED <<module, clock, valueMemory, appliedIds, record, faults, process, updates>>
    BY <1>9 DEF valueVars
  <2>2. module \in {"observe", "build", "review", "write"}
    BY <1>1 DEF ListsInv
  <2>3. ListsInv' /\ PacedInv'
    BY <1>1, <1>2, <2>1, <2>2, ListsStay, PacedStays
  <2>4. valueReviews' = valueReviews
    BY <2>1 DEF valueMemory
  <2>5. AddedInv'
    BY <1>1, <1>2, <2>1, <2>4, AddedStays
  <2> QED
    BY <2>3, <2>5 DEF ValueInv
<1> QED
  BY <1>3, <1>4, <1>5, <1>6, <1>7, <1>8, <1>9 DEF ValueNext

\* It holds at the start.
LEMMA ValueInitInv == ASSUME ValueAssumption, ValueInit PROVE ValueInv
<1>1. /\ decisions = <<>> /\ observations = <<>> /\ valueCandidates = <<>> /\ valueReviews = <<>>
      /\ appliedIds = {} /\ process = 0 /\ faults = 0 /\ module = "observe" /\ clock = 1
      /\ record = Unvalued /\ updates = <<>>
  BY DEF ValueInit
<1>2. 1 .. 0 = {}
  OBVIOUS
<1>3. ListsInv
  <2>1. /\ Len(decisions) = 0 /\ observations \in Seq(Observation)
        /\ valueCandidates \in Seq(ValueCandidate) /\ valueReviews \in Seq(ValueReview)
        /\ Len(valueCandidates) = 0 /\ Len(valueReviews) = 0
    BY <1>1
  <2> QED
    BY <1>1, <1>2, <2>1 DEF ListsInv
<1>4. PacedInv
  <2>1. Len(valueCandidates) = 0 /\ Len(valueReviews) = 0
    BY <1>1
  <2> QED
    BY <1>2, <2>1 DEF PacedInv, Paced
<1>5. AddedInv
  <2>1. updates \in Seq(Update) /\ Len(updates) = 0 /\ DOMAIN updates = 1 .. 0
    BY <1>1
  <2>2. record = AddedAll(Unvalued, updates)
    <3>1. 0 \in Nat
      OBVIOUS
    <3>2. PICK run : AddingRun(run, Unvalued, updates, 0)
      BY <2>1, <3>1, AddingRuns
    <3> QED
      BY <1>1, <3>2 DEF AddingRun
  <2>3. Copies(updates, valueReviews, appliedIds, process) /\ OnceIn(updates) /\ ApartIn(updates)
    BY <1>1, <1>2, <2>1 DEF Copies, OnceIn, ApartIn
  <2> QED
    BY <1>2, <2>1, <2>2, <2>3 DEF AddedInv
<1> QED
  BY <1>3, <1>4, <1>5 DEF ValueInv

\* The invariant holds in every state.
THEOREM ValueInvariant ==
  ASSUME ValueAssumption PROVE ValueSpec => []ValueInv
<1>1. ValueInit => ValueInv
  BY ValueInitInv
<1>2. ValueInv /\ [ValueNext]_valueVars => ValueInv'
  BY ValueStep
<1> QED
  BY <1>1, <1>2, PTL DEF ValueSpec

-----------------------------------------------------------------------------
(* The properties.                                                         *)

\* The invariant says what is promised.
LEMMA InvIsEarned == ASSUME ValueAssumption, ValueInv PROVE ValueIsEarned
<1>1. ListsInv /\ PacedInv /\ AddedInv
  BY DEF ValueInv
<1>2. ReviewsCountOnce
  BY <1>1 DEF AddedInv, OnceIn, ReviewsCountOnce
<1>3. RepetitionIsPaced
  <2>1. ApartIn(updates)
    BY <1>1 DEF AddedInv
  <2>2. \A i, j \in 1 .. Len(valueCandidates) :
           i < j /\ valueCandidates[i].observation = valueCandidates[j].observation
           => valueCandidates[j].tick >= valueCandidates[i].tick + CandidateCooldown
    <3>1. Paced(Len(valueCandidates), ObservationsSpokenOf, CandidateTicks, CandidateCooldown)
      BY <1>1 DEF PacedInv
    <3>2. \A i \in 1 .. Len(valueCandidates) :
             /\ ObservationsSpokenOf[i] = valueCandidates[i].observation
             /\ CandidateTicks[i] = valueCandidates[i].tick
      BY DEF ObservationsSpokenOf, CandidateTicks
    <3> QED
      BY <3>1, <3>2 DEF Paced
  <2> QED
    BY <2>1, <2>2 DEF RepetitionIsPaced, ApartIn
<1>4. RecordAddsUp
  <2>1. updates \in Seq(Update) /\ record = AddedAll(Unvalued, updates)
    BY <1>1 DEF AddedInv
  <2>2. \A b \in Buckets :
           record.counts[b] = Cardinality({i \in 1 .. Len(updates) : updates[i].bucket = b})
    BY <2>1, ReplayIs DEF InBucket
  <2>3. record.links = LastIds(updates, Len(updates))
    BY <2>1, ReplayIs
  <2> QED
    BY <2>1, <2>2, <2>3 DEF RecordAddsUp, LastIds, Named
<1>5. CountedOnItsSide
  BY <1>1 DEF AddedInv, OnItsSide, CountedOnItsSide
<1> QED
  BY <1>2, <1>3, <1>4, <1>5 DEF ValueIsEarned

\* ValueIsEarned: a ready review is added to the record once, and its id is not
\* taken for a new one while the record names it; the same evidence is counted
\* again only at the pace of the cooldowns; the counters, totals and links in the
\* file are those of the updates; each piece is on the side of its evidence.
THEOREM ValuesAreEarned ==
  ASSUME ValueAssumption PROVE ValueSpec => []ValueIsEarned
<1>1. ValueInv => ValueIsEarned
  BY InvIsEarned
<1> QED
  BY <1>1, ValueInvariant, PTL

\* What a step of the writer leaves.
LEMMA NoneIsLeft ==
  ASSUME ValueAssumption, ValueInv, ValueNext PROVE WriteLeavesNoneBehind
<1>1. SUFFICES ASSUME module = "write", systemMode = "consolidation", allowed, faults' = faults,
                      NEW r \in Recent(valueReviews, ValueReviewWindow), ReadyToAdd(r)
               PROVE  \/ \E i \in 1 .. Len(updates') : /\ updates'[i].id = r
                                                      /\ updates'[i].process = process
                      \/ r \in ToSet(record.links)
  BY DEF WriteLeavesNoneBehind
<1>2. ListsInv /\ AddedInv
  BY DEF ValueInv
<1>3. Len(ToApply) \in Nat /\ (r \in Unadded => \E i \in 1 .. Len(ToApply) : ToApply[i] = r)
  BY <1>2, ToApplyIs
\* What this process has added stays in the list.
<1>4. updates \in Seq(Update) /\ Len(updates) \in Nat
  BY <1>2, UpdateFields DEF AddedInv
<1>5. r \in appliedIds => \E i \in 1 .. Len(updates) : updates[i].id = r /\ updates[i].process = process
  BY <1>2 DEF AddedInv, Copies
<1>6. r \notin Unadded => r \in appliedIds \/ r \in ToSet(record.links)
  BY <1>1 DEF Unadded, AlreadyAdded
<1>7. CASE UpdateRecord
  <2> DEFINE n == Len(updates)
             m == Len(ToApply)
  <2>1. updates' = updates \o Additions
    BY <1>7 DEF UpdateRecord
  <2>2. /\ Additions \in Seq(Update) /\ Len(Additions) = m
        /\ \A i \in 1 .. m : Additions[i].id = ToApply[i] /\ Additions[i].process = process
    BY <1>2, AdditionsAre
  <2>3. /\ Len(updates') = n + m
        /\ \A i \in 1 .. n : updates'[i] = updates[i]
        /\ \A i \in 1 .. m : updates'[n + i] = Additions[i]
    <3>1. n = Len(updates) /\ m = Len(Additions)
      BY <2>2
    <3> HIDE DEF n, m
    <3>2. updates \in Seq(Update) /\ Additions \in Seq(Update)
      BY <1>4, <2>2
    <3> QED
      BY <2>1, <3>1, <3>2, Grown
  <2>4. CASE r \in Unadded
    <3>1. PICK i \in 1 .. m : ToApply[i] = r
      BY <1>3, <2>4
    <3>2. n + i \in 1 .. Len(updates')
      BY <1>3, <1>4, <2>3, <3>1
    <3>3. updates'[n + i].id = r /\ updates'[n + i].process = process
      BY <2>2, <2>3, <3>1
    <3> QED
      BY <3>2, <3>3
  <2>5. CASE r \in appliedIds
    <3>1. PICK i \in 1 .. n : updates[i].id = r /\ updates[i].process = process
      BY <1>5, <2>5
    <3>2. i \in 1 .. Len(updates') /\ updates'[i] = updates[i]
      BY <1>3, <1>4, <2>3, <3>1
    <3> QED
      BY <3>1, <3>2
  <2> QED
    BY <1>6, <2>4, <2>5
<1>8. CASE UpdateNothing
  <2>1. ToApply = <<>> /\ updates' = updates
    BY <1>1, <1>8 DEF UpdateNothing, Writes
  <2>2. r \notin Unadded
    <3>1. Len(ToApply) = 0 /\ 1 .. 0 = {}
      BY <2>1
    <3> QED
      BY <1>3, <3>1
  <2> QED
    BY <1>5, <1>6, <2>1, <2>2
<1>9. CASE UpdateFails
  <2>1. faults \in Nat /\ faults' = faults + 1
    BY <1>2, <1>9 DEF UpdateFails, ListsInv
  <2> QED
    BY <1>1, <2>1
<1>10. CASE Observe \/ BuildCandidates \/ ReviewCandidates \/ NextProcess
  BY <1>1, <1>10 DEF Observe, BuildCandidates, ReviewCandidates, NextProcess
<1> QED
  BY <1>7, <1>8, <1>9, <1>10 DEF ValueNext

\* FailuresAreMadeGood: a consolidating tick that writes leaves no ready review
\* of its window out, whatever writes failed before it.
THEOREM NoReadyReviewIsLeft ==
  ASSUME ValueAssumption PROVE ValueSpec => FailuresAreMadeGood
<1>1. ValueInv /\ [ValueNext]_valueVars => [WriteLeavesNoneBehind]_valueVars
  BY NoneIsLeft
<1> QED
  BY <1>1, ValueInvariant, PTL DEF ValueSpec, FailuresAreMadeGood

=============================================================================
