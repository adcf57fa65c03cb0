------------------------- MODULE ContextFlow_proofs -------------------------
EXTENDS ContextFlow, ScenarioRun, Positions_proofs

(***************************************************************************)
(* Lists and their ends                                                    *)
(***************************************************************************)
IsList(s) == s \in Seq(Range(s))

\* A sequence over any set is a list of what is in it.
LEMMA SequencesAreLists ==
  ASSUME NEW T, NEW s \in Seq(T)
  PROVE  IsList(s) /\ Range(s) \subseteq T
<1>1. Len(s) \in Nat /\ DOMAIN s = 1 .. Len(s) /\ s \in [1 .. Len(s) -> T]
  OBVIOUS
<1>2. \A i \in 1 .. Len(s) : s[i] \in Range(s) /\ s[i] \in T
  BY <1>1 DEF Range
<1>3. s = [i \in 1 .. Len(s) |-> s[i]]
  BY <1>1
<1>4. s \in [1 .. Len(s) -> Range(s)]
  BY <1>2, <1>3
<1>5. s \in Seq(Range(s))
  BY <1>1, <1>4
<1> QED
  BY <1>1, <1>2, <1>5 DEF IsList, Range

LEMMA ListIs ==
  ASSUME NEW s, IsList(s)
  PROVE  /\ Len(s) \in Nat /\ DOMAIN s = 1 .. Len(s)
         /\ \A i \in 1 .. Len(s) : s[i] \in Range(s)
         /\ \A x \in Range(s) : \E i \in 1 .. Len(s) : s[i] = x
         /\ Len(s) = 0 <=> s = <<>>
  BY DEF IsList, Range

LEMMA NoList == IsList(<<>>) /\ Len(<<>>) = 0 /\ Range(<<>>) = {}
  BY DEF IsList, Range

\* Two lists with the same entries are the same.
LEMMA SameList ==
  ASSUME NEW s, NEW t, IsList(s), IsList(t), Len(s) = Len(t),
         \A i \in 1 .. Len(s) : s[i] = t[i]
  PROVE  s = t
<1>1. s = [i \in 1 .. Len(s) |-> s[i]] /\ t = [i \in 1 .. Len(t) |-> t[i]]
  BY DEF IsList
<1> QED
  BY <1>1

LEMMA JoinLists ==
  ASSUME NEW s, NEW t, IsList(s), IsList(t)
  PROVE  /\ IsList(s \o t) /\ Len(s \o t) = Len(s) + Len(t)
         /\ \A i \in 1 .. Len(s) : (s \o t)[i] = s[i]
         /\ \A i \in 1 .. Len(t) : (s \o t)[Len(s) + i] = t[i]
         /\ \A i \in 1 .. Len(s \o t) : i \notin 1 .. Len(s) =>
               i - Len(s) \in 1 .. Len(t) /\ (s \o t)[i] = t[i - Len(s)]
         /\ Range(s \o t) = Range(s) \cup Range(t)
<1> DEFINE T == Range(s) \cup Range(t)
<1>1. s \in Seq(T) /\ t \in Seq(T)
  BY DEF IsList
<1> HIDE DEF T
<1>2. s \o t \in Seq(T) /\ ToSet(s \o t) = ToSet(s) \cup ToSet(t)
  BY <1>1, JoinedSet
<1>3. IsList(s \o t)
  BY <1>2, SequencesAreLists
<1>4. Range(s \o t) = Range(s) \cup Range(t)
  BY <1>2 DEF ToSet, Range
<1> QED
  BY <1>1, <1>3, <1>4, Joined

LEMMA AppendLists ==
  ASSUME NEW s, NEW x, IsList(s)
  PROVE  /\ IsList(Append(s, x)) /\ Len(Append(s, x)) = Len(s) + 1
         /\ Append(s, x)[Len(s) + 1] = x
         /\ \A i \in 1 .. Len(s) : Append(s, x)[i] = s[i]
<1> DEFINE T == Range(s) \cup {x}
<1>1. s \in Seq(T) /\ x \in T
  BY DEF IsList
<1> HIDE DEF T
<1>2. Append(s, x) \in Seq(T)
  BY <1>1
<1>3. IsList(Append(s, x))
  BY <1>2, SequencesAreLists
<1> QED
  BY <1>1, <1>3

\* q is the end of s.
Ends(q, s) ==
    /\ IsList(q) /\ Len(q) <= Len(s)
    /\ \A i \in 1 .. Len(q) : q[i] = s[Len(s) - Len(q) + i]

LEMMA EndsAreParts ==
  ASSUME NEW q, NEW s, IsList(s), Ends(q, s)
  PROVE  Range(q) \subseteq Range(s)
<1>1. /\ Len(q) \in Nat /\ Len(s) \in Nat /\ DOMAIN s = 1 .. Len(s)
      /\ Len(q) <= Len(s)
      /\ \A i \in 1 .. Len(q) : q[i] = s[Len(s) - Len(q) + i]
      /\ \A x \in Range(q) : \E i \in 1 .. Len(q) : q[i] = x
  BY ListIs DEF Ends
<1>2. ASSUME NEW i \in 1 .. Len(q) PROVE q[i] \in Range(s)
  <2>1. Len(s) - Len(q) + i \in 1 .. Len(s)
    BY <1>1
  <2> QED
    BY <1>1, <2>1 DEF Range
<1> QED
  BY <1>1, <1>2

LEMMA EndOfEnd ==
  ASSUME NEW q, NEW r, NEW s, IsList(s), Ends(q, r), Ends(r, s)
  PROVE  Ends(q, s)
<1>1. Len(q) \in Nat /\ Len(r) \in Nat /\ Len(s) \in Nat /\ IsList(q)
  BY ListIs DEF Ends
<1>2. /\ Len(q) <= Len(r) /\ Len(r) <= Len(s)
      /\ \A i \in 1 .. Len(q) : q[i] = r[Len(r) - Len(q) + i]
      /\ \A i \in 1 .. Len(r) : r[i] = s[Len(s) - Len(r) + i]
  BY DEF Ends
<1>3. ASSUME NEW i \in 1 .. Len(q) PROVE q[i] = s[Len(s) - Len(q) + i]
  <2>1. Len(r) - Len(q) + i \in 1 .. Len(r)
    BY <1>1, <1>2
  <2>2. Len(s) - Len(r) + (Len(r) - Len(q) + i) = Len(s) - Len(q) + i
    BY <1>1
  <2>3. r[Len(r) - Len(q) + i] = s[Len(s) - Len(r) + (Len(r) - Len(q) + i)]
    BY <1>2, <2>1
  <2> QED
    BY <1>2, <2>2, <2>3
<1> QED
  BY <1>1, <1>2, <1>3 DEF Ends

LEMMA LastEnds ==
  ASSUME NEW s, NEW n \in Nat, IsList(s)
  PROVE  /\ Ends(LastOf(s, n), s)
         /\ Len(LastOf(s, n)) = IF Len(s) > n THEN n ELSE Len(s)
<1> DEFINE a == IF Len(s) > n THEN Len(s) - n + 1 ELSE 1
           q == LastOf(s, n)
<1>1. Len(s) \in Nat /\ a \in 1 .. Len(s) + 1 /\ s \in Seq(Range(s))
  BY ListIs DEF IsList
<1>2. q = SubSeq(s, a, Len(s))
  BY DEF LastOf
<1>3. Len(s) - a + 1 = IF Len(s) > n THEN n ELSE Len(s)
  BY <1>1
<1> HIDE DEF a, q
<1>4. q \in Seq(Range(s)) /\ Len(q) = Len(s) - a + 1 /\ \A i \in 1 .. Len(q) : q[i] = s[a + i - 1]
  BY <1>1, <1>2
<1>5. IsList(q)
  BY <1>4, SequencesAreLists
<1>6. \A i \in 1 .. Len(q) : Len(s) - Len(q) + i = a + i - 1
  BY <1>1, <1>4
<1>7. Len(q) <= Len(s)
  BY <1>1, <1>4
<1> QED
  BY <1>3, <1>4, <1>5, <1>6, <1>7 DEF Ends, q

\* The window over an end of two lists shows what the window over the first
\* list shows, or something of the second.
LEMMA WindowMoves ==
  ASSUME NEW q, NEW s, NEW t, NEW n \in Nat, IsList(s), IsList(t), Ends(q, s \o t)
  PROVE  Range(LastOf(q, n)) \subseteq Range(LastOf(s, n)) \cup Range(t)
<1> DEFINE w == LastOf(q, n)
           v == LastOf(s, n)
           st == s \o t
<1>1. /\ IsList(st) /\ Len(st) = Len(s) + Len(t)
      /\ \A i \in 1 .. Len(s) : st[i] = s[i]
      /\ \A i \in 1 .. Len(st) : i \notin 1 .. Len(s) =>
            i - Len(s) \in 1 .. Len(t) /\ st[i] = t[i - Len(s)]
  BY JoinLists
<1>2. IsList(q)
  BY DEF Ends
<1>3. Ends(w, q) /\ Len(w) <= n
  <2>1. Ends(w, q) /\ Len(w) = IF Len(q) > n THEN n ELSE Len(q)
    BY <1>2, LastEnds
  <2>2. Len(q) \in Nat
    BY <1>2, ListIs
  <2> QED
    BY <2>1, <2>2
<1>4. Ends(w, st)
  BY <1>1, <1>3, EndOfEnd
<1>5. Ends(v, s) /\ Len(v) = IF Len(s) > n THEN n ELSE Len(s)
  BY LastEnds
<1> HIDE DEF w, v, st
<1>6. IsList(w) /\ IsList(v) /\ Len(s) \in Nat /\ Len(t) \in Nat /\ Len(w) \in Nat /\ Len(v) \in Nat
  BY <1>4, <1>5, ListIs DEF Ends
<1>7. ASSUME NEW i \in 1 .. Len(w) PROVE w[i] \in Range(v) \cup Range(t)
  <2> DEFINE j == Len(st) - Len(w) + i
  <2>1. w[i] = st[j] /\ Len(w) <= Len(st)
    BY <1>4 DEF Ends
  <2>2. j \in 1 .. Len(st)
    BY <1>1, <1>6, <2>1
  <2>3. CASE j \in 1 .. Len(s)
    <3> DEFINE k == j - (Len(s) - Len(v))
    <3>1. k \in 1 .. Len(v) /\ Len(s) - Len(v) + k = j
      <4>1. j \in Int /\ j <= Len(s) /\ j >= Len(s) + Len(t) - n + 1
        BY <1>1, <1>3, <1>6, <2>3
      <4> HIDE DEF j
      <4>2. CASE Len(s) > n
        BY <1>5, <1>6, <4>1, <4>2
      <4>3. CASE ~(Len(s) > n)
        BY <1>5, <1>6, <2>3, <4>1, <4>3
      <4> QED
        BY <4>2, <4>3
    <3>2. v[k] = s[j]
      BY <1>5, <3>1 DEF Ends
    <3>3. v[k] \in Range(v)
      BY <1>6, <3>1, ListIs
    <3> QED
      BY <1>1, <2>1, <2>3, <3>2, <3>3
  <2>4. CASE j \notin 1 .. Len(s)
    <3>1. st[j] = t[j - Len(s)] /\ j - Len(s) \in 1 .. Len(t)
      BY <1>1, <2>2, <2>4
    <3>2. t[j - Len(s)] \in Range(t)
      BY <3>1, ListIs
    <3> QED
      BY <2>1, <3>1, <3>2
  <2> QED
    BY <2>3, <2>4
<1>8. \A x \in Range(w) : \E i \in 1 .. Len(w) : w[i] = x
  BY <1>6, ListIs
<1> QED
  BY <1>7, <1>8 DEF w, v

(***************************************************************************)
(* Lists in the order of time, and what retention leaves of them.          *)
(***************************************************************************)
InTime(s) ==
    /\ \A i \in DOMAIN s : s[i].id \in Int /\ s[i].tick \in Int
    /\ \A i, j \in DOMAIN s : i < j => s[i].id < s[j].id /\ s[i].tick <= s[j].tick

LEMMA EndsInTime ==
  ASSUME NEW q, NEW s, IsList(s), Ends(q, s), InTime(s)
  PROVE  InTime(q)
<1>1. /\ Len(q) \in Nat /\ Len(s) \in Nat /\ DOMAIN s = 1 .. Len(s) /\ DOMAIN q = 1 .. Len(q)
      /\ Len(q) <= Len(s)
      /\ \A i \in 1 .. Len(q) : q[i] = s[Len(s) - Len(q) + i]
  BY ListIs DEF Ends
<1>2. \A i \in 1 .. Len(q) : Len(s) - Len(q) + i \in 1 .. Len(s)
  BY <1>1
<1>3. \A i \in DOMAIN q : q[i].id \in Int /\ q[i].tick \in Int
  BY <1>1, <1>2 DEF InTime
<1>4. ASSUME NEW i \in 1 .. Len(q), NEW j \in 1 .. Len(q), i < j
      PROVE  q[i].id < q[j].id /\ q[i].tick <= q[j].tick
  <2>1. Len(s) - Len(q) + i < Len(s) - Len(q) + j
    BY <1>1, <1>4
  <2> QED
    BY <1>1, <1>2, <2>1 DEF InTime
<1> QED
  BY <1>1, <1>3, <1>4 DEF InTime

LEMMA JoinInTime ==
  ASSUME NEW s, NEW t, IsList(s), IsList(t), InTime(s), InTime(t),
         \A x \in Range(s), y \in Range(t) : x.id < y.id /\ x.tick <= y.tick
  PROVE  InTime(s \o t)
<1> DEFINE st == s \o t
<1>1. /\ IsList(st) /\ Len(st) = Len(s) + Len(t)
      /\ \A i \in 1 .. Len(s) : st[i] = s[i]
      /\ \A i \in 1 .. Len(st) : i \notin 1 .. Len(s) =>
            i - Len(s) \in 1 .. Len(t) /\ st[i] = t[i - Len(s)]
  BY JoinLists
<1> HIDE DEF st
<1>2. /\ Len(s) \in Nat /\ Len(t) \in Nat /\ DOMAIN st = 1 .. Len(st)
      /\ DOMAIN s = 1 .. Len(s) /\ DOMAIN t = 1 .. Len(t)
      /\ \A i \in 1 .. Len(s) : s[i] \in Range(s)
      /\ \A i \in 1 .. Len(t) : t[i] \in Range(t)
  BY <1>1, ListIs
<1>3. \A i \in DOMAIN st : st[i].id \in Int /\ st[i].tick \in Int
  BY <1>1, <1>2 DEF InTime
<1>4. ASSUME NEW i \in 1 .. Len(st), NEW j \in 1 .. Len(st), i < j
      PROVE  st[i].id < st[j].id /\ st[i].tick <= st[j].tick
  <2>1. CASE i \in 1 .. Len(s) /\ j \in 1 .. Len(s)
    BY <1>1, <1>2, <1>4, <2>1 DEF InTime
  <2>2. CASE i \in 1 .. Len(s) /\ j \notin 1 .. Len(s)
    <3>1. st[i] \in Range(s) /\ st[j] \in Range(t)
      BY <1>1, <1>2, <2>2
    <3> QED
      BY <3>1
  <2>3. CASE i \notin 1 .. Len(s)
    <3>1. j \notin 1 .. Len(s) /\ i - Len(s) < j - Len(s)
      BY <1>1, <1>2, <1>4, <2>3
    <3>2. /\ i - Len(s) \in 1 .. Len(t) /\ st[i] = t[i - Len(s)]
          /\ j - Len(s) \in 1 .. Len(t) /\ st[j] = t[j - Len(s)]
      BY <1>1, <2>3, <3>1
    <3> QED
      BY <1>2, <3>1, <3>2 DEF InTime
  <2> QED
    BY <2>1, <2>2, <2>3
<1> QED
  BY <1>2, <1>3, <1>4 DEF InTime, st

LEMMA PickedInTime ==
  ASSUME NEW s, IsList(s), NEW S \in SUBSET (1 .. Len(s))
  PROVE  /\ IsList(Picked(s, S))
         /\ Range(Picked(s, S)) = {s[i] : i \in S}
         /\ InTime(s) => InTime(Picked(s, S))
<1> DEFINE q == Picked(s, S)
           list == InOrder(S)
<1>1. /\ q \in Seq(Range(s)) /\ Len(q) \in Nat
      /\ \A k \in 1 .. Len(q) : q[k] = s[list[k]] /\ list[k] \in S
      /\ \A i, j \in 1 .. Len(q) : i < j => list[i] < list[j]
      /\ \A x \in S : \E k \in 1 .. Len(q) : list[k] = x
  BY PickedIs DEF IsList
<1> HIDE DEF q, list
<1>2. IsList(q) /\ DOMAIN q = 1 .. Len(q) /\ DOMAIN s = 1 .. Len(s)
  BY <1>1, SequencesAreLists, ListIs
<1>3. Range(q) = {s[i] : i \in S}
  <2>1. ASSUME NEW x \in S PROVE s[x] \in Range(q)
    <3>1. PICK k \in 1 .. Len(q) : list[k] = x
      BY <1>1
    <3>2. q[k] = s[x]
      BY <1>1, <3>1
    <3> QED
      BY <1>2, <3>1, <3>2 DEF Range
  <2>2. ASSUME NEW k \in 1 .. Len(q) PROVE q[k] \in {s[i] : i \in S}
    BY <1>1
  <2> QED
    BY <1>2, <2>1, <2>2 DEF Range
<1>4. ASSUME InTime(s) PROVE InTime(q)
  <2>1. \A i \in DOMAIN q : q[i].id \in Int /\ q[i].tick \in Int
    BY <1>1, <1>2, <1>4 DEF InTime
  <2>2. ASSUME NEW i \in 1 .. Len(q), NEW j \in 1 .. Len(q), i < j
        PROVE  q[i].id < q[j].id /\ q[i].tick <= q[j].tick
    <3>1. list[i] \in DOMAIN s /\ list[j] \in DOMAIN s /\ list[i] < list[j]
      BY <1>1, <1>2, <2>2
    <3> QED
      BY <1>1, <1>4, <3>1 DEF InTime
  <2> QED
    BY <1>2, <2>1, <2>2 DEF InTime
<1> QED
  BY <1>2, <1>3, <1>4 DEF q

\* What is as new as an operation is the end of a list in time.
LEMMA PruneEnds ==
  ASSUME NEW s, NEW first \in Int, IsList(s), InTime(s)
  PROVE  LET q == PruneByTick(s, first)
         IN  /\ Ends(q, s)
             /\ \A i \in 1 .. Len(s) : s[i].tick >= first <=> i > Len(s) - Len(q)
<1> DEFINE n == Len(s)
           P == {i \in DOMAIN s : s[i].tick >= first}
           a == IF P = {} THEN n + 1 ELSE CHOOSE o \in P : \A p \in P : o <= p
           q == PruneByTick(s, first)
<1>1. n \in Nat /\ DOMAIN s = 1 .. n /\ s \in Seq(Range(s))
  BY ListIs DEF IsList
<1>2. q = Picked(s, P)
  BY DEF PruneByTick
<1> HIDE DEF n, q
<1>3. P \in SUBSET (1 .. n)
  BY <1>1
<1>4. P # {} => a \in P /\ \A i \in P : a <= i
  <2> HIDE DEF P
  <2> QED
    BY <1>1, <1>3, LeastIs
<1>5. \A i, j \in 1 .. n : i \in P /\ i < j => j \in P
  <2>1. ASSUME NEW i \in 1 .. n, NEW j \in 1 .. n, i \in P, i < j PROVE j \in P
    <3>1. s[i].tick <= s[j].tick /\ s[i].tick \in Int /\ s[j].tick \in Int /\ s[i].tick >= first
      BY <1>1, <2>1 DEF InTime
    <3> QED
      BY <1>1, <3>1
  <2> QED
    BY <2>1
<1>7. a \in 1 .. n + 1 /\ P = a .. n
  <2>1. CASE P = {}
    <3>1. a = n + 1
      BY <2>1
    <3> HIDE DEF a, P
    <3> QED
      BY <1>1, <2>1, <3>1
  <2>2. CASE P # {}
    <3> HIDE DEF a, P
    <3>1. a \in 1 .. n
      BY <1>3, <1>4, <2>2
    <3>2. \A i \in 1 .. n : i \in P <=> i >= a
      <4>1. ASSUME NEW i \in 1 .. n, i >= a PROVE i \in P
        <5>1. CASE i = a
          BY <1>4, <2>2, <5>1
        <5>2. CASE i # a
          <6>1. a < i
            BY <3>1, <4>1, <5>2
          <6> QED
            BY <1>4, <1>5, <2>2, <3>1, <6>1
        <5> QED
          BY <5>1, <5>2
      <4> QED
        BY <1>4, <2>2, <4>1
    <3>3. \A i : i \in P => i \in 1 .. n
      BY <1>3
    <3>4. \A i : i \in a .. n <=> i \in 1 .. n /\ i >= a
      BY <1>1, <3>1
    <3>5. P = a .. n
      BY <3>2, <3>3, <3>4
    <3> QED
      BY <1>1, <3>1, <3>5
  <2> QED
    BY <2>1, <2>2
<1>8. q = SubSeq(s, a, n)
  <2> HIDE DEF P, a
  <2> QED
    BY <1>1, <1>2, <1>7, EndPicked DEF n
<1>9. \A i \in 1 .. n : s[i].tick >= first <=> i >= a
  <2>1. \A i \in 1 .. n : s[i].tick >= first <=> i \in P
    BY <1>1
  <2> HIDE DEF P, a
  <2> QED
    BY <1>7, <2>1
<1> HIDE DEF P, a
<1>10. q \in Seq(Range(s)) /\ Len(q) = n - a + 1 /\ \A i \in 1 .. Len(q) : q[i] = s[a + i - 1]
  BY <1>1, <1>7, <1>8
<1>11. IsList(q)
  BY <1>10, SequencesAreLists
<1>12. /\ Len(q) <= n
       /\ \A i \in 1 .. Len(q) : n - Len(q) + i = a + i - 1
       /\ \A i \in 1 .. n : i >= a <=> i > n - Len(q)
  BY <1>1, <1>7, <1>10
<1> QED
  BY <1>9, <1>10, <1>11, <1>12 DEF Ends, n, q

(***************************************************************************)
(* The memory: its lists are views of the log.                             *)
(***************************************************************************)
Ordered == SideLists \ {"windows"}

Of(ops, l) == {i \in DOMAIN ops : ListOf(ops[i]) = l}

\* An operation with an id below next, of tick or before.
Known(op, next, tick) ==
    /\ op.marker \in Markers /\ "from" \notin DOMAIN op
    /\ op.id \in Int /\ op.id < next /\ op.tick \in Int /\ op.tick <= tick

\* The log: every operation is of a known kind, and they come in order.
LogInv(m, next, tick) ==
    /\ DOMAIN m = {"events", "lists", "tone"} /\ DOMAIN m.lists = SideLists
    /\ IsList(m.events) /\ InTime(m.events)
    /\ \A e \in Range(m.events) : Known(e, next, tick)

\* The lists: entries of their own kind only, in order, and no more than the cap.
ListInv(m, next, tick) ==
    /\ \A l \in Ordered :
        /\ IsList(m.lists[l]) /\ InTime(m.lists[l]) /\ Len(m.lists[l]) <= MaxEntries[l]
        /\ \A x \in Range(m.lists[l]) : Known(x, next, tick) /\ ListOf(x) = l
    /\ IsList(m.lists["windows"])
    /\ \A w \in Range(m.lists["windows"]) : w.tick \in Int /\ w.tick <= tick

\* What a list has of the log, and what it may have besides.
ViewInv(m) ==
    /\ m.events = <<>> => \A l \in SideLists : m.lists[l] = <<>>
    /\ m.events # <<>> =>
        /\ \A l \in SideLists : \A x \in Range(m.lists[l]) : x.tick >= m.events[1].tick
        /\ \A l \in Ordered : \A x \in Range(m.lists[l]) :
            /\ x.id >= m.events[1].id => x \in Range(m.events)
            /\ x.id < m.events[1].id => x.tick <= m.events[1].tick
    /\ \A e \in Range(m.events) :
        \/ e \in Range(m.lists[ListOf(e)])
        \/ /\ Len(m.lists[ListOf(e)]) = MaxEntries[ListOf(e)]
           /\ \A x \in Range(m.lists[ListOf(e)]) : x.id > e.id

MemoryInv(m, next, tick) == LogInv(m, next, tick) /\ ListInv(m, next, tick) /\ ViewInv(m)

NewOps(ops, next, tick) ==
    /\ IsList(ops) /\ InTime(ops) /\ ops # <<>>
    /\ \A op \in Range(ops) :
        op.id >= next /\ op.tick = tick /\ Known(op, next + Len(ops), tick)

LEMMA ListsAreNamed ==
  /\ \A op : op.marker \in Markers => ListOf(op) \in Ordered
  /\ \A k \in Markers \ FrameMarkers : k \in Ordered /\ k \in SideLists
  /\ \A op : op.marker \in Markers \ FrameMarkers => ListOf(op) = op.marker
  /\ \A op : op.marker \in Markers /\ ListOf(op) \in Markers \ FrameMarkers => op.marker = ListOf(op)
  /\ "windows" \in SideLists /\ Ordered \subseteq SideLists
  BY DEF ListOf, Ordered, SideLists, Markers, FrameMarkers, FrameLists

LEMMA AppliedIs ==
  ASSUME NEW m, NEW ops, ops # <<>>
  PROVE  LET m2 == ApplyPending(m, ops)
             first == Head(m2.events).tick
             tones == {i \in DOMAIN ops : ops[i].marker = ToneMarker}
         IN  /\ DOMAIN m2 = {"events", "lists", "tone"} /\ DOMAIN m2.lists = SideLists
             /\ m2.events = LastOf(m.events \o ops, MaxEvents)
             /\ \A l \in SideLists :
                  m2.lists[l] = LastOf(PruneByTick(m.lists[l] \o Picked(ops, Of(ops, l)), first),
                                       MaxEntries[l])
             /\ m2.tone = IF tones = {} THEN m.tone ELSE ops[Max(tones)].tone
<1> DEFINE k == AddEvents(m, ops)
           r == ApplyRetention(k)
           first == Head(r.events).tick
           m2 == ApplySideListRetention(r, first)
<1>1. /\ DOMAIN k = {"events", "lists", "tone"}
      /\ k.events = m.events \o ops
      /\ k.lists = [l \in SideLists |-> m.lists[l] \o Picked(ops, Of(ops, l))]
  BY DEF AddEvents, Of
<1>2. k.tone = IF {i \in DOMAIN ops : ops[i].marker = ToneMarker} = {} THEN m.tone
               ELSE ops[Max({i \in DOMAIN ops : ops[i].marker = ToneMarker})].tone
  BY DEF AddEvents
<1> HIDE DEF k
<1>3. /\ DOMAIN r = {"events", "lists", "tone"} /\ r.lists = k.lists /\ r.tone = k.tone
      /\ r.events = LastOf(k.events, MaxEvents)
  BY <1>1 DEF ApplyRetention
<1> HIDE DEF r
<1>4. /\ DOMAIN m2 = {"events", "lists", "tone"}
      /\ m2.lists = [l \in SideLists |-> LastOf(PruneByTick(r.lists[l], first), MaxEntries[l])]
      /\ m2.tone = r.tone /\ m2.events = r.events
  BY <1>3 DEF ApplySideListRetention
<1>5. ApplyPending(m, ops) = m2
  BY DEF ApplyPending, r, k
<1> HIDE DEF m2
<1>6. \A l \in SideLists : r.lists[l] = m.lists[l] \o Picked(ops, Of(ops, l))
  BY <1>1, <1>3
<1>7. first = Head(m2.events).tick
  BY <1>4
<1> HIDE DEF first
<1>8. /\ DOMAIN m2.lists = SideLists
      /\ \A l \in SideLists :
            m2.lists[l] = LastOf(PruneByTick(m.lists[l] \o Picked(ops, Of(ops, l)), first),
                                 MaxEntries[l])
  BY <1>4, <1>6
<1> QED
  BY <1>1, <1>2, <1>3, <1>4, <1>5, <1>7, <1>8

\* q is what retention leaves of a list: its end, with all that is as new as the
\* tick first, up to a cap.
Kept(q, both, first, cap) ==
    /\ Ends(q, both) /\ InTime(q) /\ Len(q) <= cap
    /\ \A x \in Range(q) : x.tick >= first
    /\ \A i \in 1 .. Len(both) :
         both[i].tick >= first => i > Len(both) - Len(q) \/ Len(q) = cap

LEMMA KeptIs ==
  ASSUME NEW both, NEW first \in Int, NEW cap \in Nat \ {0}, IsList(both), InTime(both)
  PROVE  Kept(LastOf(PruneByTick(both, first), cap), both, first, cap)
<1> DEFINE r == PruneByTick(both, first)
           q == LastOf(r, cap)
<1>1. /\ Ends(r, both)
      /\ \A i \in 1 .. Len(both) : both[i].tick >= first <=> i > Len(both) - Len(r)
  BY PruneEnds
<1> HIDE DEF r
<1>2. IsList(r)
  BY <1>1 DEF Ends
<1>3. Ends(q, r) /\ Len(q) = IF Len(r) > cap THEN cap ELSE Len(r)
  BY <1>2, LastEnds
<1> HIDE DEF q
<1>4. Ends(q, both)
  BY <1>1, <1>3, EndOfEnd
<1>5. IsList(q) /\ Len(q) \in Nat /\ Len(r) \in Nat /\ Len(both) \in Nat
      /\ Len(q) <= Len(r) /\ Len(r) <= Len(both)
  BY <1>1, <1>2, <1>3, ListIs DEF Ends
<1>6. InTime(q)
  BY <1>4, EndsInTime
<1>7. ASSUME NEW i \in 1 .. Len(q) PROVE q[i].tick >= first
  <2>1. q[i] = both[Len(both) - Len(q) + i]
    BY <1>4 DEF Ends
  <2>2. Len(both) - Len(q) + i \in 1 .. Len(both) /\ Len(both) - Len(q) + i > Len(both) - Len(r)
    BY <1>5
  <2> QED
    BY <1>1, <2>1, <2>2
<1>8. \A x \in Range(q) : \E i \in 1 .. Len(q) : q[i] = x
  BY <1>5, ListIs
<1>9. Len(q) <= cap /\ (Len(q) = Len(r) \/ Len(q) = cap)
  BY <1>3, <1>5
<1>10. \A i \in 1 .. Len(both) : both[i].tick >= first => i > Len(both) - Len(q) \/ Len(q) = cap
  BY <1>1, <1>5, <1>9
<1> QED
  BY <1>4, <1>6, <1>7, <1>8, <1>9, <1>10 DEF q, r, Kept

\* A list with the new operations that go to it.
LEMMA BothIs ==
  ASSUME NEW m, NEW next \in Int, NEW tick \in Int, NEW ops,
         MemoryInv(m, next, tick), NewOps(ops, next, tick), NEW l \in Ordered
  PROVE  LET added == Picked(ops, Of(ops, l))
             both == m.lists[l] \o added
         IN  /\ IsList(added) /\ IsList(both) /\ InTime(both)
             /\ Range(added) = {op \in Range(ops) : ListOf(op) = l}
             /\ Range(both) = Range(m.lists[l]) \cup Range(added)
             /\ \A x \in Range(both) : Known(x, next + Len(ops), tick) /\ ListOf(x) = l
<1> DEFINE s == m.lists[l]
           added == Picked(ops, Of(ops, l))
<1>1. /\ IsList(s) /\ InTime(s)
      /\ \A x \in Range(s) : Known(x, next, tick) /\ ListOf(x) = l
  BY DEF MemoryInv, ListInv
<1>2. /\ IsList(ops) /\ InTime(ops) /\ Len(ops) \in Nat /\ DOMAIN ops = 1 .. Len(ops)
      /\ \A op \in Range(ops) : op.id >= next /\ op.tick = tick /\ Known(op, next + Len(ops), tick)
  BY ListIs DEF NewOps
<1>3. IsList(added) /\ InTime(added) /\ Range(added) = {ops[i] : i \in Of(ops, l)}
  <2>1. Of(ops, l) \in SUBSET (1 .. Len(ops))
    BY <1>2 DEF Of
  <2> QED
    BY <1>2, <2>1, PickedInTime
<1> HIDE DEF added, s
<1>4. Range(added) = {op \in Range(ops) : ListOf(op) = l}
  BY <1>2, <1>3 DEF Range, Of
<1>5. \A x \in Range(s), y \in Range(added) : x.id < y.id /\ x.tick <= y.tick
  <2>1. ASSUME NEW x \in Range(s), NEW y \in Range(added) PROVE x.id < y.id /\ x.tick <= y.tick
    <3>1. x.id \in Int /\ x.id < next /\ x.tick <= tick
      BY <1>1 DEF Known
    <3>2. y.id \in Int /\ y.id >= next /\ y.tick = tick
      BY <1>2, <1>4 DEF Known
    <3> QED
      BY <3>1, <3>2
  <2> QED
    BY <2>1
<1>6. InTime(s \o added)
  BY <1>1, <1>3, <1>5, JoinInTime
<1>7. IsList(s \o added) /\ Range(s \o added) = Range(s) \cup Range(added)
  BY <1>1, <1>3, JoinLists
<1>8. ASSUME NEW x \in Range(s) \cup Range(added) PROVE Known(x, next + Len(ops), tick) /\ ListOf(x) = l
  <2>1. CASE x \in Range(added)
    BY <1>2, <1>4, <2>1
  <2>2. CASE x \in Range(s)
    <3>1. Known(x, next, tick) /\ ListOf(x) = l
      BY <1>1, <2>2
    <3> QED
      BY <1>2, <3>1 DEF Known
  <2> QED
    BY <2>1, <2>2
<1> QED
  BY <1>3, <1>4, <1>6, <1>7, <1>8 DEF added, s

\* In a list in time ids tell entries apart and order their ticks.
LEMMA TimeIs ==
  ASSUME NEW s, IsList(s), InTime(s), NEW x \in Range(s), NEW y \in Range(s)
  PROVE  /\ x.id \in Int /\ y.id \in Int /\ x.tick \in Int /\ y.tick \in Int
         /\ x.id = y.id => x = y
         /\ x.id <= y.id => x.tick <= y.tick
         /\ s[1] \in Range(s) /\ s[1].id <= x.id
<1>1. Len(s) \in Nat /\ DOMAIN s = 1 .. Len(s)
  BY ListIs
<1>2. PICK i \in 1 .. Len(s), j \in 1 .. Len(s) : x = s[i] /\ y = s[j]
  BY <1>1 DEF Range
<1>3. x.id \in Int /\ y.id \in Int /\ x.tick \in Int /\ y.tick \in Int
  BY <1>1, <1>2 DEF InTime
<1>4. /\ i < j => s[i].id < s[j].id /\ s[i].tick <= s[j].tick
      /\ j < i => s[j].id < s[i].id
      /\ 1 < i => s[1].id < s[i].id
      /\ s[1] \in Range(s) /\ s[1].id \in Int
  BY <1>1, SMTT(30) DEF InTime, Range
<1>5. CASE i = j
  BY <1>1, <1>2, <1>3, <1>4, <1>5
<1>6. CASE i < j
  BY <1>1, <1>2, <1>3, <1>4, <1>6
<1>7. CASE j < i
  BY <1>1, <1>2, <1>3, <1>4, <1>7
<1> QED
  BY <1>5, <1>6, <1>7

\* What a list in time has besides its end is older than the end.
LEMMA EndIsNewer ==
  ASSUME NEW q, NEW s, IsList(s), InTime(s), Ends(q, s), NEW x \in Range(s), x \notin Range(q)
  PROVE  \A y \in Range(q) : x.id < y.id
<1>1. /\ Len(s) \in Nat /\ DOMAIN s = 1 .. Len(s) /\ Len(q) \in Nat /\ DOMAIN q = 1 .. Len(q)
      /\ Len(q) <= Len(s)
      /\ \A i \in 1 .. Len(q) : q[i] = s[Len(s) - Len(q) + i]
  BY ListIs DEF Ends
<1>2. PICK i \in 1 .. Len(s) : x = s[i]
  BY <1>1 DEF Range
<1>3. i <= Len(s) - Len(q)
  <2> SUFFICES ASSUME i > Len(s) - Len(q) PROVE FALSE
    BY <1>1
  <2>1. i - (Len(s) - Len(q)) \in 1 .. Len(q) /\ Len(s) - Len(q) + (i - (Len(s) - Len(q))) = i
    BY <1>1
  <2>2. q[i - (Len(s) - Len(q))] = x
    BY <1>1, <1>2, <2>1
  <2> QED
    BY <1>1, <2>1, <2>2 DEF Range
<1>4. ASSUME NEW j \in 1 .. Len(q) PROVE x.id < q[j].id
  <2>1. Len(s) - Len(q) + j \in 1 .. Len(s) /\ i < Len(s) - Len(q) + j
    BY <1>1, <1>3
  <2> QED
    BY <1>1, <1>2, <2>1 DEF InTime
<1> QED
  BY <1>1, <1>4 DEF Range

\* The log after the operations are applied.
LEMMA LogApplied ==
  ASSUME LogAssumption, NEW m, NEW next \in Int, NEW tick \in Int, NEW ops,
         MemoryInv(m, next, tick), NewOps(ops, next, tick)
  PROVE  LET m2 == ApplyPending(m, ops)
             all == m.events \o ops
         IN  /\ IsList(all) /\ InTime(all) /\ Range(all) = Range(m.events) \cup Range(ops)
             /\ Ends(m2.events, all) /\ m2.events # <<>> /\ InTime(m2.events)
             /\ Head(m2.events) = m2.events[1] /\ m2.events[1] \in Range(m2.events)
             /\ m.events # <<>> => m.events[1] = all[1]
             /\ LogInv(m2, next + Len(ops), tick)
<1> DEFINE m2 == ApplyPending(m, ops)
           all == m.events \o ops
<1>1. /\ IsList(m.events) /\ InTime(m.events) /\ Len(m.events) \in Nat
      /\ \A e \in Range(m.events) : Known(e, next, tick)
  BY ListIs DEF MemoryInv, LogInv
<1>2. /\ IsList(ops) /\ InTime(ops) /\ ops # <<>> /\ Len(ops) \in Nat /\ Len(ops) # 0
      /\ \A op \in Range(ops) : op.id >= next /\ op.tick = tick /\ Known(op, next + Len(ops), tick)
  BY ListIs DEF NewOps
<1>3. \A x \in Range(m.events), y \in Range(ops) : x.id < y.id /\ x.tick <= y.tick
  <2>1. ASSUME NEW x \in Range(m.events), NEW y \in Range(ops) PROVE x.id < y.id /\ x.tick <= y.tick
    <3>1. x.id \in Int /\ x.id < next /\ x.tick <= tick
      BY <1>1 DEF Known
    <3>2. y.id \in Int /\ y.id >= next /\ y.tick = tick
      BY <1>2 DEF Known
    <3> QED
      BY <3>1, <3>2
  <2> QED
    BY <2>1
<1>4. /\ IsList(all) /\ Len(all) = Len(m.events) + Len(ops)
      /\ Range(all) = Range(m.events) \cup Range(ops)
      /\ \A i \in 1 .. Len(m.events) : all[i] = m.events[i]
  BY <1>1, <1>2, JoinLists
<1>5. InTime(all)
  BY <1>1, <1>2, <1>3, JoinInTime
<1>6. m2.events = LastOf(all, MaxEvents) /\ DOMAIN m2 = {"events", "lists", "tone"} /\ DOMAIN m2.lists = SideLists
  BY <1>2, AppliedIs
<1> HIDE DEF all, m2
<1>7. MaxEvents \in Nat /\ MaxEvents > 0
  BY DEF LogAssumption
<1>8. Ends(m2.events, all) /\ Len(m2.events) = IF Len(all) > MaxEvents THEN MaxEvents ELSE Len(all)
  BY <1>4, <1>6, <1>7, LastEnds
<1>9. IsList(m2.events) /\ Len(m2.events) \in Nat /\ Len(m2.events) # 0
  BY <1>1, <1>2, <1>4, <1>7, <1>8, ListIs DEF Ends
<1>10. m2.events # <<>> /\ Head(m2.events) = m2.events[1] /\ m2.events[1] \in Range(m2.events)
  <2>1. m2.events # <<>> /\ 1 \in 1 .. Len(m2.events)
    BY <1>9, ListIs
  <2>2. m2.events[1] \in Range(m2.events)
    BY <1>9, <2>1, ListIs
  <2>3. Head(m2.events) = m2.events[1]
    BY <1>9, <2>1 DEF IsList
  <2> QED
    BY <2>1, <2>2, <2>3
<1>11. InTime(m2.events)
  BY <1>4, <1>5, <1>8, EndsInTime
<1>12. m.events # <<>> => m.events[1] = all[1]
  <2>1. m.events # <<>> => 1 \in 1 .. Len(m.events)
    BY <1>1, ListIs
  <2> QED
    BY <1>4, <2>1
<1>13. ASSUME NEW e \in Range(m2.events) PROVE Known(e, next + Len(ops), tick)
  <2>1. e \in Range(m.events) \/ e \in Range(ops)
    BY <1>4, <1>8, EndsAreParts
  <2>2. CASE e \in Range(m.events)
    <3>1. Known(e, next, tick)
      BY <1>1, <2>2
    <3> QED
      BY <1>2, <3>1 DEF Known
  <2>3. CASE e \in Range(ops)
    BY <1>2, <2>3
  <2> QED
    BY <2>1, <2>2, <2>3
<1>14. LogInv(m2, next + Len(ops), tick)
  BY <1>6, <1>9, <1>11, <1>13 DEF LogInv
<1> QED
  BY <1>4, <1>5, <1>8, <1>10, <1>11, <1>12, <1>14 DEF all, m2

\* A side list after the operations are applied.
LEMMA ListApplied ==
  ASSUME LogAssumption, NEW m, NEW next \in Int, NEW tick \in Int, NEW ops,
         MemoryInv(m, next, tick), NewOps(ops, next, tick), NEW l \in Ordered
  PROVE  LET q == ApplyPending(m, ops).lists[l]
             both == m.lists[l] \o Picked(ops, Of(ops, l))
             first == ApplyPending(m, ops).events[1].tick
         IN  first \in Int /\ Kept(q, both, first, MaxEntries[l])
<1> DEFINE m2 == ApplyPending(m, ops)
           both == m.lists[l] \o Picked(ops, Of(ops, l))
           first == m2.events[1].tick
<1>1. m2.lists[l] = LastOf(PruneByTick(both, Head(m2.events).tick), MaxEntries[l])
  <2>1. ops # <<>> /\ l \in SideLists
    BY ListsAreNamed DEF NewOps
  <2>2. \A k \in SideLists :
          m2.lists[k] = LastOf(PruneByTick(m.lists[k] \o Picked(ops, Of(ops, k)), Head(m2.events).tick),
                               MaxEntries[k])
    BY <2>1, AppliedIs, ZenonT(60)
  <2> QED
    BY <2>1, <2>2
<1>2. /\ Head(m2.events) = m2.events[1] /\ m2.events[1] \in Range(m2.events)
      /\ IsList(m2.events) /\ InTime(m2.events)
  BY LogApplied DEF LogInv
<1>3. IsList(both) /\ InTime(both)
  BY BothIs
<1> HIDE DEF m2, both
<1>4. first \in Int
  BY <1>2, TimeIs
<1>5. MaxEntries[l] \in Nat \ {0}
  BY ListsAreNamed DEF LogAssumption
<1> HIDE DEF first
<1>6. m2.lists[l] = LastOf(PruneByTick(both, first), MaxEntries[l])
  BY <1>1, <1>2 DEF first
<1> QED
  BY <1>3, <1>4, <1>5, <1>6, KeptIs DEF m2, both, first

LEMMA WindowsApplied ==
  ASSUME LogAssumption, NEW m, NEW next \in Int, NEW tick \in Int, NEW ops,
         MemoryInv(m, next, tick), NewOps(ops, next, tick)
  PROVE  LET w == ApplyPending(m, ops).lists["windows"]
         IN  /\ IsList(w) /\ Range(w) \subseteq Range(m.lists["windows"])
             /\ \A x \in Range(w) : x.tick >= ApplyPending(m, ops).events[1].tick
<1> DEFINE m2 == ApplyPending(m, ops)
           old == m.lists["windows"]
           both == old \o Picked(ops, Of(ops, "windows"))
           first == Head(m2.events).tick
           kept == PruneByTick(both, first)
<1>1. m2.lists["windows"] = LastOf(kept, MaxEntries["windows"])
  <2>1. ops # <<>> /\ "windows" \in SideLists
    BY ListsAreNamed DEF NewOps
  <2>2. \A k \in SideLists :
          m2.lists[k] = LastOf(PruneByTick(m.lists[k] \o Picked(ops, Of(ops, k)), Head(m2.events).tick),
                               MaxEntries[k])
    BY <2>1, AppliedIs, ZenonT(60)
  <2> QED
    BY <2>1, <2>2
<1>2. IsList(old) /\ Len(old) \in Nat
  BY ListIs DEF MemoryInv, ListInv
<1>3. IsList(Picked(ops, Of(ops, "windows"))) /\ Range(Picked(ops, Of(ops, "windows"))) = {}
  <2>1. \A i \in DOMAIN ops : ops[i].marker \in Markers
    BY DEF NewOps, Known, Range
  <2>2. Of(ops, "windows") = {}
    BY <2>1, ListsAreNamed DEF Of, Ordered
  <2>3. {} \in SUBSET (1 .. Len(ops)) /\ IsList(ops)
    BY DEF NewOps
  <2> QED
    BY <2>2, <2>3, PickedInTime
<1>4. IsList(both) /\ Range(both) = Range(old)
  <2> DEFINE added == Picked(ops, Of(ops, "windows"))
  <2>1. IsList(added) /\ Range(added) = {}
    BY <1>3
  <2> HIDE DEF added, old
  <2>2. IsList(old \o added) /\ Range(old \o added) = Range(old) \cup Range(added)
    BY <1>2, <2>1, JoinLists
  <2> QED
    BY <2>1, <2>2 DEF added
<1> HIDE DEF both, old, m2
<1> DEFINE S == {i \in DOMAIN both : both[i].tick >= first}
<1>5. kept = Picked(both, S) /\ S \in SUBSET (1 .. Len(both)) /\ DOMAIN both = 1 .. Len(both)
  BY <1>4, ListIs DEF PruneByTick
<1>6. IsList(kept) /\ Range(kept) = {both[i] : i \in S}
  <2> HIDE DEF kept, S
  <2> QED
    BY <1>4, <1>5, PickedInTime
<1>7. \A x \in Range(kept) : x \in Range(both) /\ x.tick >= first
  <2> HIDE DEF kept
  <2> QED
    BY <1>6 DEF Range
<1> HIDE DEF kept, first
<1>8. MaxEntries["windows"] \in Nat
  BY ListsAreNamed DEF LogAssumption
<1>9. Ends(m2.lists["windows"], kept)
  BY <1>1, <1>6, <1>8, LastEnds
<1>10. IsList(m2.lists["windows"]) /\ Range(m2.lists["windows"]) \subseteq Range(kept)
  BY <1>6, <1>9, EndsAreParts DEF Ends
<1>11. first = m2.events[1].tick
  BY LogApplied DEF first, m2
<1> QED
  BY <1>4, <1>7, <1>10, <1>11 DEF m2, old

LEMMA ViewApplied ==
  ASSUME LogAssumption, NEW m, NEW next \in Int, NEW tick \in Int, NEW ops,
         MemoryInv(m, next, tick), NewOps(ops, next, tick)
  PROVE  ViewInv(ApplyPending(m, ops))
<1> DEFINE m2 == ApplyPending(m, ops)
           all == m.events \o ops
           f2 == m2.events[1]
           f == m.events[1]
           both(l) == m.lists[l] \o Picked(ops, Of(ops, l))
<1>1. /\ IsList(all) /\ InTime(all) /\ Range(all) = Range(m.events) \cup Range(ops)
      /\ Ends(m2.events, all) /\ m2.events # <<>> /\ InTime(m2.events)
      /\ f2 \in Range(m2.events)
      /\ m.events # <<>> => f = all[1]
  BY LogApplied
<1>2. IsList(m2.events) /\ Range(m2.events) \subseteq Range(all)
  BY <1>1, EndsAreParts DEF Ends
<1>3. ASSUME NEW l \in Ordered
      PROVE  /\ IsList(both(l)) /\ InTime(both(l))
             /\ Range(both(l)) = Range(m.lists[l]) \cup {op \in Range(ops) : ListOf(op) = l}
  BY BothIs
<1>4. ASSUME NEW l \in Ordered
      PROVE  f2.tick \in Int /\ Kept(m2.lists[l], both(l), f2.tick, MaxEntries[l])
  BY ListApplied
<1>5. \A x \in Range(m2.lists["windows"]) : x.tick >= f2.tick
  BY WindowsApplied
<1> HIDE DEF m2, all, both, f2, f
<1>6. ASSUME NEW l \in Ordered, NEW x \in Range(both(l)), ~(x \in Range(all))
      PROVE  m.events # <<>> /\ x.id \in Int /\ x.id < f.id /\ x.tick <= f.tick
  <2>1. x \in Range(m.lists[l])
    BY <1>1, <1>3, <1>6
  <2>2. m.lists[l] # <<>>
    BY <2>1 DEF Range
  <2>3. m.events # <<>> /\ (x.id >= f.id => x \in Range(m.events)) /\ (x.id < f.id => x.tick <= f.tick)
    BY <2>1, <2>2, ListsAreNamed DEF MemoryInv, ViewInv, f
  <2>4. ~(x.id >= f.id)
    BY <1>1, <1>6, <2>3
  <2>5. f \in Range(all)
    <3>1. all # <<>>
      BY <1>1, <1>2, NoList
    <3>2. 1 \in 1 .. Len(all)
      BY <1>1, <3>1, ListIs
    <3> QED
      BY <1>1, <2>3, <3>2, ListIs
  <2>6. f.id \in Int /\ x.id \in Int
    <3>1. x.id \in Int
      BY <2>1 DEF MemoryInv, ListInv, Known
    <3> QED
      BY <1>1, <2>5, <3>1, TimeIs
  <2> QED
    BY <2>3, <2>4, <2>6
<1>7. ASSUME NEW l \in Ordered, NEW x \in Range(m2.lists[l])
      PROVE  /\ x.id >= f2.id => x \in Range(m2.events)
             /\ x.id < f2.id => x.tick <= f2.tick
  <2>1. x \in Range(both(l))
    BY <1>3, <1>4, <1>7, EndsAreParts DEF Kept
  <2>2. f2 \in Range(all) /\ f2.id \in Int /\ f2.tick \in Int
    <3>1. f2 \in Range(all)
      BY <1>1, <1>2
    <3> QED
      BY <1>1, <3>1, TimeIs
  <2>3. CASE x \in Range(all)
    <3>1. x.id \in Int /\ (x.id <= f2.id => x.tick <= f2.tick)
      BY <1>1, <2>2, <2>3, TimeIs
    <3>2. ASSUME x.id >= f2.id PROVE x \in Range(m2.events)
      <4> SUFFICES ASSUME x \notin Range(m2.events) PROVE FALSE
        OBVIOUS
      <4>1. x.id < f2.id
        BY <1>1, <2>3, EndIsNewer
      <4> QED
        BY <2>2, <3>1, <3>2, <4>1
    <3> QED
      BY <2>2, <3>1, <3>2
  <2>4. CASE ~(x \in Range(all))
    <3>1. m.events # <<>> /\ x.id \in Int /\ x.id < f.id /\ x.tick <= f.tick
      BY <1>6, <2>1, <2>4
    <3>2. f = all[1]
      BY <1>1, <3>1
    <3>3. f \in Range(all) /\ f.id <= f2.id /\ f.id \in Int
      BY <1>1, <2>2, <3>2, TimeIs
    <3>4. f.tick <= f2.tick /\ f.tick \in Int
      BY <1>1, <2>2, <3>3, TimeIs
    <3>5. x.tick \in Int
      <4>1. x.tick \in Int
        BY <1>3, <2>1, TimeIs
      <4> QED
        BY <4>1
    <3> QED
      BY <2>2, <3>1, <3>3, <3>4, <3>5
  <2> QED
    BY <2>3, <2>4
<1>8. ASSUME NEW e \in Range(m2.events)
      PROVE  LET l == ListOf(e)
             IN  \/ e \in Range(m2.lists[l])
                 \/ /\ Len(m2.lists[l]) = MaxEntries[l]
                    /\ \A x \in Range(m2.lists[l]) : x.id > e.id
  <2> DEFINE l == ListOf(e)
             q == m2.lists[l]
  <2>1. /\ e \in Range(all) /\ e.id \in Int /\ e.tick \in Int /\ e.tick >= f2.tick
        /\ f2.id \in Int /\ f2.id <= e.id
    <3>1. e.id \in Int /\ e.tick \in Int /\ f2.tick \in Int /\ f2.id \in Int /\ f2.id <= e.id
      BY <1>1, <1>2, TimeIs DEF f2
    <3>2. f2.tick <= e.tick
      BY <1>1, <1>2, <3>1, TimeIs
    <3> QED
      BY <1>2, <3>1, <3>2
  <2>2. l \in Ordered
    <3>1. e.marker \in Markers
      BY LogApplied DEF LogInv, Known, m2
    <3> QED
      BY <3>1, ListsAreNamed
  <2> HIDE DEF l
  <2>3. /\ IsList(both(l)) /\ InTime(both(l)) /\ Len(both(l)) \in Nat /\ DOMAIN both(l) = 1 .. Len(both(l))
        /\ Range(both(l)) = Range(m.lists[l]) \cup {op \in Range(ops) : ListOf(op) = l}
    BY <1>3, <2>2, ListIs
  <2>4. /\ f2.tick \in Int /\ Ends(q, both(l)) /\ Len(q) <= MaxEntries[l]
        /\ \A i \in 1 .. Len(both(l)) : both(l)[i].tick >= f2.tick =>
              i > Len(both(l)) - Len(q) \/ Len(q) = MaxEntries[l]
    BY <1>4, <2>2 DEF Kept
  <2> HIDE DEF q
  <2>5. /\ IsList(q) /\ Len(q) \in Nat /\ Len(q) <= Len(both(l)) /\ MaxEntries[l] \in Nat \ {0}
        /\ \A i \in 1 .. Len(q) : q[i] = both(l)[Len(both(l)) - Len(q) + i] /\ q[i] \in Range(q)
    BY <2>2, <2>4, ListsAreNamed, ListIs DEF Ends, LogAssumption
  <2>6. CASE e \in Range(both(l))
    <3> SUFFICES ASSUME e \notin Range(q)
                 PROVE  Len(q) = MaxEntries[l] /\ \A x \in Range(q) : x.id > e.id
      BY DEF l, q
    <3>1. PICK i \in 1 .. Len(both(l)) : both(l)[i] = e
      BY <2>3, <2>6, ListIs
    <3>2. i > Len(both(l)) - Len(q) \/ Len(q) = MaxEntries[l]
      BY <2>1, <2>4, <3>1
    <3>3. ~(i > Len(both(l)) - Len(q))
      <4> SUFFICES ASSUME i > Len(both(l)) - Len(q) PROVE FALSE
        OBVIOUS
      <4> DEFINE k == i - (Len(both(l)) - Len(q))
      <4>1. k \in 1 .. Len(q) /\ Len(both(l)) - Len(q) + k = i
        BY <2>3, <2>5
      <4> HIDE DEF k
      <4>2. q[k] = e /\ q[k] \in Range(q)
        BY <2>5, <3>1, <4>1
      <4> QED
        BY <4>2
    <3>4. \A x \in Range(q) : e.id < x.id
      BY <2>3, <2>4, <2>6, EndIsNewer
    <3>5. \A x \in Range(q) : x.id \in Int
      BY <2>3, <2>4, EndsAreParts, TimeIs
    <3> QED
      BY <2>1, <3>2, <3>3, <3>4, <3>5
  <2>7. CASE e \notin Range(both(l))
    <3>1. e \in Range(m.events) /\ e \notin Range(m.lists[l])
      BY <1>1, <2>1, <2>3, <2>7 DEF l
    <3>2. Len(m.lists[l]) = MaxEntries[l] /\ \A x \in Range(m.lists[l]) : x.id > e.id
      BY <3>1 DEF MemoryInv, ViewInv, l
    <3>3. m.events # <<>> /\ f \in Range(all) /\ f.id <= e.id /\ f.id \in Int
      <4>1. m.events # <<>>
        BY <3>1 DEF Range
      <4>2. f = all[1]
        BY <1>1, <4>1
      <4> QED
        BY <1>1, <2>1, <4>1, <4>2, TimeIs
    <3>4. ASSUME NEW x \in Range(both(l)) PROVE x.id \in Int /\ x.id > e.id /\ x.tick >= f2.tick
      <4>1. x.id \in Int /\ x.tick \in Int
        BY <2>3, TimeIs
      <4>2. CASE x \in Range(ops)
        <5>1. x.id >= next /\ x.tick = tick
          BY <4>2 DEF NewOps
        <5>2. e.id < next /\ f2.tick <= tick
          <6>1. e.id < next /\ e.tick <= tick
            BY <3>1 DEF MemoryInv, LogInv, Known
          <6> QED
            BY <2>1, <2>4, <6>1
        <5> QED
          BY <2>1, <2>4, <4>1, <5>1, <5>2
      <4>3. CASE x \in Range(m.lists[l])
        <5>1. x.id > e.id
          BY <3>2, <4>3
        <5>2. x.id >= f.id
          BY <2>1, <3>3, <4>1, <5>1
        <5>3. x \in Range(m.events)
          BY <2>2, <3>3, <4>3, <5>2 DEF MemoryInv, ViewInv, f
        <5>4. x \in Range(all) /\ e.id <= x.id
          BY <1>1, <2>1, <4>1, <5>1, <5>3
        <5>5. e.tick <= x.tick
          BY <1>1, <2>1, <5>4, TimeIs
        <5> QED
          BY <2>1, <2>4, <4>1, <5>1, <5>5
      <4> QED
        BY <2>3, <4>2, <4>3
    <3>5. Len(both(l)) >= MaxEntries[l]
      <4>1. /\ IsList(m.lists[l]) /\ IsList(Picked(ops, Of(ops, l)))
        BY <2>2, BothIs DEF MemoryInv, ListInv
      <4>2. Len(both(l)) = Len(m.lists[l]) + Len(Picked(ops, Of(ops, l)))
        BY <4>1, JoinLists DEF both
      <4>3. Len(Picked(ops, Of(ops, l))) \in Nat
        BY <4>1, ListIs
      <4> QED
        BY <2>5, <3>2, <4>2, <4>3
    <3>6. Len(q) = MaxEntries[l]
      <4>1. 1 \in 1 .. Len(both(l))
        BY <2>3, <2>5, <3>5
      <4>2. both(l)[1].tick >= f2.tick
        BY <2>3, <3>4, <4>1 DEF Range
      <4>3. 1 > Len(both(l)) - Len(q) \/ Len(q) = MaxEntries[l]
        BY <2>4, <4>1, <4>2
      <4> QED
        BY <2>3, <2>4, <2>5, <3>5, <4>3
    <3>7. \A x \in Range(q) : x.id > e.id
      BY <2>3, <2>4, <3>4, EndsAreParts
    <3> QED
      BY <3>6, <3>7 DEF l, q
  <2> QED
    BY <2>6, <2>7
<1>9. ASSUME NEW l \in SideLists, NEW x \in Range(m2.lists[l]) PROVE x.tick >= f2.tick
  <2>1. l \in Ordered \/ l = "windows"
    BY DEF Ordered
  <2> QED
    BY <1>4, <1>5, <1>9, <2>1 DEF Kept
<1> QED
  BY <1>1, <1>7, <1>8, <1>9 DEF ViewInv, m2, f2

LEMMA AppliedKeeps ==
  ASSUME LogAssumption, NEW m, NEW next \in Int, NEW tick \in Int, NEW ops,
         MemoryInv(m, next, tick), NewOps(ops, next, tick)
  PROVE  MemoryInv(ApplyPending(m, ops), next + Len(ops), tick)
<1> DEFINE m2 == ApplyPending(m, ops)
           both(l) == m.lists[l] \o Picked(ops, Of(ops, l))
           n2 == next + Len(ops)
<1>1. LogInv(m2, n2, tick)
  BY LogApplied
<1>2. ViewInv(m2)
  BY ViewApplied
<1>3. ASSUME NEW l \in Ordered
      PROVE  /\ IsList(both(l))
             /\ \A x \in Range(both(l)) : Known(x, n2, tick) /\ ListOf(x) = l
             /\ Kept(m2.lists[l], both(l), m2.events[1].tick, MaxEntries[l])
  <2>1. Kept(m2.lists[l], both(l), m2.events[1].tick, MaxEntries[l])
    BY ListApplied
  <2>2. IsList(both(l))
    BY BothIs
  <2>3. ASSUME NEW x \in Range(both(l)) PROVE Known(x, n2, tick) /\ ListOf(x) = l
    BY <2>3, BothIs
  <2> QED
    BY <2>1, <2>2, <2>3
<1>4. IsList(m2.lists["windows"]) /\ Range(m2.lists["windows"]) \subseteq Range(m.lists["windows"])
  BY WindowsApplied
<1>5. \A w \in Range(m.lists["windows"]) : w.tick \in Int /\ w.tick <= tick
  BY DEF MemoryInv, ListInv
<1> HIDE DEF m2, both, n2
<1>6. ASSUME NEW l \in Ordered
      PROVE  /\ IsList(m2.lists[l]) /\ InTime(m2.lists[l]) /\ Len(m2.lists[l]) <= MaxEntries[l]
             /\ \A x \in Range(m2.lists[l]) : Known(x, n2, tick) /\ ListOf(x) = l
  <2>1. Range(m2.lists[l]) \subseteq Range(both(l))
    BY <1>3, EndsAreParts DEF Kept
  <2> QED
    BY <1>3, <2>1 DEF Kept, Ends
<1>7. ListInv(m2, n2, tick)
  BY <1>4, <1>5, <1>6 DEF ListInv
<1> QED
  BY <1>1, <1>2, <1>7 DEF MemoryInv, m2, n2

\* Nothing comes into the sight of a reader but what is new.
Sees(m2, m, ops) ==
    \A l \in Ordered :
        /\ Range(m2.lists[l]) \subseteq Range(m.lists[l]) \cup {op \in Range(ops) : ListOf(op) = l}
        /\ \A n \in Nat : Range(RecentOf(m2, l, n)) \subseteq
                            Range(RecentOf(m, l, n)) \cup {op \in Range(ops) : ListOf(op) = l}

LEMMA AppliedSees ==
  ASSUME LogAssumption, NEW m, NEW next \in Int, NEW tick \in Int, NEW ops,
         MemoryInv(m, next, tick), NewOps(ops, next, tick)
  PROVE  Sees(ApplyPending(m, ops), m, ops)
<1> DEFINE m2 == ApplyPending(m, ops)
           added(l) == Picked(ops, Of(ops, l))
<1>1. ASSUME NEW l \in Ordered
      PROVE  /\ IsList(m.lists[l]) /\ IsList(added(l)) /\ IsList(m.lists[l] \o added(l))
             /\ Range(added(l)) = {op \in Range(ops) : ListOf(op) = l}
             /\ Range(m.lists[l] \o added(l)) = Range(m.lists[l]) \cup Range(added(l))
             /\ Ends(m2.lists[l], m.lists[l] \o added(l))
  <2>1. Kept(m2.lists[l], m.lists[l] \o added(l), m2.events[1].tick, MaxEntries[l])
    BY ListApplied
  <2>2. IsList(m.lists[l])
    BY DEF MemoryInv, ListInv
  <2> QED
    BY <2>1, <2>2, BothIs DEF Kept
<1> HIDE DEF m2, added
<1>2. ASSUME NEW l \in Ordered, NEW n \in Nat
      PROVE  Range(RecentOf(m2, l, n)) \subseteq Range(RecentOf(m, l, n)) \cup Range(added(l))
  BY <1>1, WindowMoves DEF RecentOf
<1>3. ASSUME NEW l \in Ordered
      PROVE  Range(m2.lists[l]) \subseteq Range(m.lists[l]) \cup Range(added(l))
  BY <1>1, EndsAreParts
<1> QED
  BY <1>1, <1>2, <1>3 DEF Sees, m2

\* The memory stays what it is when ids and ticks move on.
LEMMA MemoryMovesOn ==
  ASSUME NEW m, NEW next \in Int, NEW tick \in Int, NEW next2 \in Int, NEW tick2 \in Int,
         next <= next2, tick <= tick2, MemoryInv(m, next, tick)
  PROVE  MemoryInv(m, next2, tick2)
<1>1. \A x : Known(x, next, tick) => Known(x, next2, tick2)
  BY DEF Known
<1>2. LogInv(m, next2, tick2)
  BY <1>1 DEF MemoryInv, LogInv
<1>3. \A w \in Range(m.lists["windows"]) : w.tick \in Int /\ w.tick <= tick2
  BY DEF MemoryInv, ListInv
<1>4. ListInv(m, next2, tick2)
  BY <1>1, <1>3 DEF MemoryInv, ListInv
<1> QED
  BY <1>2, <1>4 DEF MemoryInv

\* The tone is that of the last tone update, if there is one.
LEMMA NoTone ==
  ASSUME NEW m, NEW ops, ops # <<>>, \A op \in Range(ops) : op.marker # ToneMarker
  PROVE  ApplyPending(m, ops).tone = m.tone
<1> DEFINE tones == {i \in DOMAIN ops : ops[i].marker = ToneMarker}
<1>1. ApplyPending(m, ops).tone = IF tones = {} THEN m.tone ELSE ops[Max(tones)].tone
  BY AppliedIs, ZenonT(60)
<1>2. tones = {}
  BY DEF Range
<1> QED
  BY <1>1, <1>2

LEMMA OneTone ==
  ASSUME NEW m, NEW op, op.marker = ToneMarker
  PROVE  ApplyPending(m, <<op>>).tone = op.tone
<1> DEFINE ops == <<op>>
           tones == {i \in DOMAIN ops : ops[i].marker = ToneMarker}
<1>1. ops # <<>> /\ DOMAIN ops = {1} /\ ops[1] = op
  OBVIOUS
<1> HIDE DEF ops
<1>2. ApplyPending(m, ops).tone = IF tones = {} THEN m.tone ELSE ops[Max(tones)].tone
  BY <1>1, AppliedIs, ZenonT(60)
<1>3. tones = {1}
  BY <1>1
<1>4. Max({1}) = 1
  BY DEF Max
<1>5. ApplyPending(m, ops).tone = op.tone
  BY <1>1, <1>2, <1>3, <1>4
<1> QED
  BY <1>5 DEF ops

\* A non-empty set of integers within bounds has a greatest and a least one.
LEMMA ExtremesAre ==
  ASSUME NEW S \in SUBSET Int, NEW a \in Int, NEW b \in Int, S # {},
         \A x \in S : a <= x /\ x <= b
  PROVE  Max(S) \in S /\ Min(S) \in S /\ \A x \in S : Min(S) <= x /\ x <= Max(S)
<1> DEFINE T == {x - a + 1 : x \in S}
           n == b - a + 1
<1>1. n \in Nat /\ T \in SUBSET (1 .. n) /\ T # {}
  <2>1. PICK x \in S : TRUE
    OBVIOUS
  <2>2. x \in Int /\ a <= x /\ x <= b
    BY <2>1
  <2>3. n \in Nat
    BY <2>2
  <2>4. ASSUME NEW y \in S PROVE y - a + 1 \in 1 .. n
    <3>1. y \in Int /\ a <= y /\ y <= b
      OBVIOUS
    <3> QED
      BY <3>1
  <2> QED
    BY <2>1, <2>3, <2>4
<1>2. Max(T) \in T /\ \A y \in T : y <= Max(T)
  <2> HIDE DEF T, n
  <2> QED
    BY <1>1, GreatestIs
<1>3. PICK m \in S : Max(T) = m - a + 1
  BY <1>2
<1>4. \A x \in S : x - a + 1 <= m - a + 1
  BY <1>2, <1>3
<1>5. \A x \in S : m >= x
  BY <1>4
<1>6. \E o \in T : \A p \in T : o <= p
  <2> HIDE DEF T, n
  <2> QED
    BY <1>1, LeastIs
<1>7. PICK o \in S : \A x \in S : o - a + 1 <= x - a + 1
  BY <1>6
<1>8. \A x \in S : o <= x
  BY <1>7
<1>9. Max(S) \in S /\ \A x \in S : Max(S) >= x
  <2>1. \E y \in S : \A x \in S : y >= x
    BY <1>5
  <2> QED
    BY <2>1 DEF Max
<1>10. Min(S) \in S /\ \A x \in S : Min(S) <= x
  <2>1. \E y \in S : \A x \in S : y <= x
    BY <1>8
  <2> QED
    BY <2>1 DEF Min
<1> QED
  BY <1>9, <1>10

\* The end of a list is a suffix of it.
LEMMA EndIsSuffix ==
  ASSUME NEW q, NEW s, IsList(s), Ends(q, s)
  PROVE  IsSuffix(q, s)
<1> DEFINE rq == Reverse(q)
           rs == Reverse(s)
<1>1. /\ Len(q) \in Nat /\ Len(s) \in Nat /\ Len(q) <= Len(s)
      /\ \A i \in 1 .. Len(q) : q[i] = s[Len(s) - Len(q) + i]
  BY ListIs DEF Ends
<1>2. rq = [i \in 1 .. Len(q) |-> q[Len(q) - i + 1]] /\ rs = [i \in 1 .. Len(s) |-> s[Len(s) - i + 1]]
  BY DEF Reverse
<1> HIDE DEF rq, rs
<1>3. Len(rq) = Len(q) /\ Len(rs) = Len(s)
  BY <1>1, <1>2
<1>4. ASSUME NEW i \in 1 .. Len(q) PROVE q[Len(q) - i + 1] = s[Len(s) - i + 1]
  <2>1. Len(q) - i + 1 \in 1 .. Len(q)
    BY <1>1
  <2>2. Len(s) - Len(q) + (Len(q) - i + 1) = Len(s) - i + 1
    BY <1>1
  <2>3. q[Len(q) - i + 1] = s[Len(s) - Len(q) + (Len(q) - i + 1)]
    BY <1>1, <2>1
  <2> QED
    BY <2>2, <2>3
<1>5. \A i \in 1 .. Len(q) : rq[i] = rs[i]
  BY <1>1, <1>2, <1>4
<1>6. SubSeq(rq, 1, Len(rq)) = SubSeq(rs, 1, Len(rq))
  <2>1. /\ SubSeq(rq, 1, Len(rq)) = [i \in 1 .. Len(q) |-> rq[i]]
        /\ SubSeq(rs, 1, Len(rq)) = [i \in 1 .. Len(q) |-> rs[i]]
    BY <1>1, <1>3
  <2> QED
    BY <1>5, <2>1
<1> QED
  BY <1>1, <1>3, <1>6 DEF IsSuffix, IsPrefix, rq, rs

\* The newer part of a list in time is its end.
LEMMA NewerIsEnd ==
  ASSUME NEW q, NEW s, IsList(q), IsList(s), InTime(q), InTime(s), Range(q) \subseteq Range(s),
         \A x \in Range(s) : x \in Range(q) \/ \A y \in Range(q) : x.id < y.id
  PROVE  Ends(q, s)
<1> DEFINE n == Len(q)
           k == Len(s)
<1>1. /\ n \in Nat /\ k \in Nat /\ DOMAIN q = 1 .. n /\ DOMAIN s = 1 .. k
      /\ \A i \in 1 .. n : q[i] \in Range(q) /\ q[i].id \in Int
      /\ \A i \in 1 .. k : s[i] \in Range(s) /\ s[i].id \in Int
      /\ \A i, j \in 1 .. n : i < j => q[i].id < q[j].id
      /\ \A i, j \in 1 .. k : i < j => s[i].id < s[j].id
      /\ \A x \in Range(q) : \E i \in 1 .. n : q[i] = x
      /\ \A x \in Range(s) : \E i \in 1 .. k : s[i] = x
  BY ListIs DEF InTime
<1> DEFINE Good == {j \in Nat : j < n => j < k /\ q[n - j] = s[k - j]}
<1> HIDE DEF n, k
<1>2. ASSUME NEW j \in Nat, j < n,
             NEW c \in 1 .. k, \A i \in 1 .. k : i > c => s[i].id > q[n - j].id,
             \A i \in 1 .. n : s[c].id <= q[n - j].id \/ (i > n - j => q[i].id > s[c].id)
      PROVE  q[n - j] = s[c]
  <2>1. n - j \in 1 .. n /\ q[n - j] \in Range(s)
    BY <1>1, <1>2
  <2>2. PICK p \in 1 .. k : s[p] = q[n - j]
    BY <1>1, <2>1
  <2>3. p <= c
    BY <1>1, <1>2, <2>2
  <2>4. ASSUME p < c PROVE FALSE
    <3>1. q[n - j].id < s[c].id /\ s[c] \in Range(s)
      BY <1>1, <2>2, <2>4
    <3>2. s[c] \in Range(q)
      <4>1. ~(s[c].id < q[n - j].id)
        BY <1>1, <2>1, <3>1
      <4>2. q[n - j] \in Range(q)
        BY <1>1, <2>1
      <4> QED
        BY <3>1, <4>1, <4>2
    <3>3. PICK i \in 1 .. n : q[i] = s[c]
      BY <1>1, <3>2
    <3>4. i > n - j
      <4> SUFFICES ASSUME ~(i > n - j) PROVE FALSE
        OBVIOUS
      <4>1. i < n - j \/ i = n - j
        BY <1>1
      <4>2. q[i].id < q[n - j].id \/ i = n - j
        BY <1>1, <2>1, <4>1
      <4>3. q[i].id > q[n - j].id /\ q[i].id \in Int /\ q[n - j].id \in Int
        BY <1>1, <2>1, <3>1, <3>3
      <4> QED
        BY <4>2, <4>3
    <3>5. s[c].id <= q[n - j].id \/ q[i].id > s[c].id
      BY <1>2, <3>4
    <3>6. s[c].id \in Int /\ q[n - j].id \in Int
      BY <1>1, <2>1
    <3> QED
      BY <3>1, <3>3, <3>5, <3>6
  <2> QED
    BY <2>2, <2>3, <2>4
<1>3. 0 \in Good
  <2>1. ASSUME 0 < n PROVE 0 < k /\ q[n - 0] = s[k - 0]
    <3>1. n \in 1 .. n /\ \A i \in 1 .. n : ~(i > n - 0)
      BY <1>1, <2>1
    <3>2. 0 < k
      <4>1. q[n] \in Range(s)
        BY <1>1, <3>1
      <4> QED
        BY <1>1, <4>1
    <3>3. k \in 1 .. k /\ \A i \in 1 .. k : ~(i > k)
      BY <1>1, <3>2
    <3>4. q[n - 0] = s[k]
      BY <1>2, <2>1, <3>1, <3>3
    <3> QED
      BY <1>1, <3>2, <3>4
  <2> QED
    BY <2>1
<1>4. ASSUME NEW j \in Nat, j \in Good PROVE j + 1 \in Good
  <2>1. ASSUME j + 1 < n PROVE j + 1 < k /\ q[n - (j + 1)] = s[k - (j + 1)]
    <3>1. /\ j < k /\ q[n - j] = s[k - j]
          /\ n - j \in 1 .. n /\ n - (j + 1) \in 1 .. n /\ n - (j + 1) < n - j /\ k - j \in 1 .. k
      BY <1>1, <1>4, <2>1
    <3>2. q[n - (j + 1)].id < s[k - j].id
      BY <1>1, <3>1
    <3>3. ASSUME NEW i \in 1 .. k, i >= k - j PROVE s[i].id > q[n - (j + 1)].id
      <4>0. i \in Int /\ k - j \in Int
        BY <3>1
      <4>1. k - j < i \/ i = k - j
        BY <3>3, <4>0
      <4>2. s[k - j].id < s[i].id \/ i = k - j
        BY <1>1, <3>1, <4>1
      <4>3. s[i].id \in Int /\ s[k - j].id \in Int /\ q[n - (j + 1)].id \in Int
        BY <1>1, <3>1
      <4> QED
        BY <3>2, <4>2, <4>3
    <3>4. j + 1 < k
      <4> SUFFICES ASSUME ~(j + 1 < k) PROVE FALSE
        OBVIOUS
      <4>1. k - j = 1
        BY <1>1, <3>1
      <4>2. q[n - (j + 1)] \in Range(s)
        BY <1>1, <3>1
      <4>3. PICK p \in 1 .. k : s[p] = q[n - (j + 1)]
        BY <1>1, <4>2
      <4>4. s[p].id > q[n - (j + 1)].id
        BY <1>1, <3>3, <4>1
      <4> QED
        BY <1>1, <4>3, <4>4
    <3>5. k - (j + 1) \in 1 .. k /\ k - (j + 1) < k - j
      BY <1>1, <3>4
    <3>6. \A i \in 1 .. k : i > k - (j + 1) => s[i].id > q[n - (j + 1)].id
      BY <1>1, <3>3
    <3>7. ASSUME NEW i \in 1 .. n, i > n - (j + 1) PROVE q[i].id > s[k - (j + 1)].id
      <4>1. i >= n - j
        BY <1>1, <3>7
      <4>2. q[n - j].id < q[i].id \/ i = n - j
        <5>1. n - j < i \/ i = n - j
          BY <1>1, <4>1
        <5> QED
          BY <1>1, <3>1, <5>1
      <4>3. s[k - (j + 1)].id < s[k - j].id
        BY <1>1, <3>1, <3>5
      <4>4. s[k - (j + 1)].id \in Int /\ s[k - j].id \in Int /\ q[i].id \in Int
        BY <1>1, <3>1, <3>5
      <4>5. q[n - j].id = s[k - j].id
        BY <3>1
      <4> QED
        BY <4>2, <4>3, <4>4, <4>5
    <3>8. q[n - (j + 1)] = s[k - (j + 1)]
      BY <1>2, <2>1, <3>5, <3>6, <3>7
    <3> QED
      BY <3>4, <3>8
  <2> QED
    BY <2>1
<1>5. \A j \in Nat : j \in Good
  <2> HIDE DEF Good
  <2> QED
    BY <1>3, <1>4, NatSets
<1>6. n <= k
  <2> SUFFICES ASSUME ~(n <= k) PROVE FALSE
    BY <1>1
  <2>1. k \in Good /\ k < n
    BY <1>1, <1>5
  <2> QED
    BY <1>1, <2>1
<1>7. ASSUME NEW i \in 1 .. n PROVE q[i] = s[k - n + i]
  <2>1. n - i \in Nat /\ n - i < n /\ n - (n - i) = i /\ k - (n - i) = k - n + i
    BY <1>1
  <2>2. n - i \in Good
    BY <1>5, <2>1
  <2>3. q[n - (n - i)] = s[k - (n - i)]
    BY <2>1, <2>2
  <2> QED
    BY <2>1, <2>3
<1> QED
  BY <1>6, <1>7 DEF Ends, n, k


\* What a list has and what the log has of its marker: one of the two is the end
\* of the other.
LEMMA ListFollowsLog ==
  ASSUME LogAssumption, NEW m, NEW next \in Int, NEW tick \in Int, MemoryInv(m, next, tick),
         NEW k \in Markers \ FrameMarkers
  PROVE  LET listed == m.lists[k]
             logged == LastOf(Picked(m.events, {i \in DOMAIN m.events : m.events[i].marker = k}),
                              MaxEntries[k])
         IN  /\ IsSuffix(logged, listed)
             /\ \A e \in Range(listed) \ Range(logged) : e.tick = Head(m.events).tick
<1> DEFINE listed == m.lists[k]
           events == m.events
           P == {i \in DOMAIN events : events[i].marker = k}
           all == Picked(events, P)
           cap == MaxEntries[k]
           logged == LastOf(all, cap)
<1>1. /\ IsList(events) /\ InTime(events) /\ DOMAIN events = 1 .. Len(events) /\ Len(events) \in Nat
      /\ \A e \in Range(events) : e.marker \in Markers
  BY ListIs DEF MemoryInv, LogInv, Known
<1>2. k \in Ordered /\ k \in SideLists /\ cap \in Nat \ {0}
  BY ListsAreNamed DEF LogAssumption
<1>3. /\ IsList(listed) /\ InTime(listed) /\ Len(listed) <= cap /\ Len(listed) \in Nat
      /\ \A x \in Range(listed) : ListOf(x) = k /\ x.marker \in Markers /\ x.tick \in Int /\ x.id \in Int
  BY <1>2, ListIs DEF MemoryInv, ListInv, Known
<1>4. IsList(all) /\ InTime(all) /\ Range(all) = {events[i] : i \in P}
  <2>1. P \in SUBSET (1 .. Len(events))
    BY <1>1
  <2> HIDE DEF P
  <2> QED
    BY <1>1, <2>1, PickedInTime
<1>5. Range(all) = {e \in Range(events) : e.marker = k}
  <2> HIDE DEF all
  <2> QED
    BY <1>4 DEF Range
<1>6. \A x \in Range(listed) : x.marker = k
  BY <1>2, <1>3, ListsAreNamed
<1>7. \A e \in Range(all) :
        e \notin Range(listed) => Len(listed) = cap /\ \A x \in Range(listed) : x.id > e.id
  <2>1. \A e \in Range(all) : e \in Range(events) /\ ListOf(e) = k
    BY <1>1, <1>5, ListsAreNamed
  <2> QED
    BY <2>1 DEF MemoryInv, ViewInv
<1>8. ASSUME NEW x \in Range(listed)
      PROVE  \/ x \in Range(all)
             \/ (x.tick = Head(events).tick /\ \A e \in Range(all) : x.id < e.id)
  <2>1. events # <<>>
    BY <1>2, NoList DEF MemoryInv, ViewInv
  <2>2. /\ x.tick >= events[1].tick
        /\ x.id >= events[1].id => x \in Range(events)
        /\ x.id < events[1].id => x.tick <= events[1].tick
    BY <1>2, <2>1 DEF MemoryInv, ViewInv
  <2>3. Head(events) = events[1] /\ events[1] \in Range(events)
    <3>1. 1 \in 1 .. Len(events)
      BY <1>1, <2>1, ListIs
    <3> QED
      BY <1>1, <2>1, <3>1, ListIs DEF IsList
  <2>4. events[1].id \in Int /\ events[1].tick \in Int /\ x.id \in Int /\ x.tick \in Int
    BY <1>1, <1>3, <2>3, TimeIs
  <2>5. CASE x.id >= events[1].id
    BY <1>5, <1>6, <2>2, <2>5
  <2>6. CASE x.id < events[1].id
    <3>1. ASSUME NEW e \in Range(all) PROVE x.id < e.id
      <4>1. e \in Range(events)
        BY <1>5
      <4>2. events[1].id <= e.id /\ e.id \in Int
        BY <1>1, <4>1, TimeIs
      <4> QED
        BY <2>4, <2>6, <4>2
    <3>2. x.tick = Head(events).tick
      BY <2>2, <2>3, <2>4, <2>6
    <3> QED
      BY <3>1, <3>2
  <2> QED
    BY <2>4, <2>5, <2>6
<1> HIDE DEF all
<1>9. /\ Ends(logged, all) /\ Len(all) \in Nat /\ IsList(logged)
      /\ Len(logged) = IF Len(all) > cap THEN cap ELSE Len(all)
  <2>1. Ends(logged, all) /\ Len(logged) = IF Len(all) > cap THEN cap ELSE Len(all)
    BY <1>2, <1>4, LastEnds
  <2> QED
    BY <1>4, <2>1, ListIs DEF Ends
<1> HIDE DEF logged, listed, P, cap, events
<1>10. CASE Range(all) \subseteq Range(listed)
  <2>1. Ends(all, listed)
    BY <1>3, <1>4, <1>8, <1>10, NewerIsEnd
  <2>2. Len(logged) = Len(all)
    BY <1>2, <1>3, <1>9, <2>1 DEF Ends
  <2>3. \A i \in 1 .. Len(logged) : logged[i] = all[i]
    BY <1>9, <2>2 DEF Ends
  <2>4. logged = all
    BY <1>4, <1>9, <2>2, <2>3, SameList
  <2>5. IsSuffix(logged, listed)
    BY <1>3, <2>1, <2>4, EndIsSuffix
  <2> QED
    BY <1>8, <2>4, <2>5 DEF logged, listed, all, P, cap, events
<1>11. CASE ~(Range(all) \subseteq Range(listed))
  <2>1. PICK e \in Range(all) : e \notin Range(listed)
    BY <1>11
  <2>2. Len(listed) = cap /\ \A x \in Range(listed) : x.id > e.id
    BY <1>7, <2>1
  <2>3. e.id \in Int
    BY <1>4, <2>1, TimeIs
  <2>4. Range(listed) \subseteq Range(all)
    <3>1. ASSUME NEW x \in Range(listed), x \notin Range(all) PROVE FALSE
      <4>1. x.id < e.id
        BY <1>8, <2>1, <3>1
      <4>2. x.id > e.id /\ x.id \in Int
        BY <1>3, <2>2, <3>1
      <4> QED
        BY <2>3, <4>1, <4>2
    <3> QED
      BY <3>1
  <2>5. \A x \in Range(all) : x \in Range(listed) \/ \A y \in Range(listed) : x.id < y.id
    <3>1. ASSUME NEW x \in Range(all), x \notin Range(listed), NEW y \in Range(listed) PROVE x.id < y.id
      <4>1. y.id > x.id
        BY <1>7, <3>1
      <4>2. x.id \in Int /\ y.id \in Int
        BY <1>3, <1>4, <3>1, TimeIs
      <4> QED
        BY <4>1, <4>2
    <3> QED
      BY <3>1
  <2>6. Ends(listed, all)
    BY <1>3, <1>4, <2>4, <2>5, NewerIsEnd
  <2>7. Len(logged) = Len(listed)
    BY <1>2, <1>3, <1>9, <2>2, <2>6 DEF Ends
  <2>8. \A i \in 1 .. Len(logged) : logged[i] = listed[i]
    BY <1>9, <2>6, <2>7 DEF Ends
  <2>9. logged = listed
    BY <1>3, <1>9, <2>7, <2>8, SameList
  <2>10. Ends(listed, listed)
    BY <1>3 DEF Ends
  <2>11. IsSuffix(logged, listed)
    BY <1>3, <2>9, <2>10, EndIsSuffix
  <2> QED
    BY <2>9, <2>11 DEF logged, listed, all, P, cap, events
<1> QED
  BY <1>10, <1>11

\* What the report says of the lists: nothing but a window is older than the log.
LEMMA ReportFollowsLog ==
  ASSUME LogAssumption, NEW m, NEW next \in Int, NEW tick \in Int, MemoryInv(m, next, tick),
         m.events # <<>>
  PROVE  LET report == RetentionReport(m)
             first == Head(m.events).tick
         IN  \A l \in DOMAIN report :
               /\ report[l].newest <= tick
               /\ report[l].newest >= first
               /\ (report[l].oldest >= first \/ l = "windows")
               /\ report[l].stale > 0 => l = "windows"
<1> DEFINE events == m.events
           first == events[1].tick
           ticks == {events[i].tick : i \in DOMAIN events}
<1>1. /\ IsList(events) /\ InTime(events) /\ Len(events) \in Nat /\ DOMAIN events = 1 .. Len(events)
      /\ \A e \in Range(events) : e.tick \in Int /\ e.tick <= tick
  BY ListIs DEF MemoryInv, LogInv, Known
<1>2. Head(events) = events[1] /\ 1 \in 1 .. Len(events)
  <2>1. 1 \in 1 .. Len(events)
    BY <1>1, ListIs
  <2> QED
    BY <1>1, <2>1 DEF IsList
<1>3. \A i \in DOMAIN events : events[i].tick \in Int /\ events[i].tick >= first /\ events[i].tick <= tick
  <2>1. ASSUME NEW i \in DOMAIN events
        PROVE  events[i].tick \in Int /\ events[i].tick >= first /\ events[i].tick <= tick
    <3>1. events[i] \in Range(events) /\ events[1] \in Range(events)
      BY <1>1, <1>2, ListIs
    <3>2. events[1].id <= events[i].id /\ events[i].tick \in Int /\ first \in Int
      BY <1>1, <3>1, TimeIs
    <3>3. first <= events[i].tick
      BY <1>1, <3>1, <3>2, TimeIs
    <3> QED
      BY <1>1, <3>1, <3>2, <3>3
  <2> QED
    BY <2>1
<1>4. Min(ticks) = first /\ first \in Int
  <2>1. ticks \in SUBSET Int /\ ticks # {} /\ first \in ticks /\ first \in Int
    BY <1>1, <1>2, <1>3
  <2>2. \A x \in ticks : first <= x /\ x <= tick
    BY <1>3
  <2> HIDE DEF ticks, first
  <2>3. Min(ticks) \in ticks /\ \A x \in ticks : Min(ticks) <= x
    BY <2>1, <2>2, ExtremesAre
  <2>4. Min(ticks) <= first /\ first <= Min(ticks) /\ Min(ticks) \in Int
    BY <2>1, <2>2, <2>3
  <2> QED
    BY <2>1, <2>4
<1>5. EventTickBounds(m).oldest = first
  BY <1>4 DEF EventTickBounds
<1> HIDE DEF ticks, first, events
<1>6. ASSUME NEW l \in SideLists, m.lists[l] # <<>>
      PROVE  LET r == SideListReport(m.lists[l], first)
             IN  /\ r.newest <= tick
                 /\ r.newest >= first
                 /\ (r.oldest >= first \/ l = "windows")
                 /\ r.stale > 0 => l = "windows"
  <2> DEFINE s == m.lists[l]
             r == SideListReport(s, first)
             news == {s[i].tick : i \in DOMAIN s}
             olds == {OldestOf(s[i]) : i \in DOMAIN s} \cup {Last(s).tick}
             old == {i \in DOMAIN s : OldestOf(s[i]) < first}
  <2>1. l \in Ordered \/ l = "windows"
    BY DEF Ordered
  <2>2. /\ IsList(s) /\ \A x \in Range(s) : x.tick \in Int /\ x.tick <= tick
        /\ l # "windows" => \A x \in Range(s) : "from" \notin DOMAIN x
    BY <2>1 DEF MemoryInv, ListInv, Known
  <2>3. \A x \in Range(s) : x.tick >= first
    BY DEF MemoryInv, ViewInv, first, events
  <2>4. r.newest = Max(news) /\ r.oldest = Min(olds) /\ r.stale = Cardinality(old)
    BY DEF SideListReport
  <2> HIDE DEF s, r
  <2>5. /\ Len(s) \in Nat /\ DOMAIN s = 1 .. Len(s) /\ 1 \in 1 .. Len(s) /\ Len(s) \in 1 .. Len(s)
        /\ \A i \in 1 .. Len(s) : s[i] \in Range(s)
    <3>1. Len(s) \in Nat /\ DOMAIN s = 1 .. Len(s) /\ Len(s) # 0 /\ \A i \in 1 .. Len(s) : s[i] \in Range(s)
      BY <1>6, <2>2, ListIs DEF s
    <3> QED
      BY <3>1
  <2>6. Max(news) >= first /\ Max(news) <= tick
    <3>1. news \in SUBSET Int /\ news # {} /\ \A x \in news : first <= x /\ x <= tick
      BY <2>2, <2>3, <2>5
    <3> HIDE DEF news
    <3>2. Max(news) \in news
      BY <1>4, <3>1, ExtremesAre
    <3> QED
      BY <3>1, <3>2
  <2>7. CASE l = "windows"
    BY <2>4, <2>6, <2>7 DEF r, s
  <2>8. CASE l # "windows"
    <3>1. \A i \in DOMAIN s : OldestOf(s[i]) = s[i].tick
      BY <2>2, <2>5, <2>8 DEF OldestOf
    <3>2. Last(s) = s[Len(s)]
      BY DEF Last
    <3>3. olds \in SUBSET Int /\ olds # {} /\ \A x \in olds : first <= x /\ x <= tick
      BY <2>2, <2>3, <2>5, <3>1, <3>2
    <3>4. Min(olds) >= first
      <4> HIDE DEF olds
      <4>1. Min(olds) \in olds
        BY <1>4, <3>3, ExtremesAre
      <4> QED
        BY <3>3, <4>1
    <3>5. old = {}
      <4>1. ASSUME NEW i \in DOMAIN s, OldestOf(s[i]) < first PROVE FALSE
        <5>1. s[i].tick < first /\ s[i].tick >= first /\ s[i].tick \in Int
          BY <2>2, <2>3, <2>5, <3>1, <4>1
        <5> QED
          BY <1>4, <5>1
      <4> QED
        BY <4>1
    <3>6. Cardinality(old) = 0
      BY <3>5, FS_EmptySet
    <3>7. ~(Cardinality(old) > 0)
      BY <3>6
    <3> HIDE DEF olds, old, news
    <3> QED
      BY <2>4, <2>6, <3>4, <3>7 DEF r, s
  <2> QED
    BY <2>7, <2>8
<1>7. /\ DOMAIN RetentionReport(m) = {l \in SideLists : m.lists[l] # <<>>}
      /\ \A l \in DOMAIN RetentionReport(m) :
            RetentionReport(m)[l] = SideListReport(m.lists[l], first)
  BY <1>5 DEF RetentionReport
<1>8. Head(m.events).tick = first
  BY <1>2 DEF first, events
<1> HIDE DEF first
<1> QED
  BY <1>6, <1>7, <1>8, Zenon

LEMMA MemoryFollowsLog ==
  ASSUME LogAssumption, run.next \in Int, run.tick \in Int,
         MemoryInv(run.memory, run.next, run.tick)
  PROVE  SideListsFollowLog
BY ListFollowsLog, ReportFollowsLog DEF SideListsFollowLog


(***************************************************************************)
(* What the modules commit.                                                *)
(***************************************************************************)
\* A body that may be committed where only these markers may be.
Body(b, markers) == "marker" \in DOMAIN b /\ "from" \notin DOMAIN b /\ b.marker \in markers

Bodies(bodies, markers) == IsList(bodies) /\ \A b \in Range(bodies) : Body(b, markers)

OpsOf(r, bodies) ==
    [i \in 1 .. Len(bodies) |-> Over([id |-> r.next + i - 1, tick |-> r.tick], bodies[i])]

LEMMA OpsAreNew ==
  ASSUME NEW r, r.next \in Int, r.tick \in Int, NEW markers \in SUBSET Markers,
         NEW bodies, Bodies(bodies, markers), bodies # <<>>
  PROVE  /\ NewOps(OpsOf(r, bodies), r.next, r.tick)
         /\ Len(OpsOf(r, bodies)) = Len(bodies)
         /\ \A op \in Range(OpsOf(r, bodies)) : op.marker \in markers
<1> DEFINE n == Len(bodies)
           ops == OpsOf(r, bodies)
           stamp(i) == [id |-> r.next + i - 1, tick |-> r.tick]
<1>1. /\ n \in Nat /\ n # 0
      /\ \A i \in 1 .. n : Body(bodies[i], markers)
  BY ListIs DEF Bodies
<1>2. ops = [i \in 1 .. n |-> Over(stamp(i), bodies[i])]
  BY DEF OpsOf
<1> HIDE DEF n, ops
<1>3. ASSUME NEW i \in 1 .. n
      PROVE  LET op == Over(stamp(i), bodies[i])
             IN  /\ op.id = r.next + i - 1 /\ op.tick = r.tick /\ op.marker = bodies[i].marker
                 /\ "from" \notin DOMAIN op /\ op.marker \in markers
  <2>1. DOMAIN stamp(i) = {"id", "tick"} /\ stamp(i).id = r.next + i - 1 /\ stamp(i).tick = r.tick
    OBVIOUS
  <2>2. Body(bodies[i], markers)
    BY <1>1
  <2> HIDE DEF stamp
  <2> QED
    BY <2>1, <2>2 DEF Over, Body
<1> HIDE DEF stamp
<1>4. /\ ops \in Seq(Range(ops)) /\ Len(ops) = n /\ DOMAIN ops = 1 .. n
      /\ \A i \in 1 .. n : ops[i].id = r.next + i - 1 /\ ops[i].tick = r.tick
                             /\ "from" \notin DOMAIN ops[i] /\ ops[i].marker \in markers
  <2>1. Len(ops) = n /\ DOMAIN ops = 1 .. n /\ \A i \in 1 .. n : ops[i] = Over(stamp(i), bodies[i])
    BY <1>1, <1>2
  <2>2. ops \in [1 .. n -> Range(ops)]
    BY <1>2, <2>1 DEF Range
  <2>3. ops \in Seq(Range(ops))
    BY <1>1, <2>2
  <2> QED
    BY <1>3, <2>1, <2>3
<1>5. InTime(ops)
  <2>1. \A i \in 1 .. n : ops[i].id \in Int /\ ops[i].tick \in Int
    BY <1>1, <1>4
  <2>2. ASSUME NEW i \in 1 .. n, NEW j \in 1 .. n, i < j
        PROVE  ops[i].id < ops[j].id /\ ops[i].tick <= ops[j].tick
    <3>1. /\ ops[i].id = r.next + i - 1 /\ ops[i].tick = r.tick
          /\ ops[j].id = r.next + j - 1 /\ ops[j].tick = r.tick
      BY <1>4
    <3> QED
      BY <1>1, <2>2, <3>1
  <2>3. DOMAIN ops = 1 .. n
    BY <1>4
  <2> QED
    BY <2>1, <2>2, <2>3 DEF InTime
<1>6. \A op \in Range(ops) : \E i \in 1 .. n : op = ops[i]
  BY <1>4 DEF Range
<1>7. ASSUME NEW op \in Range(ops)
      PROVE  op.id >= r.next /\ op.tick = r.tick /\ Known(op, r.next + n, r.tick) /\ op.marker \in markers
  <2>1. PICK i \in 1 .. n : op = ops[i]
    BY <1>6
  <2>2. op.id = r.next + i - 1 /\ op.tick = r.tick /\ "from" \notin DOMAIN op /\ op.marker \in markers
    BY <1>4, <2>1
  <2> QED
    BY <1>1, <2>2 DEF Known
<1>8. ops # <<>>
  BY <1>1, <1>4
<1> QED
  BY <1>4, <1>5, <1>7, <1>8 DEF NewOps, IsList, n, ops

\* The shape of the run.
RunFields == {"memory", "handled", "thought", "tick", "next", "updates", "lastInputs",
              "lastHomeostasis"}

RunInv(r) ==
    /\ DOMAIN r = RunFields
    /\ r.next \in Nat /\ r.tick \in Nat
    /\ MemoryInv(r.memory, r.next, r.tick)

\* What a memory shows that another did not is of these markers and this tick.
Shows(m2, m, markers, tick) ==
    \A l \in Ordered :
        /\ \A x \in Range(m2.lists[l]) :
              x \in Range(m.lists[l]) \/ (x.marker \in markers /\ x.tick = tick)
        /\ \A n \in Nat : \A x \in Range(RecentOf(m2, l, n)) :
              x \in Range(RecentOf(m, l, n)) \/ (x.marker \in markers /\ ListOf(x) = l)

\* Between two states of a run only operations of these markers are added.
Adds(r2, r, markers) ==
    /\ RunInv(r2) /\ r.next <= r2.next
    /\ r2.handled = r.handled /\ r2.tick = r.tick /\ r2.updates = r.updates
    /\ r2.memory.tone = r.memory.tone
    /\ Shows(r2.memory, r.memory, markers, r.tick)
    /\ \A l \in Ordered : \A x \in Range(r2.memory.lists[l]) :
          x \in Range(r.memory.lists[l]) \/ x.id >= r.next
    /\ \A l \in Ordered : \A n \in Nat : \A x \in Range(RecentOf(r2.memory, l, n)) :
          x \in Range(RecentOf(r.memory, l, n)) \/ x.id >= r.next

LEMMA CommitAdds ==
  ASSUME LogAssumption, NEW r, RunInv(r), NEW markers \in SUBSET (Markers \ {ToneMarker}),
         NEW bodies, Bodies(bodies, markers)
  PROVE  Adds(Commit(r, bodies), r, markers) /\ Commit(r, bodies).next = r.next + Len(bodies)
<1> DEFINE ops == OpsOf(r, bodies)
           r2 == Commit(r, bodies)
<1>1. r2 = [r EXCEPT !.memory = ApplyPending(@, ops), !.next = @ + Len(ops)]
  BY DEF Commit, OpsOf
<1>2. r.next \in Nat /\ r.tick \in Nat /\ r.next \in Int /\ r.tick \in Int /\ DOMAIN r = RunFields
      /\ MemoryInv(r.memory, r.next, r.tick)
  BY DEF RunInv
<1> HIDE DEF ops, r2
<1>3. /\ DOMAIN r2 = RunFields /\ r2.memory = ApplyPending(r.memory, ops)
      /\ r2.next = r.next + Len(ops) /\ r2.handled = r.handled /\ r2.tick = r.tick
      /\ r2.updates = r.updates
  BY <1>1, <1>2 DEF RunFields
<1>4. CASE bodies = <<>>
  <2>1. ops = <<>> /\ Len(ops) = 0
    BY <1>4, NoList DEF ops, OpsOf
  <2>2. r2.memory = r.memory /\ r2.next = r.next
    BY <1>2, <1>3, <2>1 DEF ApplyPending
  <2> QED
    BY <1>2, <1>3, <1>4, <2>1, <2>2, NoList DEF Adds, Shows, RunInv, r2
<1>5. CASE bodies # <<>>
  <2>1. /\ NewOps(ops, r.next, r.tick) /\ Len(ops) = Len(bodies)
        /\ \A op \in Range(ops) : op.marker \in markers
    BY <1>2, <1>5, OpsAreNew DEF ops
  <2>2. Len(ops) \in Nat /\ IsList(ops) /\ ops # <<>>
        /\ \A op \in Range(ops) : op.tick = r.tick /\ op.id >= r.next
    BY <2>1, ListIs DEF NewOps
  <2>3. MemoryInv(r2.memory, r2.next, r2.tick) /\ Sees(r2.memory, r.memory, ops)
    BY <1>2, <1>3, <2>1, AppliedKeeps, AppliedSees
  <2>4. r2.memory.tone = r.memory.tone
    BY <1>3, <2>1, <2>2, NoTone
  <2>5. r2.next \in Nat /\ r.next <= r2.next
    BY <1>2, <1>3, <2>2
  <2>6. RunInv(r2)
    BY <1>2, <1>3, <2>3, <2>5 DEF RunInv
  <2>7. ASSUME NEW l \in Ordered, NEW x \in Range(r2.memory.lists[l]), x \notin Range(r.memory.lists[l])
        PROVE  x.marker \in markers /\ x.tick = r.tick /\ x.id >= r.next
    BY <2>1, <2>2, <2>3, <2>7 DEF Sees
  <2>8. ASSUME NEW l \in Ordered, NEW n \in Nat, NEW x \in Range(RecentOf(r2.memory, l, n)),
               x \notin Range(RecentOf(r.memory, l, n))
        PROVE  x.marker \in markers /\ ListOf(x) = l /\ x.id >= r.next
    BY <2>1, <2>2, <2>3, <2>8 DEF Sees
  <2> QED
    BY <1>3, <2>1, <2>4, <2>5, <2>6, <2>7, <2>8 DEF Adds, Shows, r2
<1> QED
  BY <1>4, <1>5


(***************************************************************************)
(* Frames and windows                                                      *)
(***************************************************************************)
LEMMA MergedIs ==
  ASSUME NEW T, NEW s \in Seq(T), NEW f \in T
  PROVE  Merged(s, f) \in Seq(T)
<1> DEFINE P == {i \in DOMAIN s : s[i].tick <= f.tick}
<1>1. P \in SUBSET (1 .. Len(s)) /\ DOMAIN s \ P \in SUBSET (1 .. Len(s))
  OBVIOUS
<1>2. Merged(s, f) = Picked(s, P) \o <<f>> \o Picked(s, DOMAIN s \ P)
  BY DEF Merged
<1> HIDE DEF P
<1>3. Picked(s, P) \in Seq(T) /\ Picked(s, DOMAIN s \ P) \in Seq(T)
  BY <1>1, PickedIs
<1>4. <<f>> \in Seq(T)
  OBVIOUS
<1> QED
  BY <1>2, <1>3, <1>4

\* All frames are frames of the two lists.
LEMMA FramesAre ==
  ASSUME NEW m, NEW T, m.lists["raw_frames"] \in Seq(T), m.lists["thought_frames"] \in Seq(T)
  PROVE  AllFrames(m) \in Seq(T)
<1> DEFINE raw == m.lists["raw_frames"]
           list == m.lists["thought_frames"]
           n == Len(list)
           X == Seq(T)
           step == [p \in X \X (1 .. n) |-> Merged(p[1], list[p[2]])]
           Merges(f) == f = [s \in SUBSET (1 .. n) |->
                              IF s = {} THEN raw ELSE Merged(f[s \ {Max(s)}], list[Max(s)])]
           iter == CHOOSE f : Merges(f)
<1>1. n \in Nat /\ DOMAIN list = 1 .. n /\ (\A i \in 1 .. n : list[i] \in T) /\ raw \in X
  OBVIOUS
<1>2. AllFrames(m) = iter[1 .. n]
  BY <1>1 DEF AllFrames, FoldLeft, MapThenFoldSet
<1> HIDE DEF X, n, list, raw
<1>3. ASSUME NEW s \in SUBSET (1 .. n), s # {}
      PROVE  Max(s) \in 1 .. n /\ s \ {Max(s)} \in SUBSET (1 .. n)
  <2>1. Max(s) \in s
    BY <1>1, <1>3, GreatestIs
  <2> QED
    BY <2>1
<1>4. step \in [X \X (1 .. n) -> X]
  <2>1. ASSUME NEW p \in X \X (1 .. n) PROVE Merged(p[1], list[p[2]]) \in X
    <3>1. p[1] \in X /\ p[2] \in 1 .. n
      OBVIOUS
    <3>2. list[p[2]] \in T
      BY <1>1, <3>1
    <3> QED
      BY <3>1, <3>2, MergedIs DEF X
  <2> QED
    BY <2>1
<1>5. PICK f \in [SUBSET (1 .. n) -> X] : Folded(f, raw, step)
  <2> HIDE DEF step
  <2>1. Foldable(X, raw, step, n)
    BY <1>1, <1>4, FoldsExist
  <2> QED
    BY <2>1 DEF Foldable
<1>6. Merges(f)
  <2>1. ASSUME NEW s \in SUBSET (1 .. n)
        PROVE  f[s] = IF s = {} THEN raw ELSE Merged(f[s \ {Max(s)}], list[Max(s)])
    <3>1. CASE s = {}
      BY <1>5, <3>1 DEF Folded
    <3>2. CASE s # {}
      <4> DEFINE p == <<f[s \ {Max(s)}], Max(s)>>
      <4>1. f[s] = step[p]
        BY <1>5, <3>2 DEF Folded
      <4>2. p \in X \X (1 .. n)
        BY <1>3, <1>5, <3>2
      <4>3. step[p] = Merged(p[1], list[p[2]])
        BY <4>2
      <4> HIDE DEF step
      <4> QED
        BY <3>2, <4>1, <4>3
    <3> QED
      BY <3>1, <3>2
  <2> QED
    BY <1>5, <2>1
<1> HIDE DEF step
<1>7. Merges(iter)
  BY <1>6
<1> HIDE DEF iter
<1> DEFINE Good == {k \in Nat : k <= n => iter[1 .. k] \in X}
<1>8. 0 \in Good
  <2>1. 1 .. 0 = {} /\ {} \in SUBSET (1 .. n)
    OBVIOUS
  <2> QED
    BY <1>1, <1>7, <2>1
<1>9. ASSUME NEW k \in Nat, k \in Good PROVE k + 1 \in Good
  <2>1. SUFFICES ASSUME k + 1 <= n PROVE iter[1 .. k + 1] \in X
    OBVIOUS
  <2> DEFINE s == 1 .. k + 1
  <2>2. s \in SUBSET (1 .. n) /\ s # {} /\ k + 1 \in s /\ s \ {k + 1} = 1 .. k
    <3>1. n \in Nat /\ k \in Nat /\ k + 1 <= n
      BY <1>1, <2>1
    <3> QED
      BY ONLY <3>1 DEF s
  <2>3. Max(s) = k + 1
    <3>1. Max(s) \in s /\ k + 1 <= Max(s)
      BY <1>1, <2>2, GreatestIs
    <3> QED
      BY <3>1
  <2>4. iter[s] = Merged(iter[1 .. k], list[k + 1])
    <3>1. iter[s] = Merged(iter[s \ {Max(s)}], list[Max(s)])
      BY <1>7, <2>2
    <3> HIDE DEF s
    <3> QED
      BY <2>2, <2>3, <3>1
  <2>5. iter[1 .. k] \in X /\ list[k + 1] \in T
    BY <1>1, <1>9, <2>1
  <2>6. Merged(iter[1 .. k], list[k + 1]) \in X
    BY <2>5, MergedIs DEF X
  <2> QED
    BY <2>4, <2>6
<1> HIDE DEF Good
<1>10. n \in Good
  BY <1>1, <1>8, <1>9, NatSets
<1> QED
  BY <1>1, <1>2, <1>10 DEF Good, X

\* A window is of the ticks of frames.
LEMMA WindowIs ==
  ASSUME NEW m, NEW T, m.lists["raw_frames"] \in Seq(T), m.lists["thought_frames"] \in Seq(T),
         NEW n \in Nat, NEW source
  PROVE  BuildWindow(m, n, source) \in Seq([from : {f.tick : f \in T}, tick : {f.tick : f \in T}])
<1> DEFINE frames == AllFrames(m)
           P == {i \in DOMAIN frames : frames[i].source = source}
           part == Picked(frames, P)
           shown == LastOf(part, n)
           W == [from : {f.tick : f \in T}, tick : {f.tick : f \in T}]
<1>1. frames \in Seq(T)
  BY FramesAre
<1> HIDE DEF frames
<1>2. P \in SUBSET (1 .. Len(frames))
  BY <1>1
<1> HIDE DEF P
<1>3. part \in Seq(T)
  BY <1>1, <1>2, PickedIs
<1> HIDE DEF part
<1>4. IsList(part) /\ Range(part) \subseteq T
  BY <1>3, SequencesAreLists
<1>5. IsList(shown) /\ Range(shown) \subseteq T
  <2>1. Ends(shown, part)
    BY <1>4, LastEnds
  <2> HIDE DEF shown
  <2> QED
    BY <1>4, <2>1, EndsAreParts DEF Ends
<1>6. BuildWindow(m, n, source) = IF shown = <<>> THEN <<>>
                                  ELSE <<[from |-> Head(shown).tick, tick |-> Last(shown).tick]>>
  BY DEF BuildWindow, shown, part, P, frames
<1> HIDE DEF shown
<1>7. CASE shown = <<>>
  BY <1>6, <1>7
<1>8. CASE shown # <<>>
  <2>1. 1 \in 1 .. Len(shown) /\ Len(shown) \in 1 .. Len(shown)
    <3>1. Len(shown) \in Nat /\ Len(shown) # 0
      BY <1>5, <1>8, ListIs
    <3> QED
      BY <3>1
  <2>2. Head(shown) = shown[1] /\ Last(shown) = shown[Len(shown)]
    BY <1>5, <1>8 DEF IsList, Last
  <2>3. shown[1] \in T /\ shown[Len(shown)] \in T
    BY <1>5, <2>1, ListIs
  <2>4. Head(shown) \in T /\ Last(shown) \in T
    BY <2>2, <2>3
  <2> HIDE DEF W
  <2>6. \A f \in T, g \in T : [from |-> f.tick, tick |-> g.tick] \in W
    BY DEF W
  <2>5. BuildWindow(m, n, source) \in Seq(W)
    BY <1>6, <1>8, <2>4, <2>6
  <2> QED
    BY <2>5 DEF W
<1> QED
  BY <1>7, <1>8

\* What the modules look at.
Looks(looked) == IsList(looked) /\ \A x \in Range(looked) : x.n \in Nat

\* Windows are written down next to the rest.
LEMMA WindowsAdded ==
  ASSUME NEW m, NEW next \in Int, NEW tick \in Int, MemoryInv(m, next, tick),
         NEW looked, Looks(looked)
  PROVE  LET m2 == AddWindows(m, looked)
         IN  /\ MemoryInv(m2, next, tick)
             /\ m2.events = m.events /\ m2.tone = m.tone
             /\ \A l \in Ordered : m2.lists[l] = m.lists[l]
<1> DEFINE raw == m.lists["raw_frames"]
           list == m.lists["thought_frames"]
           T == Range(raw) \cup Range(list)
           W == [from : {f.tick : f \in T}, tick : {f.tick : f \in T}]
           built == [i \in DOMAIN looked |-> BuildWindow(m, looked[i].n, looked[i].source)]
           flat == FlattenSeq(built)
           old == m.lists["windows"]
           m2 == AddWindows(m, looked)
<1>1. "raw_frames" \in Ordered /\ "thought_frames" \in Ordered /\ "windows" \notin Ordered
      /\ "windows" \in SideLists /\ Ordered \subseteq SideLists /\ SideLists = Ordered \cup {"windows"}
  BY DEF Ordered, SideLists, FrameLists
<1>2. IsList(raw) /\ IsList(list) /\ IsList(old)
  BY <1>1 DEF MemoryInv, ListInv
<1>3. raw \in Seq(T) /\ list \in Seq(T)
  BY <1>2 DEF IsList
<1>4. DOMAIN m = {"events", "lists", "tone"} /\ DOMAIN m.lists = SideLists
  BY DEF MemoryInv, LogInv
<1>5. m2 = [m EXCEPT !.lists["windows"] = old \o flat]
  BY DEF AddWindows
<1> HIDE DEF T, raw, list, old, m2
<1>6. built \in Seq(Seq(W))
  <2>1. Len(looked) \in Nat /\ DOMAIN looked = 1 .. Len(looked)
        /\ \A i \in 1 .. Len(looked) : looked[i].n \in Nat
    BY ListIs DEF Looks
  <2>2. \A i \in 1 .. Len(looked) : BuildWindow(m, looked[i].n, looked[i].source) \in Seq(W)
    BY <1>3, <2>1, WindowIs DEF raw, list
  <2> HIDE DEF W
  <2>3. built = [i \in 1 .. Len(looked) |-> BuildWindow(m, looked[i].n, looked[i].source)]
    BY <2>1
  <2> QED
    BY <2>1, <2>2, <2>3
<1> HIDE DEF built
<1>7. flat \in Seq(W)
  BY <1>6, FlatIs
<1> HIDE DEF flat
<1>8. IsList(flat) /\ Range(flat) \subseteq W
  BY <1>7, SequencesAreLists
<1>9. IsList(old \o flat) /\ Range(old \o flat) = Range(old) \cup Range(flat)
  BY <1>2, <1>8, JoinLists
<1> DEFINE joined == old \o flat
<1> HIDE DEF joined
<1>10. /\ DOMAIN m2 = {"events", "lists", "tone"} /\ DOMAIN m2.lists = SideLists
       /\ m2.events = m.events /\ m2.tone = m.tone
       /\ m2.lists["windows"] = joined
       /\ \A l \in Ordered : m2.lists[l] = m.lists[l]
  BY <1>1, <1>4, <1>5 DEF joined
<1>11. ASSUME NEW w \in W
       PROVE  /\ w.tick \in Int /\ w.tick <= tick
              /\ m.events # <<>> /\ w.tick >= m.events[1].tick
  <2>1. PICK g \in T : w.tick = g.tick
    OBVIOUS
  <2>2. PICK l \in Ordered : g \in Range(m.lists[l])
    BY <1>1, <2>1 DEF T, raw, list
  <2>3. g.tick \in Int /\ g.tick <= tick
    BY <2>2 DEF MemoryInv, ListInv, Known
  <2>4. m.lists[l] # <<>> /\ l \in SideLists
    BY <1>1, <2>2, NoList
  <2>5. m.events # <<>> /\ g.tick >= m.events[1].tick
    BY <2>2, <2>4 DEF MemoryInv, ViewInv
  <2> QED
    BY <2>1, <2>3, <2>5
<1> HIDE DEF W
<1>12. LogInv(m2, next, tick)
  BY <1>10 DEF MemoryInv, LogInv
<1>13. ListInv(m2, next, tick)
  <2>1. \A w \in Range(joined) : w.tick \in Int /\ w.tick <= tick
    BY <1>8, <1>9, <1>11 DEF joined, MemoryInv, ListInv, old
  <2> QED
    BY <1>9, <1>10, <2>1 DEF MemoryInv, ListInv, joined
<1>14. ViewInv(m2)
  <2>1. ASSUME m.events = <<>> PROVE joined = <<>>
    <3>1. old = <<>>
      BY <1>1, <2>1 DEF MemoryInv, ViewInv, old
    <3>2. Range(flat) = {}
      BY <1>8, <1>11, <2>1
    <3>3. Range(joined) = {} /\ IsList(joined)
      BY <1>9, <3>1, <3>2, NoList DEF joined
    <3>4. Len(joined) \in Nat /\ (Len(joined) # 0 => joined[1] \in Range(joined)) /\ (Len(joined) = 0 <=> joined = <<>>)
      <4>1. Len(joined) \in Nat /\ (Len(joined) = 0 <=> joined = <<>>)
            /\ \A i \in 1 .. Len(joined) : joined[i] \in Range(joined)
        BY <3>3, ListIs
      <4>2. Len(joined) # 0 => 1 \in 1 .. Len(joined)
        BY <4>1
      <4> QED
        BY <4>1, <4>2
    <3> QED
      BY <3>3, <3>4
  <2>2. ASSUME m.events # <<>>, NEW w \in Range(joined) PROVE w.tick >= m.events[1].tick
    <3>1. CASE w \in Range(old)
      BY <1>1, <2>2, <3>1 DEF MemoryInv, ViewInv, old
    <3>2. CASE w \in Range(flat)
      BY <1>8, <1>11, <3>2
    <3> QED
      BY <1>9, <2>2, <3>1, <3>2 DEF joined
  <2>3. \A e \in Range(m.events) : ListOf(e) \in Ordered
    BY ListsAreNamed DEF MemoryInv, LogInv, Known
  <2> QED
    BY <1>1, <1>10, <2>1, <2>2, <2>3 DEF MemoryInv, ViewInv
<1> QED
  BY <1>10, <1>12, <1>13, <1>14 DEF MemoryInv, m2


(***************************************************************************)
(* The tone                                                                *)
(***************************************************************************)
\* f is the tone after the updates at each set of positions of u.
ToneMoves(f, n, u) ==
    f = [s \in SUBSET (1 .. n) |->
            IF s = {} THEN InitialTone ELSE Updated(f[s \ {Max(s)}], u[Max(s)])]

LEMMA WithoutLast ==
  ASSUME NEW n \in Nat, NEW s \in SUBSET (1 .. n + 1), s # {}
  PROVE  Max(s) \in 1 .. n + 1 /\ s \ {Max(s)} \in SUBSET (1 .. n)
<1>1. Max(s) \in s /\ \A x \in s : x <= Max(s)
  <2>1. n + 1 \in Nat
    OBVIOUS
  <2> QED
    BY <2>1, GreatestIs
<1>2. ASSUME NEW x \in s, x # Max(s) PROVE x \in 1 .. n
  <2>1. x <= Max(s) /\ x \in 1 .. n + 1 /\ Max(s) \in 1 .. n + 1
    BY <1>1
  <2> QED
    BY <1>2, <2>1
<1> QED
  BY <1>1, <1>2

LEMMA ToneMovesExist ==
  ASSUME NEW n \in Nat, NEW u
  PROVE  \E f : ToneMoves(f, n, u)
<1> DEFINE Good == {k \in Nat : \E f : ToneMoves(f, k, u)}
<1>1. 0 \in Good
  <2> DEFINE f == [s \in SUBSET (1 .. 0) |-> InitialTone]
  <2>1. \A s \in SUBSET (1 .. 0) : s = {}
    OBVIOUS
  <2>2. ToneMoves(f, 0, u)
    BY <2>1 DEF ToneMoves
  <2> HIDE DEF f
  <2> QED
    BY <2>2
<1>2. ASSUME NEW k \in Nat, k \in Good PROVE k + 1 \in Good
  <2>1. PICK g : ToneMoves(g, k, u)
    BY <1>2
  <2> DEFINE h == [s \in SUBSET (1 .. k + 1) |->
                      IF s = {} THEN InitialTone ELSE Updated(g[s \ {Max(s)}], u[Max(s)])]
  <2>2. ASSUME NEW t \in SUBSET (1 .. k) PROVE h[t] = g[t]
    <3>1. t \in SUBSET (1 .. k + 1)
      OBVIOUS
    <3>2. h[t] = IF t = {} THEN InitialTone ELSE Updated(g[t \ {Max(t)}], u[Max(t)])
      BY <3>1
    <3>3. g[t] = IF t = {} THEN InitialTone ELSE Updated(g[t \ {Max(t)}], u[Max(t)])
      BY <2>1 DEF ToneMoves
    <3> HIDE DEF h
    <3> QED
      BY <3>2, <3>3
  <2>3. ASSUME NEW s \in SUBSET (1 .. k + 1)
        PROVE  h[s] = IF s = {} THEN InitialTone ELSE Updated(h[s \ {Max(s)}], u[Max(s)])
    <3>1. CASE s = {}
      BY <3>1
    <3>2. CASE s # {}
      <4>1. h[s \ {Max(s)}] = g[s \ {Max(s)}]
        BY <2>2, <3>2, WithoutLast
      <4>2. h[s] = Updated(g[s \ {Max(s)}], u[Max(s)])
        BY <3>2
      <4> HIDE DEF h
      <4> QED
        BY <3>2, <4>1, <4>2
    <3> QED
      BY <3>1, <3>2
  <2>4. h = [s \in SUBSET (1 .. k + 1) |-> h[s]]
    OBVIOUS
  <2> HIDE DEF h
  <2>5. ToneMoves(h, k + 1, u)
    BY <2>3, <2>4 DEF ToneMoves
  <2> QED
    BY <2>5
<1> HIDE DEF Good
<1>3. n \in Good
  BY <1>1, <1>2, NatSets
<1> QED
  BY <1>3 DEF Good

LEMMA ToneStep ==
  ASSUME NEW n \in Nat, NEW u, NEW f, ToneMoves(f, n, u), NEW k \in Nat, k + 1 <= n
  PROVE  f[1 .. k + 1] = Updated(f[1 .. k], u[k + 1])
<1> DEFINE s == 1 .. k + 1
<1>1. s \in SUBSET (1 .. n) /\ s # {} /\ k + 1 \in s /\ s \ {k + 1} = 1 .. k
  OBVIOUS
<1>2. Max(s) = k + 1
  <2>1. Max(s) \in s /\ k + 1 <= Max(s)
    BY <1>1, GreatestIs
  <2> QED
    BY <2>1
<1>3. f[s] = Updated(f[s \ {Max(s)}], u[Max(s)])
  <2> HIDE DEF s
  <2> QED
    BY <1>1 DEF ToneMoves
<1> HIDE DEF s
<1> QED
  BY <1>1, <1>2, <1>3 DEF s

LEMMA ToneIs ==
  ASSUME NEW u, IsList(u)
  PROVE  \E f : ToneMoves(f, Len(u), u) /\ ToneAfter(u) = f[1 .. Len(u)]
<1> DEFINE n == Len(u)
           iter == CHOOSE f : ToneMoves(f, n, u)
<1>1. n \in Nat /\ DOMAIN u = 1 .. n
  BY ListIs
<1>2. ToneAfter(u) = iter[1 .. n]
  BY <1>1 DEF ToneAfter, FoldLeft, MapThenFoldSet, ToneMoves
<1> HIDE DEF n
<1>3. ToneMoves(iter, n, u)
  BY <1>1, ToneMovesExist
<1> HIDE DEF iter
<1> QED
  BY <1>2, <1>3 DEF n

LEMMA FirstTone == ToneAfter(<<>>) = InitialTone
<1>1. PICK f : ToneMoves(f, 0, <<>>) /\ ToneAfter(<<>>) = f[1 .. 0]
  BY NoList, ToneIs
<1>2. 1 .. 0 = {} /\ {} \in SUBSET (1 .. 0)
  OBVIOUS
<1> QED
  BY <1>1, <1>2 DEF ToneMoves

\* One more update moves the tone on.
LEMMA ToneMovesOn ==
  ASSUME NEW u, IsList(u), NEW x
  PROVE  ToneAfter(Append(u, x)) = Updated(ToneAfter(u), x)
<1> DEFINE n == Len(u)
           v == Append(u, x)
<1>1. /\ n \in Nat /\ IsList(v) /\ Len(v) = n + 1 /\ v[n + 1] = x
      /\ \A i \in 1 .. n : v[i] = u[i]
  BY AppendLists, ListIs
<1> HIDE DEF v
<1>2. PICK f : ToneMoves(f, n, u) /\ ToneAfter(u) = f[1 .. n]
  BY ToneIs
<1>3. PICK g : ToneMoves(g, n + 1, v) /\ ToneAfter(v) = g[1 .. n + 1]
  BY <1>1, ToneIs
<1> HIDE DEF n
<1> DEFINE Good == {k \in Nat : k <= n => f[1 .. k] = g[1 .. k]}
<1>4. 0 \in Good
  <2>1. 1 .. 0 = {} /\ {} \in SUBSET (1 .. n) /\ {} \in SUBSET (1 .. n + 1)
    OBVIOUS
  <2>2. f[{}] = InitialTone /\ g[{}] = InitialTone
    BY <1>2, <1>3, <2>1 DEF ToneMoves
  <2> QED
    BY <2>1, <2>2
<1>5. ASSUME NEW k \in Nat, k \in Good PROVE k + 1 \in Good
  <2>1. SUFFICES ASSUME k + 1 <= n PROVE f[1 .. k + 1] = g[1 .. k + 1]
    OBVIOUS
  <2>2. f[1 .. k + 1] = Updated(f[1 .. k], u[k + 1])
    BY <1>1, <1>2, <2>1, ToneStep
  <2>3. n + 1 \in Nat /\ k + 1 <= n + 1 /\ k + 1 \in 1 .. n /\ k <= n
    BY <1>1, <2>1
  <2>4. g[1 .. k + 1] = Updated(g[1 .. k], v[k + 1])
    BY <1>3, <2>3, ToneStep
  <2>5. f[1 .. k] = g[1 .. k] /\ v[k + 1] = u[k + 1]
    BY <1>1, <1>5, <2>3
  <2> QED
    BY <2>2, <2>4, <2>5
<1> HIDE DEF Good
<1>6. n \in Good
  BY <1>1, <1>4, <1>5, NatSets
<1>7. f[1 .. n] = g[1 .. n]
  BY <1>1, <1>6 DEF Good
<1>8. g[1 .. n + 1] = Updated(g[1 .. n], v[n + 1])
  <2>1. n + 1 \in Nat /\ n + 1 <= n + 1
    BY <1>1
  <2> QED
    BY <1>1, <1>3, <2>1, ToneStep
<1> QED
  BY <1>1, <1>2, <1>3, <1>7, <1>8 DEF v


(***************************************************************************)
(* Updates of the tone and what they are based on                          *)
(***************************************************************************)
\* Two updates are based on the same only where it was told as a relief; that may
\* be in the basis of two, and of one while no handler has seen it.
Twice(updates, e, handled) ==
    \E a, b : /\ \A i \in DOMAIN updates : e \in updates[i].based => i = a \/ i = b
              /\ e \notin handled => a = b

FeltInv(r, eased) ==
    /\ IsList(r.updates)
    /\ \A e \in r.handled \cup eased : e \in Int /\ e < r.next
    /\ \A i \in DOMAIN r.updates : r.updates[i].based \subseteq r.handled \cup eased
    /\ \A i, j \in DOMAIN r.updates :
          i # j => r.updates[i].based \cap r.updates[j].based \subseteq eased
    /\ \A e \in eased : Twice(r.updates, e, r.handled)
    /\ r.memory.tone = ToneAfter(r.updates)

\* One more update, based on what no handler has seen.
LEMMA FeltMovesOn ==
  ASSUME NEW s, NEW eased, FeltInv(s, eased), NEW r, NEW eased2, NEW delta, NEW ids,
         r.updates = Append(s.updates, [delta |-> delta, based |-> ids]),
         r.memory.tone = Shifted(s.memory.tone, delta),
         s.handled \subseteq r.handled, eased \subseteq eased2,
         ids \cap s.handled = {}, ids \subseteq r.handled \cup eased2,
         \A e \in r.handled \cup eased2 : e \in Int /\ e < r.next,
         \A e \in ids \cap eased : e \in r.handled,
         \A e \in eased2 \ eased : e \notin s.handled
  PROVE  FeltInv(r, eased2)
<1> DEFINE n == Len(s.updates)
           based(i) == r.updates[i].based
           x == [delta |-> delta, based |-> ids]
<1>1. /\ IsList(r.updates) /\ Len(r.updates) = n + 1 /\ r.updates[n + 1] = x
      /\ \A i \in 1 .. n : r.updates[i] = s.updates[i]
  BY AppendLists DEF FeltInv
<1>2. n \in Nat /\ DOMAIN s.updates = 1 .. n
  BY ListIs DEF FeltInv
<1>3. DOMAIN r.updates = 1 .. n + 1
  BY <1>1, ListIs
<1>4. based(n + 1) = ids
  BY <1>1
<1>5. \A i \in 1 .. n : based(i) = s.updates[i].based
  BY <1>1
<1>6. \A i \in 1 .. n + 1 : i \in 1 .. n \/ i = n + 1
  BY <1>2
<1>7. r.memory.tone = ToneAfter(r.updates)
  <2>1. ToneAfter(r.updates) = Updated(ToneAfter(s.updates), x)
    BY ToneMovesOn DEF FeltInv
  <2>2. Updated(ToneAfter(s.updates), x) = Shifted(s.memory.tone, delta)
    BY DEF Updated, FeltInv
  <2> QED
    BY <2>1, <2>2
<1> HIDE DEF based, n
<1>8. \A i \in 1 .. n : based(i) \subseteq s.handled \cup eased
  BY <1>2, <1>5 DEF FeltInv
<1>9. \A i \in 1 .. n + 1 : based(i) \subseteq r.handled \cup eased2
  BY <1>4, <1>6, <1>8
<1>10. ASSUME NEW i \in 1 .. n + 1, NEW j \in 1 .. n + 1, i # j, NEW e, e \in based(i), e \in based(j)
       PROVE  e \in eased2
  <2>1. CASE i \in 1 .. n /\ j \in 1 .. n
    <3>1. based(i) \cap based(j) \subseteq eased
      BY <1>2, <1>5, <1>10, <2>1 DEF FeltInv
    <3> QED
      BY <1>10, <3>1
  <2>2. CASE i = n + 1 \/ j = n + 1
    <3>1. e \in ids /\ e \in s.handled \cup eased
      BY <1>4, <1>6, <1>8, <1>10, <2>2
    <3> QED
      BY <3>1
  <2> QED
    BY <1>6, <2>1, <2>2
<1>11. ASSUME NEW e \in eased2
       PROVE  Twice(r.updates, e, r.handled)
  <2>1. CASE e \notin eased
    <3>1. \A i \in 1 .. n : e \notin based(i)
      BY <1>8, <1>11, <2>1
    <3>2. \A i \in 1 .. n + 1 : e \in based(i) => i = n + 1
      BY <1>6, <3>1
    <3> QED
      BY <1>3, <3>2 DEF Twice, based
  <2>2. CASE e \in eased
    <3>0. Twice(s.updates, e, s.handled)
      BY <2>2 DEF FeltInv
    <3>4. PICK a, b : /\ \A i \in DOMAIN s.updates : e \in s.updates[i].based => i = a \/ i = b
                      /\ e \notin s.handled => a = b
      BY <3>0 DEF Twice
    <3>1. /\ \A i \in 1 .. n : e \in based(i) => i = a \/ i = b
          /\ e \notin s.handled => a = b
      BY <1>2, <1>5, <3>4
    <3>2. CASE e \in ids
      <4>1. a = b /\ e \in r.handled
        BY <2>2, <3>1, <3>2
      <4>2. \A i \in 1 .. n + 1 : e \in based(i) => i = a \/ i = n + 1
        BY <1>6, <3>1, <4>1
      <4> QED
        BY <1>3, <4>1, <4>2 DEF Twice, based
    <3>3. CASE e \notin ids
      <4>1. \A i \in 1 .. n + 1 : e \in based(i) => i = a \/ i = b
        BY <1>4, <1>6, <3>1, <3>3
      <4> QED
        BY <1>3, <3>1, <4>1 DEF Twice, based
    <3> QED
      BY <3>2, <3>3
  <2> QED
    BY <2>1, <2>2
<1>12. \A i \in DOMAIN r.updates : r.updates[i].based \subseteq r.handled \cup eased2
  BY <1>3, <1>9 DEF based
<1>13. \A i, j \in DOMAIN r.updates :
         i # j => r.updates[i].based \cap r.updates[j].based \subseteq eased2
  BY <1>3, <1>10 DEF based
<1> QED
  BY <1>1, <1>7, <1>11, <1>12, <1>13 DEF FeltInv

\* What Emit does to a run.
Emitted(r, s, delta, ids) ==
    /\ RunInv(r) /\ r.next = s.next + 1 /\ r.handled = s.handled /\ r.tick = s.tick
    /\ r.updates = Append(s.updates, [delta |-> delta, based |-> ids])
    /\ r.memory.tone = Shifted(s.memory.tone, delta)
    /\ Shows(r.memory, s.memory, {ToneMarker}, s.tick)

LEMMA EmitIs ==
  ASSUME LogAssumption, NEW s, RunInv(s), NEW delta, NEW ids
  PROVE  Emitted(Emit(s, delta, ids), s, delta, ids)
<1> DEFINE op == [id |-> s.next, marker |-> ToneMarker, tick |-> s.tick,
                  tone |-> Shifted(s.memory.tone, delta)]
           ops == <<op>>
           r == Emit(s, delta, ids)
           shifted == Shifted(s.memory.tone, delta)
<1>1. r = [s EXCEPT !.memory = ApplyPending(@, ops), !.next = @ + 1,
                    !.updates = Append(@, [delta |-> delta, based |-> ids])]
  BY DEF Emit
<1>2. s.next \in Nat /\ s.tick \in Nat /\ s.next \in Int /\ s.tick \in Int /\ DOMAIN s = RunFields
      /\ MemoryInv(s.memory, s.next, s.tick)
  BY DEF RunInv
<1> HIDE DEF r, shifted
<1>3. /\ op.id = s.next /\ op.marker = ToneMarker /\ op.tick = s.tick /\ op.tone = shifted
      /\ "from" \notin DOMAIN op
  BY DEF shifted
<1> HIDE DEF op
<1>4. /\ DOMAIN r = RunFields /\ r.memory = ApplyPending(s.memory, ops)
      /\ r.next = s.next + 1 /\ r.handled = s.handled /\ r.tick = s.tick
      /\ r.updates = Append(s.updates, [delta |-> delta, based |-> ids])
  BY <1>1, <1>2 DEF RunFields
<1>5. /\ ops \in Seq({op}) /\ Len(ops) = 1 /\ DOMAIN ops = {1} /\ ops[1] = op /\ ops # <<>>
      /\ \A x \in Range(ops) : x = op
  BY DEF Range
<1>6. IsList(ops)
  BY <1>5, SequencesAreLists
<1>7. ToneMarker \in Markers /\ ToneMarker \notin FrameMarkers
  BY DEF ToneMarker, Markers, FrameMarkers
<1> HIDE DEF ops
<1>8. NewOps(ops, s.next, s.tick)
  <2>1. InTime(ops)
    BY <1>2, <1>3, <1>5 DEF InTime
  <2>2. Known(op, s.next + Len(ops), s.tick)
    BY <1>2, <1>3, <1>5, <1>7 DEF Known
  <2> QED
    BY <1>2, <1>3, <1>5, <1>6, <2>1, <2>2 DEF NewOps
<1>9. /\ MemoryInv(r.memory, s.next + Len(ops), s.tick)
      /\ Sees(r.memory, s.memory, ops)
  BY <1>2, <1>4, <1>8, AppliedKeeps, AppliedSees
<1>10. RunInv(r)
  BY <1>2, <1>4, <1>5, <1>9 DEF RunInv
<1>11. Shows(r.memory, s.memory, {ToneMarker}, s.tick)
  BY <1>3, <1>5, <1>9 DEF Shows, Sees
<1>12. r.memory.tone = shifted
  <2>1. ApplyPending(s.memory, <<op>>).tone = op.tone
    BY <1>3, OneTone
  <2> QED
    BY <1>3, <1>4, <2>1 DEF ops
<1> QED
  BY <1>4, <1>10, <1>11, <1>12 DEF Emitted, r, shifted


(***************************************************************************)
(* The handlers                                                            *)
(***************************************************************************)
\* What is picked from a list.
LEMMA PickedList ==
  ASSUME NEW s, IsList(s), NEW P \in SUBSET (1 .. Len(s))
  PROVE  IsList(Picked(s, P)) /\ Range(Picked(s, P)) = {s[i] : i \in P}
<1> DEFINE q == Picked(s, P)
<1>1. /\ q \in Seq(Range(s)) /\ Len(q) = Cardinality(P) /\ Cardinality(P) \in Nat
      /\ \A k \in 1 .. Cardinality(P) : q[k] = s[InOrder(P)[k]] /\ InOrder(P)[k] \in P
      /\ \A x \in P : \E k \in 1 .. Cardinality(P) : InOrder(P)[k] = x
  <2>1. s \in Seq(Range(s))
    BY DEF IsList
  <2> QED
    BY <2>1, PickedIs
<1> HIDE DEF q
<1>2. IsList(q)
  BY <1>1, SequencesAreLists
<1>3. DOMAIN q = 1 .. Cardinality(P)
  BY <1>1
<1>4. ASSUME NEW x \in Range(q) PROVE x \in {s[i] : i \in P}
  <2>1. PICK k \in 1 .. Cardinality(P) : x = q[k]
    BY <1>3 DEF Range
  <2>2. InOrder(P)[k] \in P /\ x = s[InOrder(P)[k]]
    BY <1>1, <2>1
  <2> QED
    BY <2>2
<1>5. ASSUME NEW i \in P PROVE s[i] \in Range(q)
  <2>1. PICK k \in 1 .. Cardinality(P) : InOrder(P)[k] = i
    BY <1>1
  <2>2. q[k] = s[i] /\ k \in DOMAIN q
    BY <1>1, <1>3, <2>1
  <2> QED
    BY <2>2 DEF Range
<1> QED
  BY <1>2, <1>4, <1>5 DEF q

\* The recent entries of a kind are known, and those a handler takes are among them.
RecentEntries(r, kind) == RecentOf(r.memory, kind, Window[kind])

LEMMA RecentAre ==
  ASSUME LogAssumption, WindowAssumption, NEW r, RunInv(r), NEW kind \in Markers \ FrameMarkers
  PROVE  /\ IsList(RecentEntries(r, kind))
         /\ Range(RecentEntries(r, kind)) \subseteq Range(r.memory.lists[kind])
         /\ \A x \in Range(RecentEntries(r, kind)) : Known(x, r.next, r.tick) /\ x.marker = kind
<1>1. kind \in Ordered /\ Window[kind] \in Nat
  BY ListsAreNamed DEF WindowAssumption
<1>2. /\ IsList(r.memory.lists[kind])
      /\ \A x \in Range(r.memory.lists[kind]) : Known(x, r.next, r.tick) /\ ListOf(x) = kind
  BY <1>1 DEF RunInv, MemoryInv, ListInv
<1>3. Ends(RecentEntries(r, kind), r.memory.lists[kind])
  BY <1>1, <1>2, LastEnds DEF RecentEntries, RecentOf
<1>4. Range(RecentEntries(r, kind)) \subseteq Range(r.memory.lists[kind])
  BY <1>2, <1>3, EndsAreParts
<1>5. \A x \in Range(r.memory.lists[kind]) : x.marker = kind
  BY <1>2, ListsAreNamed DEF Known
<1> QED
  BY <1>2, <1>3, <1>4, <1>5 DEF Ends

LEMMA UnhandledAre ==
  ASSUME LogAssumption, WindowAssumption, NEW r, RunInv(r), NEW kind \in Markers \ FrameMarkers,
         NEW ticks
  PROVE  LET q == Unhandled(r, kind, ticks)
         IN  /\ IsList(q)
             /\ Range(q) = {x \in Range(RecentEntries(r, kind)) :
                              x.tick \in ticks /\ x.id \notin r.handled}
<1> DEFINE recent == RecentEntries(r, kind)
           P == {i \in DOMAIN recent : recent[i].tick \in ticks /\ recent[i].id \notin r.handled}
           q == Unhandled(r, kind, ticks)
<1>1. q = Picked(recent, P)
  BY DEF Unhandled, RecentEntries
<1>2. IsList(recent)
  BY RecentAre
<1> HIDE DEF recent, q
<1>3. DOMAIN recent = 1 .. Len(recent)
  BY <1>2, ListIs
<1>4. IsList(q) /\ Range(q) = {recent[i] : i \in P}
  BY <1>1, <1>2, <1>3, PickedList
<1>5. {recent[i] : i \in P} =
        {x \in Range(recent) : x.tick \in ticks /\ x.id \notin r.handled}
  BY DEF Range
<1> QED
  BY <1>4, <1>5 DEF q, recent

\* A run in the tick of another that felt more, and shows no more but these markers.
Moves(r2, r, eased, markers) ==
    /\ RunInv(r2) /\ FeltInv(r2, eased)
    /\ r.next <= r2.next /\ r2.tick = r.tick /\ r.handled \subseteq r2.handled
    /\ Shows(r2.memory, r.memory, markers, r.tick)

\* All of a kind a handler sees of the tick is handled, or was told as a relief.
Heard(r, eased, kind) ==
    \A e \in Range(RecentEntries(r, kind)) : e.tick = r.tick => e.id \in r.handled \cup eased

LEMMA StaysHeard ==
  ASSUME LogAssumption, WindowAssumption, NEW r2, NEW r, NEW eased, NEW eased2, NEW markers, NEW tick,
         Shows(r2.memory, r.memory, markers, tick), r2.tick = r.tick,
         r.handled \subseteq r2.handled, eased \subseteq eased2, RunInv(r2),
         NEW kind \in Markers \ FrameMarkers, kind \notin markers, Heard(r, eased, kind)
  PROVE  Heard(r2, eased2, kind)
<1>1. kind \in Ordered /\ Window[kind] \in Nat
  BY ListsAreNamed DEF WindowAssumption
<1>2. ASSUME NEW x \in Range(RecentEntries(r2, kind)) PROVE x \in Range(RecentEntries(r, kind))
  <2>1. x.marker = kind
    BY RecentAre
  <2>2. x \in Range(RecentOf(r2.memory, kind, Window[kind]))
    BY DEF RecentEntries
  <2>3. x \in Range(RecentOf(r.memory, kind, Window[kind])) \/ x.marker \in markers
    BY <1>1, <2>2 DEF Shows
  <2> QED
    BY <2>1, <2>3 DEF RecentEntries
<1> QED
  BY <1>2 DEF Heard

\* What several steps show.
LEMMA ShowsOn ==
  ASSUME NEW m3, NEW m2, NEW m, NEW a, NEW b, NEW tick, Shows(m3, m2, a, tick), Shows(m2, m, b, tick)
  PROVE  Shows(m3, m, a \cup b, tick)
  BY DEF Shows

LEMMA MovesOn ==
  ASSUME NEW r3, NEW r2, NEW r, NEW eased, NEW a, NEW b,
         RunInv(r), Moves(r3, r2, eased, a), Moves(r2, r, eased, b)
  PROVE  Moves(r3, r, eased, a \cup b)
<1>1. r.next <= r3.next
  BY DEF Moves, RunInv
<1> QED
  BY <1>1, ShowsOn DEF Moves


\* What has been handled is only ever added to the basis of nothing.
LEMMA HandledMovesOn ==
  ASSUME NEW s, NEW eased, FeltInv(s, eased), NEW r,
         r.updates = s.updates, r.memory.tone = s.memory.tone, s.handled \subseteq r.handled,
         \A e \in r.handled \cup eased : e \in Int /\ e < r.next
  PROVE  FeltInv(r, eased)
<1>1. \A i \in DOMAIN r.updates : r.updates[i].based \subseteq r.handled \cup eased
  BY DEF FeltInv
<1>2. ASSUME NEW e \in eased PROVE Twice(r.updates, e, r.handled)
  <2>1. Twice(s.updates, e, s.handled)
    BY <1>2 DEF FeltInv
  <2> QED
    BY <2>1 DEF Twice
<1> QED
  BY <1>1, <1>2 DEF FeltInv

IdsOf(q) == {q[i].id : i \in DOMAIN q}

\* All but the handled is the same.
Handles(done, s, ids) ==
    /\ DOMAIN done = RunFields /\ done.memory = s.memory /\ done.next = s.next
    /\ done.tick = s.tick /\ done.updates = s.updates /\ done.handled = s.handled \cup ids

\* What both ways a handler ends give.
Answers(done, s, eased, kind, ticks, emitted) ==
    /\ \A x \in Range(RecentEntries(s, kind)) : x.tick \in ticks => x.id \in done.handled
    /\ Moves(done, s, eased, {})
    /\ Moves(emitted, s, eased, {ToneMarker})
    /\ emitted.handled = done.handled

\* A handler takes events it has not handled, and makes an update of them or not.
LEMMA Answered ==
  ASSUME LogAssumption, WindowAssumption, NEW s, NEW eased, RunInv(s), FeltInv(s, eased),
         NEW kind \in Markers \ FrameMarkers, NEW ticks, NEW delta, NEW done,
         Handles(done, s, IdsOf(Unhandled(s, kind, ticks)))
  PROVE  Answers(done, s, eased, kind, ticks,
                 Emit(done, delta, IdsOf(Unhandled(s, kind, ticks))))
<1> DEFINE q == Unhandled(s, kind, ticks)
           ids == IdsOf(q)
<1>0. /\ DOMAIN done = RunFields /\ done.memory = s.memory /\ done.next = s.next
      /\ done.tick = s.tick /\ done.updates = s.updates /\ done.handled = s.handled \cup ids
  BY DEF Handles
<1>1. IsList(q) /\ Range(q) = {x \in Range(RecentEntries(s, kind)) :
                                  x.tick \in ticks /\ x.id \notin s.handled}
  BY UnhandledAre
<1>2. ids = {q[i].id : i \in DOMAIN q}
  BY DEF IdsOf
<1> HIDE DEF q, ids
<1>3. \A e \in ids : \E x \in Range(q) : e = x.id
  BY <1>2 DEF Range
<1>4. \A x \in Range(q) : x.id \in ids
  BY <1>2 DEF Range
<1>5. \A x \in Range(RecentEntries(s, kind)) : x.id \in Int /\ x.id < s.next
  BY RecentAre DEF Known
<1>6. ASSUME NEW x \in Range(RecentEntries(s, kind)), x.tick \in ticks PROVE x.id \in done.handled
  BY <1>0, <1>1, <1>4, <1>6
<1>7. \A e \in ids : e \in Int /\ e < s.next /\ e \notin s.handled
  BY <1>1, <1>3, <1>5
<1>8. \A e \in done.handled \cup eased : e \in Int /\ e < s.next
  BY <1>0, <1>7 DEF FeltInv
<1>9. s.next \in Nat /\ s.tick \in Nat /\ MemoryInv(s.memory, s.next, s.tick)
  BY DEF RunInv
<1>10. RunInv(done)
  BY <1>0, <1>9 DEF RunInv
<1>11. FeltInv(done, eased)
  BY <1>0, <1>8, HandledMovesOn
<1>12. Moves(done, s, eased, {})
  BY <1>0, <1>9, <1>10, <1>11 DEF Moves, Shows
<1> DEFINE r == Emit(done, delta, ids)
<1>13. /\ RunInv(r) /\ r.next = done.next + 1 /\ r.handled = done.handled /\ r.tick = done.tick
       /\ r.updates = Append(done.updates, [delta |-> delta, based |-> ids])
       /\ r.memory.tone = Shifted(done.memory.tone, delta)
       /\ Shows(r.memory, done.memory, {ToneMarker}, done.tick)
  <2>1. Emitted(r, done, delta, ids)
    BY <1>10, EmitIs
  <2> QED
    BY <2>1 DEF Emitted
<1> HIDE DEF r
<1>14. ASSUME NEW e \in r.handled \cup eased PROVE e \in Int /\ e < r.next
  <2>1. e \in Int /\ e < s.next
    BY <1>0, <1>8, <1>13, <1>14
  <2>2. r.next = s.next + 1
    BY <1>0, <1>13
  <2> QED
    BY <1>9, <2>1, <2>2
<1>15. r.memory.tone = Shifted(s.memory.tone, delta) /\ s.handled \subseteq r.handled
       /\ ids \subseteq r.handled /\ ids \cap s.handled = {}
  BY <1>0, <1>7, <1>13
<1>16. FeltInv(r, eased)
  <2>1. r.updates = Append(s.updates, [delta |-> delta, based |-> ids])
    BY <1>0, <1>13
  <2>2. ids \subseteq r.handled \cup eased /\ \A e \in ids \cap eased : e \in r.handled
    BY <1>15
  <2>3. \A e \in eased \ eased : e \notin s.handled
    OBVIOUS
  <2>4. eased \subseteq eased
    OBVIOUS
  <2> QED
    BY <1>14, <1>15, <2>1, <2>2, <2>3, <2>4, FeltMovesOn, ZenonT(30)
<1>17. Moves(r, s, eased, {ToneMarker})
  BY <1>0, <1>9, <1>13, <1>15, <1>16 DEF Moves
<1> QED
  BY <1>6, <1>12, <1>13, <1>17 DEF Answers, r, ids, q

LEMMA FeltAreKinds ==
  /\ Felt \subseteq Markers \ FrameMarkers
  /\ ToneMarker \notin Felt /\ ToneMarker \in Markers
  /\ "effects" \in Felt /\ "outcomes" \in Felt
  BY DEF Felt, Markers, FrameMarkers, ToneMarker

\* What a handler leaves behind.
Feels(r2, r, eased, kind) == Moves(r2, r, eased, {ToneMarker}) /\ Heard(r2, eased, kind)

LEMMA AnswerAllFeels ==
  ASSUME LogAssumption, WindowAssumption, NEW s, NEW eased, RunInv(s), FeltInv(s, eased),
         NEW kind \in Felt, NEW delta
  PROVE  Feels(AnswerAll(s, kind, delta), s, eased, kind)
<1> DEFINE ids == IdsOf(Unhandled(s, kind, {s.tick}))
           done == [s EXCEPT !.handled = @ \cup ids]
           r == AnswerAll(s, kind, delta)
<1>1. r = done \/ r = Emit(done, delta, ids)
  BY DEF AnswerAll, Fresh, IdsOf
<1> HIDE DEF ids
<1>4. DOMAIN s = RunFields
  BY DEF RunInv
<1>5. Handles(done, s, ids)
  BY <1>4 DEF RunFields, Handles
<1> HIDE DEF done, r
<1>6. kind \in Markers \ FrameMarkers /\ kind \notin {ToneMarker}
  BY FeltAreKinds
<1>7. Answers(done, s, eased, kind, {s.tick}, Emit(done, delta, ids))
  BY <1>5, <1>6, Answered DEF ids
<1>8. Moves(r, s, eased, {ToneMarker}) /\ r.handled = done.handled
  BY <1>1, <1>7 DEF Moves, Shows, Answers
<1>9. Heard(done, eased, kind)
  BY <1>5, <1>7 DEF Heard, RecentEntries, Answers, Handles
<1>10. Shows(r.memory, done.memory, {ToneMarker}, s.tick)
  BY <1>5, <1>8 DEF Moves, Handles
<1>11. Heard(r, eased, kind)
  BY <1>5, <1>6, <1>8, <1>9, <1>10, StaysHeard DEF Moves, Handles
<1> QED
  BY <1>8, <1>11 DEF Feels, r


(***************************************************************************)
(* The projection                                                          *)
(***************************************************************************)
\* Between s and r handlers felt these kinds.
Hears(r, s, eased, kinds) ==
    /\ RunInv(s) /\ Moves(r, s, eased, {ToneMarker}) /\ kinds \subseteq Felt
    /\ \A k \in kinds : Heard(r, eased, k)

LEMMA HearsOneMore ==
  ASSUME LogAssumption, WindowAssumption, NEW r, NEW s, NEW eased, NEW kinds,
         Hears(r, s, eased, kinds), NEW kind \in Felt, NEW delta
  PROVE  Hears(AnswerAll(r, kind, delta), s, eased, kinds \cup {kind})
<1> DEFINE r2 == AnswerAll(r, kind, delta)
<1>1. Feels(r2, r, eased, kind)
  BY AnswerAllFeels DEF Hears, Moves
<1> HIDE DEF r2
<1>2. Moves(r2, s, eased, {ToneMarker})
  <2>1. Moves(r2, s, eased, {ToneMarker} \cup {ToneMarker})
    BY <1>1, MovesOn DEF Hears, Feels
  <2>2. {ToneMarker} \cup {ToneMarker} = {ToneMarker}
    OBVIOUS
  <2> QED
    BY <2>1, <2>2
<1>3. ASSUME NEW k \in kinds PROVE Heard(r2, eased, k)
  <2>1. k \in Markers \ FrameMarkers /\ k \notin {ToneMarker} /\ Heard(r, eased, k)
    BY <1>3, FeltAreKinds DEF Hears
  <2> QED
    BY <1>1, <2>1, StaysHeard DEF Feels, Moves
<1> QED
  BY <1>1, <1>2, <1>3 DEF Hears, Feels, r2

LEMMA HandlersHear ==
  ASSUME LogAssumption, WindowAssumption, NEW r, NEW s, NEW eased, NEW kinds,
         Hears(r, s, eased, kinds)
  PROVE
    /\ Hears(RunEffects(r), s, eased, kinds \cup {"effects"})
    /\ Hears(RunOutcomes(r), s, eased, kinds \cup {"outcomes"})
    /\ Hears(RunCandidates(r), s, eased, kinds \cup {"experience_candidates"})
    /\ Hears(RunConsolidationCandidates(r), s, eased, kinds \cup {"consolidation_candidates"})
    /\ Hears(RunMemoryWriteReviews(r), s, eased, kinds \cup {"memory_write_reviews"})
    /\ Hears(RunMemoryDraftWrites(r), s, eased, kinds \cup {"memory_draft_writes"})
    /\ Hears(RunMemoryDraftCommitReviews(r), s, eased, kinds \cup {"memory_draft_commit_reviews"})
    /\ Hears(RunMemoryCommits(r), s, eased, kinds \cup {"memory_commits"})
    /\ Hears(RunCommittedDraftObservations(r), s, eased, kinds \cup {"committed_draft_observations"})
    /\ Hears(RunExpsmUpdateReviews(r), s, eased, kinds \cup {"expsm_update_reviews"})
    /\ Hears(RunMemoryUpdates(r), s, eased, kinds \cup {"memory_updates"})
    /\ Hears(RunExpsmActivations(r), s, eased, kinds \cup {"expsm_activations"})
    /\ Hears(RunExpsmFeedback(r), s, eased, kinds \cup {"expsm_feedback"})
    /\ Hears(RunExpsmSimilarityObservations(r), s, eased, kinds \cup {"expsm_similarity_observations"})
    /\ Hears(RunExpsmCompetitionObservations(r), s, eased, kinds \cup {"expsm_competition_observations"})
    /\ Hears(RunDecisionAudits(r), s, eased, kinds \cup {"decision_audits"})
    /\ Hears(RunActionGuardAudits(r), s, eased, kinds \cup {"action_guard_audits"})
    /\ Hears(RunDecisionCycleSummaries(r), s, eased, kinds \cup {"decision_cycle_summaries"})
    /\ Hears(RunEvaluationSignals(r), s, eased, kinds \cup {"evaluation_signals"})
    /\ Hears(RunEvaluationTargets(r), s, eased, kinds \cup {"evaluation_targets"})
    /\ Hears(RunAkbsmAssociationProbes(r), s, eased, kinds \cup {"akbsm_association_probes"})
    /\ Hears(RunExpsmMechanismSearches(r), s, eased, kinds \cup {"expsm_mechanism_searches"})
    /\ Hears(RunTargetSatisfactionObservations(r), s, eased,
             kinds \cup {"target_satisfaction_observations"})
    /\ Hears(RunValueFeedbackCandidates(r), s, eased, kinds \cup {"value_feedback_candidates"})
    /\ Hears(RunValueFeedbackReviews(r), s, eased, kinds \cup {"value_feedback_reviews"})
    /\ Hears(RunValueFeedbackUpdates(r), s, eased, kinds \cup {"value_feedback_updates"})
<1>0. \A k \in Felt : \A delta : Hears(AnswerAll(r, k, delta), s, eased, kinds \cup {k})
  BY HearsOneMore
<1>1. Hears(RunEffects(r), s, eased, kinds \cup {"effects"})
  BY <1>0 DEF RunEffects, Answer, Felt
<1>2. Hears(RunOutcomes(r), s, eased, kinds \cup {"outcomes"})
  BY <1>0 DEF RunOutcomes, Answer, Felt
<1>3. Hears(RunCandidates(r), s, eased, kinds \cup {"experience_candidates"})
  BY <1>0 DEF RunCandidates, Felt
<1>4. Hears(RunConsolidationCandidates(r), s, eased, kinds \cup {"consolidation_candidates"})
  BY <1>0 DEF RunConsolidationCandidates, Felt
<1>5. Hears(RunMemoryWriteReviews(r), s, eased, kinds \cup {"memory_write_reviews"})
  BY <1>0 DEF RunMemoryWriteReviews, Answer, Felt
<1>6. Hears(RunMemoryDraftWrites(r), s, eased, kinds \cup {"memory_draft_writes"})
  BY <1>0 DEF RunMemoryDraftWrites, Answer, Felt
<1>7. Hears(RunMemoryDraftCommitReviews(r), s, eased, kinds \cup {"memory_draft_commit_reviews"})
  BY <1>0 DEF RunMemoryDraftCommitReviews, Answer, Felt
<1>8. Hears(RunMemoryCommits(r), s, eased, kinds \cup {"memory_commits"})
  BY <1>0 DEF RunMemoryCommits, Felt
<1>9. Hears(RunCommittedDraftObservations(r), s, eased, kinds \cup {"committed_draft_observations"})
  BY <1>0 DEF RunCommittedDraftObservations, AnswerEach, Felt
<1>10. Hears(RunExpsmUpdateReviews(r), s, eased, kinds \cup {"expsm_update_reviews"})
  BY <1>0 DEF RunExpsmUpdateReviews, Answer, Felt
<1>11. Hears(RunMemoryUpdates(r), s, eased, kinds \cup {"memory_updates"})
  BY <1>0 DEF RunMemoryUpdates, AnswerEach, Felt
<1>12. Hears(RunExpsmActivations(r), s, eased, kinds \cup {"expsm_activations"})
  BY <1>0 DEF RunExpsmActivations, AnswerEach, Felt
<1>13. Hears(RunExpsmFeedback(r), s, eased, kinds \cup {"expsm_feedback"})
  BY <1>0 DEF RunExpsmFeedback, Answer, Felt
<1>14. Hears(RunExpsmSimilarityObservations(r), s, eased, kinds \cup {"expsm_similarity_observations"})
  BY <1>0 DEF RunExpsmSimilarityObservations, AnswerEach, Felt
<1>15. Hears(RunExpsmCompetitionObservations(r), s, eased, kinds \cup {"expsm_competition_observations"})
  BY <1>0 DEF RunExpsmCompetitionObservations, AnswerEach, Felt
<1>16. Hears(RunDecisionAudits(r), s, eased, kinds \cup {"decision_audits"})
  BY <1>0 DEF RunDecisionAudits, Answer, Felt
<1>17. Hears(RunActionGuardAudits(r), s, eased, kinds \cup {"action_guard_audits"})
  BY <1>0 DEF RunActionGuardAudits, Answer, Felt
<1>18. Hears(RunDecisionCycleSummaries(r), s, eased, kinds \cup {"decision_cycle_summaries"})
  BY <1>0 DEF RunDecisionCycleSummaries, Answer, Felt
<1>19. Hears(RunEvaluationSignals(r), s, eased, kinds \cup {"evaluation_signals"})
  BY <1>0 DEF RunEvaluationSignals, Answer, Felt
<1>20. Hears(RunEvaluationTargets(r), s, eased, kinds \cup {"evaluation_targets"})
  BY <1>0 DEF RunEvaluationTargets, Answer, Felt
<1>21. Hears(RunAkbsmAssociationProbes(r), s, eased, kinds \cup {"akbsm_association_probes"})
  BY <1>0 DEF RunAkbsmAssociationProbes, Answer, Felt
<1>22. Hears(RunExpsmMechanismSearches(r), s, eased, kinds \cup {"expsm_mechanism_searches"})
  BY <1>0 DEF RunExpsmMechanismSearches, Answer, Felt
<1>23. Hears(RunTargetSatisfactionObservations(r), s, eased,
             kinds \cup {"target_satisfaction_observations"})
  BY <1>0 DEF RunTargetSatisfactionObservations, Answer, Felt
<1>24. Hears(RunValueFeedbackCandidates(r), s, eased, kinds \cup {"value_feedback_candidates"})
  BY <1>0 DEF RunValueFeedbackCandidates, Answer, Felt
<1>25. Hears(RunValueFeedbackReviews(r), s, eased, kinds \cup {"value_feedback_reviews"})
  BY <1>0 DEF RunValueFeedbackReviews, Answer, Felt
<1>26. Hears(RunValueFeedbackUpdates(r), s, eased, kinds \cup {"value_feedback_updates"})
  BY <1>0 DEF RunValueFeedbackUpdates, Answer, Felt
<1> QED
  BY <1>1, <1>2, <1>3, <1>4, <1>5, <1>6, <1>7, <1>8, <1>9, <1>10, <1>11, <1>12, <1>13, <1>14, <1>15, <1>16, <1>17, <1>18, <1>19, <1>20, <1>21, <1>22, <1>23, <1>24, <1>25, <1>26

\* The projection feels all kinds but the effects, which only an action does.
LEMMA ProjectedHears ==
  ASSUME LogAssumption, WindowAssumption, NEW s, NEW eased, RunInv(s), FeltInv(s, eased)
  PROVE  Hears(Projected(s), s, eased, Felt \ {"effects"})
<1> DEFINE r0 == s
           k0 == {}
           r1 == RunOutcomes(r0)
           k1 == k0 \cup {"outcomes"}
           r2 == RunCandidates(r1)
           k2 == k1 \cup {"experience_candidates"}
           r3 == RunConsolidationCandidates(r2)
           k3 == k2 \cup {"consolidation_candidates"}
           r4 == RunMemoryWriteReviews(r3)
           k4 == k3 \cup {"memory_write_reviews"}
           r5 == RunMemoryDraftWrites(r4)
           k5 == k4 \cup {"memory_draft_writes"}
           r6 == RunMemoryDraftCommitReviews(r5)
           k6 == k5 \cup {"memory_draft_commit_reviews"}
           r7 == RunMemoryCommits(r6)
           k7 == k6 \cup {"memory_commits"}
           r8 == RunCommittedDraftObservations(r7)
           k8 == k7 \cup {"committed_draft_observations"}
           r9 == RunExpsmUpdateReviews(r8)
           k9 == k8 \cup {"expsm_update_reviews"}
           r10 == RunMemoryUpdates(r9)
           k10 == k9 \cup {"memory_updates"}
           r11 == RunExpsmActivations(r10)
           k11 == k10 \cup {"expsm_activations"}
           r12 == RunExpsmFeedback(r11)
           k12 == k11 \cup {"expsm_feedback"}
           r13 == RunExpsmSimilarityObservations(r12)
           k13 == k12 \cup {"expsm_similarity_observations"}
           r14 == RunExpsmCompetitionObservations(r13)
           k14 == k13 \cup {"expsm_competition_observations"}
           r15 == RunDecisionAudits(r14)
           k15 == k14 \cup {"decision_audits"}
           r16 == RunActionGuardAudits(r15)
           k16 == k15 \cup {"action_guard_audits"}
           r17 == RunDecisionCycleSummaries(r16)
           k17 == k16 \cup {"decision_cycle_summaries"}
           r18 == RunEvaluationSignals(r17)
           k18 == k17 \cup {"evaluation_signals"}
           r19 == RunEvaluationTargets(r18)
           k19 == k18 \cup {"evaluation_targets"}
           r20 == RunAkbsmAssociationProbes(r19)
           k20 == k19 \cup {"akbsm_association_probes"}
           r21 == RunExpsmMechanismSearches(r20)
           k21 == k20 \cup {"expsm_mechanism_searches"}
           r22 == RunTargetSatisfactionObservations(r21)
           k22 == k21 \cup {"target_satisfaction_observations"}
           r23 == RunValueFeedbackCandidates(r22)
           k23 == k22 \cup {"value_feedback_candidates"}
           r24 == RunValueFeedbackReviews(r23)
           k24 == k23 \cup {"value_feedback_reviews"}
           r25 == RunValueFeedbackUpdates(r24)
           k25 == k24 \cup {"value_feedback_updates"}
<1>0. Hears(r0, s, eased, k0)
  <2>1. s.next \in Nat
    BY DEF RunInv
  <2> QED
    BY <2>1 DEF Hears, Moves, Shows
<1>100. Projected(s) = r25
  BY DEF Projected
<1>101. k25 = Felt \ {"effects"}
  BY DEF Felt
<1> HIDE DEF r0, k0, r1, k1, r2, k2, r3, k3, r4, k4, r5, k5, r6, k6, r7, k7, r8, k8, r9, k9, r10, k10, r11, k11, r12, k12, r13, k13, r14, k14, r15, k15, r16, k16, r17, k17, r18, k18, r19, k19, r20, k20, r21, k21, r22, k22, r23, k23, r24, k24, r25, k25
<1>1. Hears(r1, s, eased, k1)
  BY <1>0, HandlersHear DEF r1, k1
<1>2. Hears(r2, s, eased, k2)
  BY <1>1, HandlersHear DEF r2, k2
<1>3. Hears(r3, s, eased, k3)
  BY <1>2, HandlersHear DEF r3, k3
<1>4. Hears(r4, s, eased, k4)
  BY <1>3, HandlersHear DEF r4, k4
<1>5. Hears(r5, s, eased, k5)
  BY <1>4, HandlersHear DEF r5, k5
<1>6. Hears(r6, s, eased, k6)
  BY <1>5, HandlersHear DEF r6, k6
<1>7. Hears(r7, s, eased, k7)
  BY <1>6, HandlersHear DEF r7, k7
<1>8. Hears(r8, s, eased, k8)
  BY <1>7, HandlersHear DEF r8, k8
<1>9. Hears(r9, s, eased, k9)
  BY <1>8, HandlersHear DEF r9, k9
<1>10. Hears(r10, s, eased, k10)
  BY <1>9, HandlersHear DEF r10, k10
<1>11. Hears(r11, s, eased, k11)
  BY <1>10, HandlersHear DEF r11, k11
<1>12. Hears(r12, s, eased, k12)
  BY <1>11, HandlersHear DEF r12, k12
<1>13. Hears(r13, s, eased, k13)
  BY <1>12, HandlersHear DEF r13, k13
<1>14. Hears(r14, s, eased, k14)
  BY <1>13, HandlersHear DEF r14, k14
<1>15. Hears(r15, s, eased, k15)
  BY <1>14, HandlersHear DEF r15, k15
<1>16. Hears(r16, s, eased, k16)
  BY <1>15, HandlersHear DEF r16, k16
<1>17. Hears(r17, s, eased, k17)
  BY <1>16, HandlersHear DEF r17, k17
<1>18. Hears(r18, s, eased, k18)
  BY <1>17, HandlersHear DEF r18, k18
<1>19. Hears(r19, s, eased, k19)
  BY <1>18, HandlersHear DEF r19, k19
<1>20. Hears(r20, s, eased, k20)
  BY <1>19, HandlersHear DEF r20, k20
<1>21. Hears(r21, s, eased, k21)
  BY <1>20, HandlersHear DEF r21, k21
<1>22. Hears(r22, s, eased, k22)
  BY <1>21, HandlersHear DEF r22, k22
<1>23. Hears(r23, s, eased, k23)
  BY <1>22, HandlersHear DEF r23, k23
<1>24. Hears(r24, s, eased, k24)
  BY <1>23, HandlersHear DEF r24, k24
<1>25. Hears(r25, s, eased, k25)
  BY <1>24, HandlersHear DEF r25, k25
<1> QED
  BY <1>25, <1>100, <1>101


(***************************************************************************)
(* The phases                                                              *)
(***************************************************************************)
LEMMA MovesNowhere ==
  ASSUME NEW s, NEW eased, NEW markers, RunInv(s), FeltInv(s, eased)
  PROVE  Moves(s, s, eased, markers)
<1>1. s.next \in Nat
  BY DEF RunInv
<1> QED
  BY <1>1 DEF Moves, Shows

LEMMA AddsMove ==
  ASSUME NEW r2, NEW r, NEW eased, NEW markers, RunInv(r), FeltInv(r, eased), Adds(r2, r, markers)
  PROVE  Moves(r2, r, eased, markers)
<1>1. r.next \in Nat /\ r2.next \in Nat /\ r.next <= r2.next
  BY DEF RunInv, Adds
<1>2. \A e \in r2.handled \cup eased : e \in Int /\ e < r2.next
  BY <1>1 DEF Adds, FeltInv
<1>3. FeltInv(r2, eased)
  BY <1>2, HandledMovesOn DEF Adds
<1> QED
  BY <1>3 DEF Moves, Adds

LEMMA InputsMove ==
  ASSUME LogAssumption, WindowAssumption, NEW s, NEW eased, RunInv(s), FeltInv(s, eased)
  PROVE  Moves(RunInputs(s), s, eased, {ToneMarker})
<1> DEFINE late == Unhandled(s, "outcomes", 0 .. s.tick - 1)
           ids == IdsOf(late)
           delta == InputDelta(During(s, "labels", {s.tick}),
                               During(s, "predictions", {s.tick}), late)
           done == [s EXCEPT !.lastInputs = s.tick, !.handled = @ \cup ids]
<1>1. RunInputs(s) = s \/ RunInputs(s) = Emit(done, delta, ids)
  BY DEF RunInputs, IdsOf
<1> HIDE DEF ids, delta
<1>2. DOMAIN s = RunFields
  BY DEF RunInv
<1>3. Handles(done, s, ids)
  BY <1>2 DEF RunFields, Handles
<1> HIDE DEF done
<1>4. "outcomes" \in Markers \ FrameMarkers
  BY FeltAreKinds
<1>5. Answers(done, s, eased, "outcomes", 0 .. s.tick - 1, Emit(done, delta, ids))
  BY <1>3, <1>4, Answered DEF ids
<1>6. Moves(Emit(done, delta, ids), s, eased, {ToneMarker})
  BY <1>5 DEF Answers
<1> QED
  BY <1>1, <1>6, MovesNowhere

LEMMA HomeostasisMoves ==
  ASSUME LogAssumption, WindowAssumption, NEW s, NEW eased, RunInv(s), FeltInv(s, eased), NEW shown
  PROVE  Moves(Homeostasis(s, shown), s, eased, {ToneMarker})
<1> DEFINE delta == HomeostasisDelta(s.memory.tone, shown \/ RecentRisk(s),
                                  RecentOutcome(s, "confirmed"), RecentOutcome(s, "failed"))
           ran == [s EXCEPT !.lastHomeostasis = s.tick]
           ids == IdsOf(Unhandled(s, "outcomes", {}))
           r == Homeostasis(s, shown)
<1>1. r = ran \/ r = Emit(ran, delta, {})
  BY DEF Homeostasis
<1> HIDE DEF r, delta
<1>2. "outcomes" \in Markers \ FrameMarkers
  BY FeltAreKinds
<1>3. ids = {}
  <2> DEFINE q == Unhandled(s, "outcomes", {})
  <2>1. IsList(q) /\ Range(q) = {x \in Range(RecentEntries(s, "outcomes")) :
                                   x.tick \in {} /\ x.id \notin s.handled}
    BY <1>2, UnhandledAre
  <2>2. Range(q) = {}
    BY <2>1
  <2> HIDE DEF q
  <2>3. DOMAIN q = {}
    BY <2>2 DEF Range
  <2>4. IdsOf(q) = {}
    BY <2>3 DEF IdsOf
  <2> QED
    BY <2>4 DEF q
<1> HIDE DEF ids
<1>4. DOMAIN s = RunFields
  BY DEF RunInv
<1>5. Handles(ran, s, {})
  BY <1>4 DEF RunFields, Handles
<1> HIDE DEF ran
<1>6. Answers(ran, s, eased, "outcomes", {}, Emit(ran, delta, {}))
  <2>1. Handles(ran, s, IdsOf(Unhandled(s, "outcomes", {})))
    BY <1>3, <1>5 DEF ids
  <2>2. Answers(ran, s, eased, "outcomes", {}, Emit(ran, delta, IdsOf(Unhandled(s, "outcomes", {}))))
    BY <1>2, <2>1, Answered
  <2> QED
    BY <1>3, <2>2 DEF ids
<1>7. Moves(ran, s, eased, {ToneMarker}) /\ Moves(Emit(ran, delta, {}), s, eased, {ToneMarker})
  BY <1>6 DEF Answers, Moves, Shows
<1>8. Moves(r, s, eased, {ToneMarker})
  BY <1>1, <1>7
<1> QED
  BY <1>8 DEF r


\* One body of a marker.
LEMMA OneBody ==
  ASSUME NEW b, "marker" \in DOMAIN b, "from" \notin DOMAIN b, NEW markers, b.marker \in markers
  PROVE  Bodies(<<b>>, markers) /\ Len(<<b>>) = 1
<1>1. <<b>> \in Seq({b}) /\ Range(<<b>>) = {b}
  BY DEF Range
<1>2. IsList(<<b>>)
  BY <1>1, SequencesAreLists
<1> QED
  BY <1>1, <1>2 DEF Bodies, Body

\* The effect the processor announces is the one its own update is based on.
LEMMA RelievedMoves ==
  ASSUME LogAssumption, WindowAssumption, NEW r, NEW eased, RunInv(r), FeltInv(r, eased)
  PROVE  /\ Moves(Relieved(r), r, eased \cup {r.next}, {"effects", ToneMarker})
         /\ Heard(r, eased, "effects") => Heard(Relieved(r), eased \cup {r.next}, "effects")
<1> DEFINE eased2 == eased \cup {r.next}
           r2 == Relieved(r)
<1>1. PICK status, delta :
        r2 = Emit(Commit(r, <<[marker |-> "effects", status |-> status]>>), delta, {r.next})
  BY DEF Relieved
<1> DEFINE body == [marker |-> "effects", status |-> status]
           c == Commit(r, <<body>>)
<1>2. r2 = Emit(c, delta, {r.next})
  BY <1>1
<1> HIDE DEF r2
<1>3. Bodies(<<body>>, {"effects"}) /\ Len(<<body>>) = 1
  <2>1. "marker" \in DOMAIN body /\ "from" \notin DOMAIN body /\ body.marker \in {"effects"}
    OBVIOUS
  <2> HIDE DEF body
  <2> QED
    BY <2>1, OneBody
<1> HIDE DEF body
<1>4. {"effects"} \in SUBSET (Markers \ {ToneMarker})
  BY FeltAreKinds
<1>5. Adds(c, r, {"effects"}) /\ c.next = r.next + 1
  BY <1>3, <1>4, CommitAdds
<1> HIDE DEF c
<1>6. Moves(c, r, eased, {"effects"})
  BY <1>5, AddsMove
<1>7. Emitted(r2, c, delta, {r.next})
  BY <1>2, <1>6, EmitIs DEF Moves
<1>8. /\ r.next \in Nat /\ c.next = r.next + 1 /\ r2.next = c.next + 1
      /\ c.handled = r.handled /\ r2.handled = c.handled
      /\ \A e \in r.handled \cup eased : e \in Int /\ e < r.next
  BY <1>5, <1>7 DEF RunInv, Adds, Emitted, FeltInv
<1>9. FeltInv(r2, eased2)
  <2>1. \A e \in r2.handled \cup eased2 : e \in Int /\ e < r2.next
    BY <1>8
  <2>2. c.handled \subseteq r2.handled /\ eased \subseteq eased2
    BY <1>8
  <2>3. {r.next} \cap c.handled = {} /\ {r.next} \subseteq r2.handled \cup eased2
    BY <1>8
  <2>4. \A e \in {r.next} \cap eased : e \in r2.handled
    BY <1>8
  <2>5. \A e \in eased2 \ eased : e \notin c.handled
    BY <1>8
  <2>6. r2.updates = Append(c.updates, [delta |-> delta, based |-> {r.next}])
        /\ r2.memory.tone = Shifted(c.memory.tone, delta)
    BY <1>7 DEF Emitted
  <2>7. FeltInv(c, eased)
    BY <1>6 DEF Moves
  <2> HIDE DEF eased2
  <2> QED
    BY <2>1, <2>2, <2>3, <2>4, <2>5, <2>6, <2>7, FeltMovesOn, ZenonT(30)
<1>10. Shows(r2.memory, c.memory, {ToneMarker}, r.tick) /\ r2.tick = r.tick /\ RunInv(r2)
       /\ c.tick = r.tick /\ RunInv(c)
  BY <1>5, <1>7 DEF Adds, Emitted
<1>11. Shows(r2.memory, r.memory, {ToneMarker} \cup {"effects"}, r.tick)
  BY <1>6, <1>10, ShowsOn DEF Moves
<1>12. Moves(r2, r, eased2, {"effects", ToneMarker})
  <2>1. {ToneMarker} \cup {"effects"} = {"effects", ToneMarker}
    OBVIOUS
  <2>2. r.next <= r2.next
    BY <1>8
  <2> QED
    BY <1>8, <1>9, <1>10, <1>11, <2>1, <2>2 DEF Moves
<1>13. ASSUME Heard(r, eased, "effects") PROVE Heard(c, eased2, "effects")
  <2>1. "effects" \in Markers \ FrameMarkers /\ "effects" \in Ordered /\ Window["effects"] \in Nat
    BY FeltAreKinds, ListsAreNamed DEF WindowAssumption
  <2>2. ASSUME NEW x \in Range(RecentEntries(c, "effects")), x.tick = c.tick
        PROVE  x.id \in c.handled \cup eased2
    <3>1. x.id \in Int /\ x.id < c.next
      BY <1>10, <2>1, <2>2, RecentAre DEF Known
    <3>2. x \in Range(RecentOf(r.memory, "effects", Window["effects"])) \/ x.id >= r.next
      BY <1>5, <2>1 DEF Adds, RecentEntries
    <3>3. CASE x \in Range(RecentOf(r.memory, "effects", Window["effects"]))
      BY <1>8, <1>10, <1>13, <2>2, <3>3 DEF Heard, RecentEntries
    <3>4. CASE x.id >= r.next
      <4>1. x.id = r.next
        BY <1>8, <3>1, <3>4
      <4> QED
        BY <4>1
    <3> QED
      BY <3>2, <3>3, <3>4
  <2> QED
    BY <2>2 DEF Heard
<1>14. ASSUME Heard(r, eased, "effects") PROVE Heard(r2, eased2, "effects")
  <2>1. "effects" \in Markers \ FrameMarkers /\ "effects" \notin {ToneMarker}
    BY FeltAreKinds
  <2>2. Heard(c, eased2, "effects")
    BY <1>13, <1>14
  <2>3. c.handled \subseteq r2.handled /\ eased2 \subseteq eased2 /\ r2.tick = c.tick
    BY <1>8, <1>10
  <2> HIDE DEF eased2
  <2> QED
    BY <1>10, <2>1, <2>2, <2>3, StaysHeard
<1> QED
  BY <1>12, <1>14 DEF r2

Thought == {"self_generated_thought"}

LEMMA ThoughtsMove ==
  ASSUME LogAssumption, NEW r, NEW eased, RunInv(r), FeltInv(r, eased)
  PROVE  Moves(ThinkEffects(r), r, eased, Thought)
<1> DEFINE r2 == ThinkEffects(r)
           body == [marker |-> "self_generated_thought", source |-> "thought"]
<1>1. r2 = r \/ \E ids : r2 = Commit([r EXCEPT !.thought = @ \cup ids], <<body>>)
  BY DEF ThinkEffects
<1> HIDE DEF r2
<1>2. Bodies(<<body>>, Thought)
  <2>1. "marker" \in DOMAIN body /\ "from" \notin DOMAIN body /\ body.marker \in Thought
    BY DEF Thought
  <2> HIDE DEF body
  <2> QED
    BY <2>1, OneBody
<1> HIDE DEF body
<1>3. Thought \in SUBSET (Markers \ {ToneMarker})
  BY DEF Thought, Markers, FrameMarkers, ToneMarker
<1>4. ASSUME NEW ids, r2 = Commit([r EXCEPT !.thought = @ \cup ids], <<body>>)
      PROVE  Moves(r2, r, eased, Thought)
  <2> DEFINE r1 == [r EXCEPT !.thought = @ \cup ids]
  <2>1. DOMAIN r = RunFields
    BY DEF RunInv
  <2>2. /\ DOMAIN r1 = RunFields /\ r1.memory = r.memory /\ r1.next = r.next /\ r1.tick = r.tick
        /\ r1.updates = r.updates /\ r1.handled = r.handled
    BY <2>1 DEF RunFields
  <2>3. r2 = Commit(r1, <<body>>)
    BY <1>4
  <2> HIDE DEF r1
  <2>4. RunInv(r1) /\ FeltInv(r1, eased)
    BY <2>2 DEF RunInv, FeltInv
  <2>5. Adds(r2, r1, Thought)
    BY <1>2, <1>3, <2>3, <2>4, CommitAdds
  <2>6. Moves(r2, r1, eased, Thought)
    BY <2>4, <2>5, AddsMove
  <2> QED
    BY <2>2, <2>6 DEF Moves
<1>5. Moves(r2, r, eased, Thought)
  BY <1>1, <1>4, MovesNowhere
<1> QED
  BY <1>5 DEF r2


LEMMA JoinBodies ==
  ASSUME NEW markers, NEW a, NEW b, Bodies(a, markers), Bodies(b, markers)
  PROVE  Bodies(a \o b, markers)
  BY JoinLists DEF Bodies

LEMMA NoBodies == \A markers : Bodies(<<>>, markers)
  BY NoList DEF Bodies

LEMMA JoinLooks ==
  ASSUME NEW a, NEW b, Looks(a), Looks(b)
  PROVE  Looks(a \o b)
  BY JoinLists DEF Looks

LEMMA OneLook ==
  ASSUME NEW n \in Nat, NEW source
  PROVE  Looks(<<[n |-> n, source |-> source]>>)
<1> DEFINE x == [n |-> n, source |-> source]
<1>1. x.n = n
  OBVIOUS
<1> HIDE DEF x
<1>2. <<x>> \in Seq({x}) /\ Range(<<x>>) = {x}
  BY DEF Range
<1>3. IsList(<<x>>)
  BY <1>2, SequencesAreLists
<1>4. Looks(<<x>>)
  BY <1>1, <1>2, <1>3 DEF Looks
<1> QED
  BY <1>4 DEF x

LEMMA NoLooks == Looks(<<>>)
  BY NoList DEF Looks

\* What the readers of frames see is a list.
LEMMA FramesSeen ==
  ASSUME NEW m, NEW next \in Int, NEW tick \in Int, MemoryInv(m, next, tick), NEW n \in Nat
  PROVE  IsList(RecentFrames(m, n))
<1> DEFINE T == Range(m.lists["raw_frames"]) \cup Range(m.lists["thought_frames"])
<1>1. "raw_frames" \in Ordered /\ "thought_frames" \in Ordered
  BY DEF Ordered, SideLists, FrameLists
<1>2. IsList(m.lists["raw_frames"]) /\ IsList(m.lists["thought_frames"])
  BY <1>1 DEF MemoryInv, ListInv
<1>3. m.lists["raw_frames"] \in Seq(T) /\ m.lists["thought_frames"] \in Seq(T)
  BY <1>2 DEF IsList
<1> HIDE DEF T
<1>4. AllFrames(m) \in Seq(T)
  BY <1>3, FramesAre
<1>5. IsList(AllFrames(m))
  BY <1>4, SequencesAreLists
<1> QED
  BY <1>5, LastEnds DEF RecentFrames, Ends

\* What a label module finds.
Finds(found) == Bodies(found.labels, {"labels"}) /\ Looks(found.looked)

LEMMA NothingFound ==
  /\ NoLabel.labels = <<>> /\ NoLabel.looked = <<>> /\ Finds(NoLabel)
  /\ \A looked : Looks(looked) => Finds([NoLabel EXCEPT !.looked = looked])
<1>1. NoLabel.labels = <<>> /\ NoLabel.looked = <<>>
  BY DEF NoLabel
<1>2. ASSUME NEW looked, Looks(looked) PROVE Finds([NoLabel EXCEPT !.looked = looked])
  <2>1. [NoLabel EXCEPT !.looked = looked].labels = <<>>
        /\ [NoLabel EXCEPT !.looked = looked].looked = looked
    BY DEF NoLabel
  <2> QED
    BY <1>2, <2>1, NoBodies DEF Finds
<1> QED
  BY <1>1, <1>2, NoBodies, NoLooks DEF Finds

LEMMA LabelFound ==
  ASSUME NEW b, "marker" \in DOMAIN b, "from" \notin DOMAIN b, b.marker = "labels",
         NEW looked, Looks(looked), NEW saw
  PROVE  Finds([labels |-> <<b>>, saw |-> saw, looked |-> looked])
<1>1. Bodies(<<b>>, {"labels"})
  BY OneBody
<1> QED
  BY <1>1 DEF Finds

LEMMA LabelsAre ==
  ASSUME NEW what, NEW frame, NEW confidence, NEW risk
  PROVE  LET b == Label(what, frame, confidence, risk)
         IN  "marker" \in DOMAIN b /\ "from" \notin DOMAIN b /\ b.marker = "labels"
  BY DEF Label

LEMMA NoveltyFinds == ASSUME NEW m PROVE Finds(NoveltyDLM(m))
<1> DEFINE f == Last(RecentFrames(m, 1))
           look == <<[n |-> 1, source |-> "img"]>>
<1>1. \/ NoveltyDLM(m) = NoLabel
      \/ NoveltyDLM(m) = [labels |-> <<Label("known", f, 900, 50)>>, saw |-> f.tick, looked |-> look]
      \/ NoveltyDLM(m) = [labels |-> <<Label("novel", f, 700, 150)>>, saw |-> f.tick, looked |-> look]
  BY DEF NoveltyDLM
<1>2. Looks(look)
  BY OneLook
<1> HIDE DEF f, look
<1> QED
  BY <1>1, <1>2, NothingFound, LabelFound, LabelsAre

LEMMA RhythmFinds ==
  ASSUME NEW m, NEW next \in Int, NEW tick \in Int, MemoryInv(m, next, tick)
  PROVE  Finds(RhythmDLM(m))
<1> DEFINE recent == RecentFrames(m, 6)
           heard == Picked(recent, {i \in DOMAIN recent : recent[i].source = "aud"})
           look == <<[n |-> Len(heard), source |-> "aud"]>>
<1>1. \/ RhythmDLM(m) = NoLabel
      \/ RhythmDLM(m) = [labels |-> <<Label("periodic", Last(heard), 720, 400)>>,
                         saw |-> Last(heard).tick, looked |-> look]
  BY DEF RhythmDLM
<1>2. IsList(recent)
  BY FramesSeen
<1>3. {i \in DOMAIN recent : recent[i].source = "aud"} \in SUBSET (1 .. Len(recent))
  BY <1>2, ListIs
<1> HIDE DEF recent
<1>4. Len(heard) \in Nat
  BY <1>2, <1>3, PickedList, ListIs
<1> HIDE DEF heard
<1>5. Looks(look)
  BY <1>4, OneLook
<1> HIDE DEF look
<1> QED
  BY <1>1, <1>5, NothingFound, LabelFound, LabelsAre

LEMMA RiskFinds ==
  ASSUME NEW m, NEW next \in Int, NEW tick \in Int, MemoryInv(m, next, tick)
  PROVE  Finds(RiskDLM(m))
<1> DEFINE recent == RecentFrames(m, 4)
           P == {i \in DOMAIN recent : recent[i].tick = run.tick /\ recent[i].source # "thought"}
           now == Picked(recent, P)
           risk == WorstRisk(now)
           matched == now # <<>> /\ Last(now).matched
           label == Label("experienced", Last(now), risk, risk)
           body == Over([matched |-> matched], label)
           looked == <<[n |-> Len(now), source |-> Last(now).source]>>
<1>1. \/ RiskDLM(m) = NoLabel
      \/ RiskDLM(m) = [NoLabel EXCEPT !.looked = looked]
      \/ RiskDLM(m) = [labels |-> <<body>>, saw |-> run.tick, looked |-> looked]
  BY DEF RiskDLM
<1>2. IsList(recent)
  BY FramesSeen
<1>3. P \in SUBSET (1 .. Len(recent))
  BY <1>2, ListIs
<1> HIDE DEF recent, P
<1>4. Len(now) \in Nat
  BY <1>2, <1>3, PickedList, ListIs
<1> HIDE DEF now
<1>5. Looks(looked)
  BY <1>4, OneLook
<1>6. "marker" \in DOMAIN label /\ "from" \notin DOMAIN label /\ label.marker = "labels"
  BY LabelsAre
<1> HIDE DEF label, looked, matched
<1>7. "marker" \in DOMAIN body /\ "from" \notin DOMAIN body /\ body.marker = "labels"
  BY <1>6 DEF Over
<1> HIDE DEF body
<1> QED
  BY <1>1, <1>5, <1>7, NothingFound, LabelFound

LEMMA InternalFinds == ASSUME NEW m PROVE Finds(InternalStateDLM(m))
<1>1. \/ InternalStateDLM(m) = NoLabel
      \/ \E f : InternalStateDLM(m) = [labels |-> <<Label("internal", f, f.alarm, f.alarm)>>,
                                       saw |-> f.tick, looked |-> <<>>]
  BY DEF InternalStateDLM
<1> QED
  BY <1>1, NothingFound, LabelFound, LabelsAre, NoLooks


(***************************************************************************)
(* The invariant of the flow                                               *)
(***************************************************************************)
\* The pressure of a tick is told once, and of no tick after the last.
PressuresOnce(m, last) ==
    /\ \A e \in Range(m.lists["consolidation_pressures"]) : e.tick <= last
    /\ \A e, f \in Range(m.lists["consolidation_pressures"]) : e.tick = f.tick => e = f

\* Between two phases the memory is in order, each update rests on events of its own,
\* no pressure is of a tick after the last one seen, and of effects all but those
\* told as a relief are felt; after the projection this holds for every kind.
FlowInv ==
    /\ RunInv(run) /\ FeltInv(run, relief)
    /\ DOMAIN seen = Readers \cup {"predictor"}
    /\ seen["pressure"] \in Int /\ seen["pressure"] <= run.tick
    /\ PressuresOnce(run.memory, seen["pressure"])
    /\ Heard(run, relief, "effects")
    /\ pc \in {"settle", "feed"} => \A k \in Felt : Heard(run, relief, k)
    /\ feeds \in Nat /\ feeds <= MaxFeeds /\ (pc # "feed" => feeds >= 1)

LEMMA PressuresStay ==
  ASSUME NEW r2, NEW m, NEW markers, NEW tick, NEW last, RunInv(r2),
         Shows(r2.memory, m, markers, tick), "consolidation_pressures" \notin markers,
         PressuresOnce(m, last)
  PROVE  PressuresOnce(r2.memory, last)
<1>1. "consolidation_pressures" \in Ordered /\ "consolidation_pressures" \in Markers \ FrameMarkers
  BY ListsAreNamed DEF Markers, FrameMarkers
<1>2. ASSUME NEW x \in Range(r2.memory.lists["consolidation_pressures"])
      PROVE  x \in Range(m.lists["consolidation_pressures"])
  <2>1. x.marker = "consolidation_pressures"
    BY <1>1, ListsAreNamed DEF RunInv, MemoryInv, ListInv, Known
  <2> QED
    BY <1>1, <2>1 DEF Shows
<1> QED
  BY <1>2 DEF PressuresOnce

LEMMA SeenIs ==
  /\ "pressure" \in Readers \cup {"predictor"}
  /\ \A r \in {"rhythm", "novelty", "risk", "internal", "predictor", "thoughts", "processor"} :
        r # "pressure"
  BY DEF Readers

\* A phase that moves the run without effects, pressures or a feed.
LEMMA PhaseKeeps ==
  ASSUME LogAssumption, WindowAssumption, FlowInv, NEW markers,
         Moves(run', run, relief, markers), relief' = relief, feeds' = feeds,
         "consolidation_pressures" \notin markers, "effects" \notin markers,
         DOMAIN seen' = DOMAIN seen, seen'["pressure"] = seen["pressure"],
         pc # "feed",
         pc' \in {"settle", "feed"} => \A k \in Felt : Heard(run', relief, k)
  PROVE  FlowInv'
<1>1. RunInv(run') /\ FeltInv(run', relief) /\ run'.tick = run.tick /\ run.handled \subseteq run'.handled
      /\ Shows(run'.memory, run.memory, markers, run.tick)
  BY DEF Moves
<1>2. PressuresOnce(run'.memory, seen["pressure"])
  BY <1>1, PressuresStay DEF FlowInv
<1>3. Heard(run', relief, "effects")
  <2>1. "effects" \in Markers \ FrameMarkers /\ relief \subseteq relief
    BY FeltAreKinds
  <2> QED
    BY <1>1, <2>1, StaysHeard DEF FlowInv
<1> QED
  BY <1>1, <1>2, <1>3 DEF FlowInv

\* Windows are written and then bodies are committed.
LEMMA LooksMove ==
  ASSUME LogAssumption, NEW r, NEW eased, RunInv(r), FeltInv(r, eased), NEW looked, Looks(looked),
         NEW markers \in SUBSET (Markers \ {ToneMarker}), NEW bodies, Bodies(bodies, markers)
  PROVE  Moves(Commit([r EXCEPT !.memory = AddWindows(@, looked)], bodies), r, eased, markers)
<1> DEFINE r1 == [r EXCEPT !.memory = AddWindows(@, looked)]
           r2 == Commit(r1, bodies)
<1>1. /\ DOMAIN r = RunFields /\ r.next \in Nat /\ r.tick \in Nat
      /\ r.next \in Int /\ r.tick \in Int /\ MemoryInv(r.memory, r.next, r.tick)
  BY DEF RunInv
<1>2. /\ DOMAIN r1 = RunFields /\ r1.memory = AddWindows(r.memory, looked) /\ r1.next = r.next
      /\ r1.tick = r.tick /\ r1.handled = r.handled /\ r1.updates = r.updates
  BY <1>1 DEF RunFields
<1> HIDE DEF r1
<1>3. /\ MemoryInv(r1.memory, r.next, r.tick)
      /\ r1.memory.tone = r.memory.tone
      /\ \A l \in Ordered : r1.memory.lists[l] = r.memory.lists[l]
  BY <1>1, <1>2, WindowsAdded
<1>4. RunInv(r1)
  BY <1>1, <1>2, <1>3 DEF RunInv
<1>5. FeltInv(r1, eased)
  BY <1>2, <1>3 DEF FeltInv
<1>6. Moves(r2, r1, eased, markers)
  BY <1>4, <1>5, CommitAdds, AddsMove
<1> HIDE DEF r2
<1>7. Shows(r1.memory, r.memory, {}, r.tick)
  BY <1>3 DEF Shows, RecentOf
<1>8. Shows(r2.memory, r.memory, markers \cup {}, r.tick)
  BY <1>2, <1>6, <1>7, ShowsOn DEF Moves
<1>9. Moves(r2, r, eased, markers)
  <2>1. markers \cup {} = markers
    OBVIOUS
  <2> QED
    BY <1>2, <1>6, <1>8, <2>1 DEF Moves
<1> QED
  BY <1>9 DEF r2, r1

LEMMA LabelInputsKeeps ==
  ASSUME LogAssumption, WindowAssumption, FlowInv, LabelInputs
  PROVE  FlowInv'
<1> DEFINE m == run.memory
           rhythm == RhythmDLM(m)
           novelty == NoveltyDLM(m)
           risk == RiskDLM(m)
           internal == InternalStateDLM(m)
           looked == rhythm.looked \o novelty.looked \o risk.looked
           bodies == rhythm.labels \o novelty.labels \o risk.labels \o internal.labels
<1>1. run' = Commit([run EXCEPT !.memory = AddWindows(@, looked)], bodies)
  BY DEF LabelInputs
<1>2. /\ run.next \in Int /\ run.tick \in Int /\ MemoryInv(m, run.next, run.tick)
  BY DEF FlowInv, RunInv
<1>3. Finds(rhythm) /\ Finds(novelty) /\ Finds(risk) /\ Finds(internal)
  BY <1>2, RhythmFinds, NoveltyFinds, RiskFinds, InternalFinds
<1> HIDE DEF rhythm, novelty, risk, internal, m
<1>4. Looks(looked) /\ Bodies(bodies, {"labels"})
  BY <1>3, JoinLooks, JoinBodies DEF Finds
<1> HIDE DEF looked, bodies
<1>9. {"labels"} \in SUBSET (Markers \ {ToneMarker})
  BY DEF Markers, FrameMarkers, ToneMarker
<1>14. Moves(run', run, relief, {"labels"})
  BY <1>1, <1>4, <1>9, LooksMove DEF FlowInv
<1>15. /\ pc = "label" /\ pc' = "predict" /\ relief' = relief /\ feeds' = feeds
       /\ \E found : /\ DOMAIN found = {"rhythm", "novelty", "risk", "internal"}
                     /\ seen' = [r \in DOMAIN seen |->
                                   IF r \in DOMAIN found /\ found[r].labels # <<>>
                                   THEN found[r].saw ELSE seen[r]]
  BY DEF LabelInputs
<1>16. DOMAIN seen' = DOMAIN seen /\ seen'["pressure"] = seen["pressure"]
  BY <1>15, SeenIs DEF FlowInv
<1> QED
  BY <1>14, <1>15, <1>16, PhaseKeeps

LEMMA PredictKeeps ==
  ASSUME LogAssumption, WindowAssumption, FlowInv, Predict
  PROVE  FlowInv'
<1> DEFINE Expect(c, shift) == IF c THEN <<[marker |-> "predictions", expects |-> shift]>> ELSE <<>>
           labels == During(run, "labels", {run.tick})
           signature == [i \in DOMAIN labels |-> labels[i].id]
           Has(what) == \E i \in DOMAIN labels : labels[i].what = what
           risky == \E i \in DOMAIN labels : labels[i].risk >= 400
           latest == RecentFrames(run.memory, 1)
           outside == latest # <<>> /\ latest[1].source # "thought"
           looked == IF outside THEN <<[n |-> 1, source |-> latest[1].source]>> ELSE <<>>
           remembered == \/ \E i \in DOMAIN labels :
                                labels[i].what = "experienced" /\ labels[i].matched
                         \/ outside /\ latest[1].matched
           expected ==
             Expect(remembered, [tension |-> 100, risk_sensitivity |-> 150])
               \o Expect(Has("periodic") /\ risky,
                         [tension |-> 136, curiosity |-> 68, risk_sensitivity |-> 204])
               \o Expect(Has("internal"),
                         [tension |-> 266, risk_sensitivity |-> 190, stability |-> -152])
               \o Expect(Has("novel"), [curiosity |-> 155, tension |-> -31])
<1>1. \/ run' = run /\ seen' = seen
      \/ /\ run' = Commit([run EXCEPT !.memory = AddWindows(@, looked)], expected)
         /\ seen' = [seen EXCEPT !["predictor"] = signature]
  BY DEF Predict
<1>0. Looks(looked)
  BY OneLook, NoLooks
<1> HIDE DEF labels, signature, Has, risky, latest, outside, looked, remembered
<1>2. ASSUME NEW c, NEW d PROVE Bodies(Expect(c, d), {"predictions"})
  <2> DEFINE b == [marker |-> "predictions", expects |-> d]
  <2>1. "marker" \in DOMAIN b /\ "from" \notin DOMAIN b /\ b.marker \in {"predictions"}
    OBVIOUS
  <2> HIDE DEF b
  <2>2. Bodies(<<b>>, {"predictions"})
    BY <2>1, OneBody
  <2>3. Expect(c, d) = <<b>> \/ Expect(c, d) = <<>>
    BY DEF b
  <2> HIDE DEF Expect
  <2> QED
    BY <2>2, <2>3, NoBodies
<1> HIDE DEF Expect
<1>3. Bodies(expected, {"predictions"})
  BY <1>2, JoinBodies
<1> HIDE DEF expected
<1>4. {"predictions"} \in SUBSET (Markers \ {ToneMarker})
  BY DEF Markers, FrameMarkers, ToneMarker
<1>5. RunInv(run) /\ FeltInv(run, relief) /\ DOMAIN seen = Readers \cup {"predictor"}
  BY DEF FlowInv
<1>6. Moves(run', run, relief, {"predictions"})
  BY <1>0, <1>1, <1>3, <1>4, <1>5, LooksMove, MovesNowhere
<1>7. DOMAIN seen' = DOMAIN seen /\ seen'["pressure"] = seen["pressure"]
  BY <1>1, <1>5, SeenIs
<1>8. pc = "predict" /\ pc' = "tone" /\ relief' = relief /\ feeds' = feeds
  BY DEF Predict
<1> QED
  BY <1>6, <1>7, <1>8, PhaseKeeps

LEMMA FeelInputsKeeps ==
  ASSUME LogAssumption, WindowAssumption, FlowInv, FeelInputs
  PROVE  FlowInv'
<1>1. /\ pc = "tone" /\ pc' = "think" /\ relief' = relief /\ feeds' = feeds /\ seen' = seen
      /\ run' = RunInputs(run)
  BY DEF FeelInputs
<1>2. Moves(run', run, relief, {ToneMarker})
  BY <1>1, InputsMove DEF FlowInv
<1>3. "consolidation_pressures" \notin {ToneMarker} /\ "effects" \notin {ToneMarker}
  BY DEF ToneMarker
<1> QED
  BY <1>1, <1>2, <1>3, PhaseKeeps

LEMMA ThinkKeeps ==
  ASSUME LogAssumption, WindowAssumption, FlowInv, Think
  PROVE  FlowInv'
<1> DEFINE body == [marker |-> "self_generated_thought", source |-> "thought"]
<1>1. /\ pc = "think" /\ pc' = "press" /\ relief' = relief /\ feeds' = feeds
      /\ seen' = [seen EXCEPT !["thoughts"] = run.tick]
      /\ run' = run \/ run' = Commit(run, <<body>>)
  BY DEF Think
<1>2. Bodies(<<body>>, Thought)
  <2>1. "marker" \in DOMAIN body /\ "from" \notin DOMAIN body /\ body.marker \in Thought
    BY DEF Thought
  <2> HIDE DEF body
  <2> QED
    BY <2>1, OneBody
<1> HIDE DEF body
<1>3. Thought \in SUBSET (Markers \ {ToneMarker})
  BY DEF Thought, Markers, FrameMarkers, ToneMarker
<1>4. RunInv(run) /\ FeltInv(run, relief) /\ DOMAIN seen = Readers \cup {"predictor"}
  BY DEF FlowInv
<1>5. Moves(run', run, relief, Thought)
  BY <1>1, <1>2, <1>3, <1>4, CommitAdds, AddsMove, MovesNowhere
<1>6. DOMAIN seen' = DOMAIN seen /\ seen'["pressure"] = seen["pressure"]
  BY <1>1, <1>4, SeenIs
<1>7. "consolidation_pressures" \notin Thought /\ "effects" \notin Thought
  BY DEF Thought
<1> QED
  BY <1>1, <1>5, <1>6, <1>7, PhaseKeeps


\* What comes into the sight of a reader by a commit.
LEMMA CommitSees ==
  ASSUME LogAssumption, NEW r, RunInv(r), NEW markers \in SUBSET Markers,
         NEW bodies, Bodies(bodies, markers), bodies # <<>>
  PROVE  Sees(Commit(r, bodies).memory, r.memory, OpsOf(r, bodies))
<1> DEFINE ops == OpsOf(r, bodies)
<1>1. DOMAIN r = RunFields /\ r.next \in Int /\ r.tick \in Int /\ MemoryInv(r.memory, r.next, r.tick)
  BY DEF RunInv
<1>2. NewOps(ops, r.next, r.tick)
  BY <1>1, OpsAreNew
<1>3. Commit(r, bodies).memory = ApplyPending(r.memory, ops)
  BY <1>1 DEF Commit, OpsOf, RunFields
<1> HIDE DEF ops
<1> QED
  BY <1>1, <1>2, <1>3, AppliedSees DEF ops

\* The pressure that is told in a tick after the last is the only one of it.
LEMMA PressKeeps ==
  ASSUME LogAssumption, WindowAssumption, FlowInv, Press
  PROVE  FlowInv'
<1> DEFINE body == [marker |-> "consolidation_pressures",
                    level |-> PressureLevel(Pressure(run.memory))]
           kind == {"consolidation_pressures"}
           l == "consolidation_pressures"
<1>1. /\ pc = "press" /\ pc' = "act" /\ relief' = relief /\ feeds' = feeds
      /\ seen' = [seen EXCEPT !["pressure"] = run.tick]
      /\ run' = IF run.tick = seen["pressure"] THEN run ELSE Commit(run, <<body>>)
  BY DEF Press
<1>2. Bodies(<<body>>, kind) /\ Len(<<body>>) = 1
  <2>1. "marker" \in DOMAIN body /\ "from" \notin DOMAIN body /\ body.marker \in kind
    OBVIOUS
  <2> HIDE DEF body, kind
  <2> QED
    BY <2>1, OneBody
<1> HIDE DEF body
<1>3. kind \in SUBSET (Markers \ {ToneMarker}) /\ l \in Ordered /\ l \in Markers \ FrameMarkers
      /\ kind \in SUBSET Markers
  BY ListsAreNamed DEF Markers, FrameMarkers, ToneMarker
<1>4. /\ RunInv(run) /\ FeltInv(run, relief) /\ DOMAIN seen = Readers \cup {"predictor"}
      /\ seen["pressure"] \in Int /\ seen["pressure"] <= run.tick /\ run.tick \in Nat
      /\ PressuresOnce(run.memory, seen["pressure"])
  BY DEF FlowInv, RunInv
<1>5. DOMAIN seen' = DOMAIN seen /\ seen'["pressure"] = run.tick
  BY <1>1, <1>4, SeenIs
<1>6. Moves(run', run, relief, kind)
  <2>1. Adds(Commit(run, <<body>>), run, kind)
    BY <1>2, <1>3, <1>4, CommitAdds
  <2> HIDE DEF kind
  <2> QED
    BY <1>1, <1>4, <2>1, AddsMove, MovesNowhere
<1>7. Heard(run', relief, "effects")
  <2>1. "effects" \in Markers \ FrameMarkers /\ relief \subseteq relief /\ "effects" \notin kind
    BY FeltAreKinds
  <2> HIDE DEF kind
  <2> QED
    BY <1>6, <2>1, StaysHeard DEF FlowInv, Moves
<1>8. PressuresOnce(run'.memory, run.tick)
  <2>1. CASE run.tick = seen["pressure"]
    BY <1>1, <1>4, <2>1
  <2>2. CASE run.tick # seen["pressure"]
    <3> DEFINE ops == OpsOf(run, <<body>>)
               old == Range(run.memory.lists[l])
    <3>1. Sees(run'.memory, run.memory, ops)
      <4>1. <<body>> # <<>> /\ run' = Commit(run, <<body>>)
        BY <1>1, <2>2
      <4> HIDE DEF kind
      <4> QED
        BY <1>2, <1>3, <1>4, <4>1, CommitSees
    <3>2. \A x, y \in Range(ops) : x = y
      BY <1>2 DEF OpsOf, Range
    <3>3. \A x \in Range(ops) : x.tick = run.tick
      <4>1. NewOps(ops, run.next, run.tick)
        <5>1. run.next \in Int /\ run.tick \in Int /\ <<body>> # <<>>
          BY <1>4 DEF RunInv
        <5> HIDE DEF kind
        <5> QED
          BY <1>2, <1>3, <5>1, OpsAreNew
      <4> QED
        BY <4>1 DEF NewOps
    <3> HIDE DEF ops
    <3>4. \A x \in Range(run'.memory.lists[l]) : x \in old \/ x \in Range(ops)
      BY <1>3, <3>1 DEF Sees
    <3>5. \A x \in old : x.tick <= seen["pressure"]
      BY <1>4 DEF PressuresOnce
    <3>6. \A x, y \in old : x.tick = y.tick => x = y
      BY <1>4 DEF PressuresOnce
    <3>7. \A x \in old : x.tick \in Int
      BY <1>3, <1>4 DEF RunInv, MemoryInv, ListInv, Known
    <3>8. \A x \in old : x.tick <= run.tick /\ x.tick # run.tick
      BY <1>4, <2>2, <3>5, <3>7
    <3> HIDE DEF old
    <3>9. \A x \in Range(run'.memory.lists[l]) : x.tick <= run.tick
      BY <1>4, <3>3, <3>4, <3>8
    <3>10. \A x, y \in Range(run'.memory.lists[l]) : x.tick = y.tick => x = y
      BY <3>2, <3>3, <3>4, <3>6, <3>8
    <3> QED
      BY <3>9, <3>10 DEF PressuresOnce
  <2> QED
    BY <2>1, <2>2
<1>9. RunInv(run') /\ FeltInv(run', relief) /\ run'.tick = run.tick
  BY <1>6 DEF Moves
<1>10. run.tick \in Int /\ run.tick <= run.tick
  BY <1>4
<1>11. feeds \in Nat /\ feeds <= MaxFeeds /\ feeds >= 1
  BY <1>1 DEF FlowInv
<1>12. pc' \notin {"settle", "feed"}
  BY <1>1
<1>13. DOMAIN seen' = Readers \cup {"predictor"}
  BY <1>4, <1>5
<1> QED
  BY <1>1, <1>5, <1>7, <1>8, <1>9, <1>10, <1>11, <1>12, <1>13 DEF FlowInv

LEMMA ActKeeps ==
  ASSUME LogAssumption, WindowAssumption, FlowAssumption, FlowInv, Act
  PROVE  FlowInv'
<1> DEFINE others == Markers \ {ToneMarker, "consolidation_pressures"}
<1>1. PICK burst \in Bursts(feeds) :
        \/ run' = ThinkEffects(RunEffects(Commit(run, burst)))
        \/ /\ \A i \in DOMAIN burst : burst[i].marker # "effects"
           /\ run' = Commit(run, burst)
  BY DEF Act
<1>2. pc = "act" /\ pc' = "consolidate" /\ relief' = relief /\ feeds' = feeds /\ seen' = seen
  BY DEF Act
<1>3. feeds \in 1 .. MaxFeeds
  BY <1>2 DEF FlowInv, FlowAssumption
<1>4. Bodies(burst, others)
  BY <1>3 DEF FlowAssumption, Bodies, Body, IsList
<1>5. RunInv(run) /\ FeltInv(run, relief) /\ DOMAIN seen = Readers \cup {"predictor"}
      /\ Heard(run, relief, "effects")
  BY DEF FlowInv
<1> DEFINE c == Commit(run, burst)
<1>6. others \in SUBSET (Markers \ {ToneMarker}) /\ "consolidation_pressures" \notin others
  OBVIOUS
<1> HIDE DEF others
<1>7. Moves(c, run, relief, others)
  BY <1>4, <1>5, <1>6, CommitAdds, AddsMove
<1>8. "effects" \in Markers \ FrameMarkers /\ "effects" \in Felt /\ relief \subseteq relief
  BY FeltAreKinds
<1>9. CASE run' = ThinkEffects(RunEffects(c))
  <2> DEFINE e == RunEffects(c)
  <2>1. e = AnswerAll(c, "effects", Total(Said(Fresh(c, "effects"), EffectSays)))
    BY DEF RunEffects, Answer
  <2> HIDE DEF c, e
  <2>2. Feels(e, c, relief, "effects")
    BY <1>7, <1>8, <2>1, AnswerAllFeels DEF Moves
  <2>3. Moves(run', e, relief, Thought)
    BY <1>9, <2>2, ThoughtsMove DEF Feels, Moves, e
  <2>4. Moves(run', c, relief, Thought \cup {ToneMarker})
    BY <1>7, <2>2, <2>3, MovesOn DEF Feels, Moves
  <2>5. Moves(run', run, relief, (Thought \cup {ToneMarker}) \cup others)
    BY <1>5, <1>7, <2>4, MovesOn
  <2>6. "effects" \notin Thought /\ "consolidation_pressures" \notin Thought \cup {ToneMarker}
    BY DEF Thought, ToneMarker
  <2>7. Heard(run', relief, "effects")
    BY <1>8, <2>2, <2>3, <2>6, StaysHeard DEF Feels, Moves
  <2>8. PressuresOnce(run'.memory, seen["pressure"])
    BY <1>6, <2>5, <2>6, PressuresStay DEF FlowInv, Moves
  <2> QED
    BY <1>2, <2>5, <2>7, <2>8 DEF FlowInv, Moves
<1>10. CASE run' = c /\ \A i \in DOMAIN burst : burst[i].marker # "effects"
  <2> DEFINE rest == others \ {"effects"}
  <2>1. Bodies(burst, rest)
    BY <1>4, <1>10 DEF Bodies, Body, Range
  <2>2. rest \in SUBSET (Markers \ {ToneMarker}) /\ "consolidation_pressures" \notin rest
        /\ "effects" \notin rest
    BY <1>6
  <2> HIDE DEF rest
  <2>3. Moves(run', run, relief, rest)
    BY <1>5, <1>10, <2>1, <2>2, CommitAdds, AddsMove
  <2> QED
    BY <1>2, <2>2, <2>3, PhaseKeeps
<1> QED
  BY <1>1, <1>9, <1>10

LEMMA ConsolidateKeeps ==
  ASSUME LogAssumption, WindowAssumption, FlowInv, Consolidate
  PROVE  FlowInv'
<1>1. /\ pc = "consolidate" /\ pc' = "project" /\ feeds' = feeds
      /\ \/ /\ run' = Relieved(run) /\ relief' = relief \cup {run.next}
            /\ seen' = [seen EXCEPT !["processor"] = run.tick]
         \/ run' = run /\ relief' = relief /\ seen' = seen
  BY DEF Consolidate
<1>2. RunInv(run) /\ FeltInv(run, relief) /\ DOMAIN seen = Readers \cup {"predictor"}
      /\ Heard(run, relief, "effects")
  BY DEF FlowInv
<1>3. CASE run' = run /\ relief' = relief /\ seen' = seen
  BY <1>1, <1>3 DEF FlowInv
<1>4. CASE /\ run' = Relieved(run) /\ relief' = relief \cup {run.next}
           /\ seen' = [seen EXCEPT !["processor"] = run.tick]
  <2>1. /\ Moves(run', run, relief', {"effects", ToneMarker})
        /\ Heard(run', relief', "effects")
    BY <1>2, <1>4, RelievedMoves
  <2>2. DOMAIN seen' = DOMAIN seen /\ seen'["pressure"] = seen["pressure"]
    BY <1>2, <1>4, SeenIs
  <2>3. "consolidation_pressures" \notin {"effects", ToneMarker}
    BY DEF ToneMarker
  <2>4. PressuresOnce(run'.memory, seen["pressure"])
    BY <2>1, <2>3, PressuresStay DEF FlowInv, Moves
  <2> QED
    BY <1>1, <2>1, <2>2, <2>4 DEF FlowInv, Moves
<1> QED
  BY <1>1, <1>3, <1>4

LEMMA ProjectKeeps ==
  ASSUME LogAssumption, WindowAssumption, FlowInv, Project
  PROVE  FlowInv'
<1>1. /\ pc = "project" /\ pc' = "settle" /\ relief' = relief /\ feeds' = feeds /\ seen' = seen
      /\ run' = Projected(run)
  BY DEF Project
<1>2. Hears(run', run, relief, Felt \ {"effects"})
  BY <1>1, ProjectedHears DEF FlowInv
<1>3. Moves(run', run, relief, {ToneMarker})
  BY <1>2 DEF Hears
<1>4. "consolidation_pressures" \notin {ToneMarker} /\ "effects" \notin {ToneMarker}
      /\ "effects" \in Markers \ FrameMarkers /\ relief \subseteq relief
  BY FeltAreKinds DEF ToneMarker
<1>5. Heard(run', relief, "effects")
  BY <1>3, <1>4, StaysHeard DEF FlowInv, Moves
<1>6. \A k \in Felt : Heard(run', relief, k)
  BY <1>2, <1>5 DEF Hears
<1> QED
  BY <1>1, <1>3, <1>4, <1>6, PhaseKeeps

LEMMA SettleKeeps ==
  ASSUME LogAssumption, WindowAssumption, FlowInv, Settle
  PROVE  FlowInv'
<1>1. /\ pc = "settle" /\ pc' = "feed" /\ relief' = relief /\ feeds' = feeds /\ seen' = seen
      /\ \E shown : run' = Homeostasis(run, shown)
  BY DEF Settle
<1>2. Moves(run', run, relief, {ToneMarker})
  BY <1>1, HomeostasisMoves DEF FlowInv
<1>3. "consolidation_pressures" \notin {ToneMarker} /\ "effects" \notin {ToneMarker}
      /\ relief \subseteq relief
  BY DEF ToneMarker
<1>4. ASSUME NEW k \in Felt PROVE Heard(run', relief, k)
  <2>1. k \in Markers \ FrameMarkers /\ k \notin {ToneMarker} /\ Heard(run, relief, k)
    BY <1>1, <1>4, FeltAreKinds DEF FlowInv
  <2> QED
    BY <1>2, <1>3, <2>1, StaysHeard DEF Moves
<1> QED
  BY <1>1, <1>2, <1>3, <1>4, PhaseKeeps


\* What is fed is a frame, in the same tick or in a later one.
LEMMA FeedKeeps ==
  ASSUME LogAssumption, WindowAssumption, FlowAssumption, FlowInv, Feed
  PROVE  FlowInv'
<1>1. /\ pc = "feed" /\ pc' # "feed" /\ pc' # "settle" /\ relief' = relief /\ seen' = seen
      /\ feeds < MaxFeeds /\ feeds' = feeds + 1
      /\ \E input \in Inputs(feeds') :
           run' = Commit([run EXCEPT !.tick = @ + input.later],
                         <<Over([marker |-> "raw_input_write"], input)>>)
  BY DEF Feed
<1>2. feeds' \in 1 .. MaxFeeds /\ feeds' \in Nat /\ feeds' <= MaxFeeds /\ feeds' >= 1
  BY <1>1 DEF FlowInv, FlowAssumption
<1>3. PICK input \in Inputs(feeds') :
        run' = Commit([run EXCEPT !.tick = @ + input.later],
                      <<Over([marker |-> "raw_input_write"], input)>>)
  BY <1>1
<1>4. input.later \in Nat /\ "from" \notin DOMAIN input
  BY <1>2, <1>3 DEF FlowAssumption
<1> DEFINE body == Over([marker |-> "raw_input_write"], input)
           r1 == [run EXCEPT !.tick = @ + input.later]
           raw == {"raw_input_write"}
<1>5. run' = Commit(r1, <<body>>)
  BY <1>3
<1>6. "marker" \in DOMAIN body /\ "from" \notin DOMAIN body /\ body.marker \in raw
  BY <1>4 DEF Over
<1> HIDE DEF body
<1>7. raw \in SUBSET (Markers \ {ToneMarker}) /\ "effects" \notin raw
      /\ "consolidation_pressures" \notin raw
  BY DEF Markers, FrameMarkers, ToneMarker
<1> HIDE DEF raw
<1>8. Bodies(<<body>>, raw)
  BY <1>6, OneBody
<1>9. /\ RunInv(run) /\ FeltInv(run, relief) /\ DOMAIN seen = Readers \cup {"predictor"}
      /\ DOMAIN run = RunFields /\ run.next \in Nat /\ run.tick \in Nat
      /\ run.next \in Int /\ run.tick \in Int /\ MemoryInv(run.memory, run.next, run.tick)
      /\ seen["pressure"] \in Int /\ seen["pressure"] <= run.tick
      /\ PressuresOnce(run.memory, seen["pressure"]) /\ Heard(run, relief, "effects")
  BY DEF FlowInv, RunInv
<1>10. /\ DOMAIN r1 = RunFields /\ r1.memory = run.memory /\ r1.next = run.next
       /\ r1.tick = run.tick + input.later /\ r1.handled = run.handled /\ r1.updates = run.updates
  BY <1>9 DEF RunFields
<1> HIDE DEF r1
<1>11. r1.tick \in Nat /\ r1.tick \in Int /\ run.tick <= r1.tick /\ run.next <= run.next
  BY <1>4, <1>9, <1>10
<1>12. RunInv(r1)
  <2>1. MemoryInv(run.memory, run.next, r1.tick)
    BY <1>9, <1>11, MemoryMovesOn
  <2> QED
    BY <1>9, <1>10, <1>11, <2>1 DEF RunInv
<1>13. FeltInv(r1, relief)
  BY <1>9, <1>10 DEF FeltInv
<1>14. Moves(run', r1, relief, raw)
  BY <1>5, <1>7, <1>8, <1>12, <1>13, CommitAdds, AddsMove
<1>15. "effects" \in Markers \ FrameMarkers
  BY FeltAreKinds
<1>16. Heard(r1, relief, "effects")
  <2>1. \A x \in Range(RecentEntries(run, "effects")) : x.tick \in Int /\ x.tick <= run.tick
    BY <1>9, <1>15, RecentAre DEF Known
  <2>2. RecentEntries(r1, "effects") = RecentEntries(run, "effects")
    BY <1>10 DEF RecentEntries
  <2>3. \A x \in Range(RecentEntries(run, "effects")) : x.tick = r1.tick => x.tick = run.tick
    BY <1>9, <1>11, <2>1
  <2> QED
    BY <1>9, <1>10, <2>2, <2>3 DEF Heard
<1>17. Heard(run', relief, "effects")
  <2>1. relief \subseteq relief
    OBVIOUS
  <2> QED
    BY <1>7, <1>14, <1>15, <1>16, <2>1, StaysHeard DEF Moves
<1>18. PressuresOnce(run'.memory, seen["pressure"])
  <2>1. PressuresOnce(r1.memory, seen["pressure"])
    BY <1>9, <1>10
  <2> QED
    BY <1>7, <1>14, <2>1, PressuresStay DEF Moves
<1>19. seen["pressure"] <= run'.tick
  <2>1. run'.tick = r1.tick
    BY <1>14 DEF Moves
  <2> QED
    BY <1>9, <1>11, <2>1
<1>20. RunInv(run') /\ FeltInv(run', relief)
  BY <1>14 DEF Moves
<1>21. pc' \notin {"settle", "feed"}
  BY <1>1
<1> QED
  BY <1>1, <1>2, <1>9, <1>17, <1>18, <1>19, <1>20, <1>21 DEF FlowInv

LEMMA NothingYet ==
  ASSUME LogAssumption, WindowAssumption, FlowAssumption, Init
  PROVE  FlowInv
<1>1. /\ DOMAIN run = RunFields /\ run.memory = EmptyMemory(InitialTone) /\ run.handled = {}
      /\ run.tick = 1 /\ run.next = 1 /\ run.updates = <<>>
  BY DEF Init, RunFields
<1>2. /\ pc = "feed" /\ DOMAIN seen = Readers \cup {"predictor"} /\ relief = {} /\ feeds = 0
      /\ seen["pressure"] = 0
  BY SeenIs DEF Init
<1>3. /\ DOMAIN run.memory = {"events", "lists", "tone"} /\ DOMAIN run.memory.lists = SideLists
      /\ run.memory.events = <<>> /\ run.memory.tone = InitialTone
      /\ \A l \in SideLists : run.memory.lists[l] = <<>>
  BY <1>1 DEF EmptyMemory
<1>4. IsList(<<>>) /\ InTime(<<>>) /\ Range(<<>>) = {} /\ Len(<<>>) = 0 /\ DOMAIN <<>> = {}
  BY NoList DEF InTime
<1>5. /\ Ordered \subseteq SideLists /\ "windows" \in SideLists
      /\ \A l \in SideLists : MaxEntries[l] \in Nat
  BY ListsAreNamed DEF LogAssumption
<1>6. LogInv(run.memory, run.next, run.tick)
  BY <1>3, <1>4 DEF LogInv
<1>7. ListInv(run.memory, run.next, run.tick)
  BY <1>3, <1>4, <1>5 DEF ListInv
<1>8. ViewInv(run.memory)
  BY <1>3, <1>4 DEF ViewInv
<1>9. RunInv(run)
  BY <1>1, <1>6, <1>7, <1>8 DEF RunInv, MemoryInv
<1>10. FeltInv(run, relief)
  BY <1>1, <1>2, <1>3, <1>4, FirstTone DEF FeltInv
<1>11. "consolidation_pressures" \in Markers \ FrameMarkers
  BY DEF Markers, FrameMarkers
<1>12. PressuresOnce(run.memory, 0)
  BY <1>3, <1>4, <1>11, ListsAreNamed DEF PressuresOnce
<1>13. ASSUME NEW k \in Markers \ FrameMarkers PROVE Heard(run, relief, k)
  <2>1. k \in SideLists /\ run.memory.lists[k] = <<>>
    BY <1>3, <1>13, ListsAreNamed
  <2>2. Range(RecentEntries(run, k)) = {}
    BY <1>4, <1>9, <1>13, <2>1, RecentAre
  <2> QED
    BY <2>2 DEF Heard
<1>14. /\ \A k \in Felt : Heard(run, relief, k)
       /\ Heard(run, relief, "effects")
  BY <1>13, FeltAreKinds
<1>15. feeds \in Nat /\ feeds <= MaxFeeds
  BY <1>2 DEF FlowAssumption
<1>16. seen["pressure"] \in Int /\ seen["pressure"] <= run.tick
  BY <1>1, <1>2
<1> QED
  BY <1>2, <1>9, <1>10, <1>12, <1>14, <1>15, <1>16 DEF FlowInv

\* The invariant is kept by every phase.
LEMMA FlowGoesOn ==
  ASSUME LogAssumption, WindowAssumption, FlowAssumption, FlowInv, [Next]_vars
  PROVE  FlowInv'
<1>1. CASE UNCHANGED vars
  BY <1>1 DEF vars, FlowInv, RunInv, FeltInv, PressuresOnce, Heard
<1> QED
  BY <1>1, FeedKeeps, LabelInputsKeeps, PredictKeeps, FeelInputsKeeps, ThinkKeeps, PressKeeps,
     ActKeeps, ConsolidateKeeps, ProjectKeeps, SettleKeeps DEF Next

\* What is the basis of two positions at most.
LEMMA TwiceCounts ==
  ASSUME NEW updates, NEW e, NEW handled, Twice(updates, e, handled)
  PROVE  Cardinality({i \in DOMAIN updates : e \in updates[i].based}) <= 2
<1> DEFINE S == {i \in DOMAIN updates : e \in updates[i].based}
<1>1. PICK a, b : \A i \in DOMAIN updates : e \in updates[i].based => i = a \/ i = b
  BY DEF Twice
<1> DEFINE T == {a} \cup {b}
<1>2. S \in SUBSET T
  BY <1>1
<1>3. IsFiniteSet({a}) /\ Cardinality({a}) = 1
  BY FS_Singleton
<1>4. IsFiniteSet(T) /\ (Cardinality(T) = 1 \/ Cardinality(T) = 1 + 1)
  BY <1>3, FS_AddElement
<1> HIDE DEF S, T
<1>5. IsFiniteSet(S) /\ Cardinality(S) <= Cardinality(T)
  BY <1>2, <1>4, FS_Subset
<1>6. Cardinality(S) \in Nat
  BY <1>5, FS_CardinalityType
<1>7. Cardinality(S) <= 2
  BY <1>4, <1>5, <1>6
<1> QED
  BY <1>7 DEF S

LEMMA FlowFollowsLog ==
  ASSUME LogAssumption, FlowInv
  PROVE  ViewsFollowLog
<1>1. run.next \in Int /\ run.tick \in Int /\ MemoryInv(run.memory, run.next, run.tick)
  BY DEF FlowInv, RunInv
<1>2. SideListsFollowLog
  BY <1>1, MemoryFollowsLog
<1>3. ToneIsTheLog
  BY DEF ToneIsTheLog, FlowInv, FeltInv
<1> QED
  BY <1>2, <1>3 DEF ViewsFollowLog

LEMMA FlowFeelsOnce ==
  ASSUME FlowInv
  PROVE  FeltExactlyOnce
<1>1. \A i, j \in DOMAIN run.updates :
        i # j => run.updates[i].based \cap run.updates[j].based \subseteq relief
  BY DEF FlowInv, FeltInv
<1>2. \A e \in relief :
        Cardinality({i \in DOMAIN run.updates : e \in run.updates[i].based}) <= 2
  BY TwiceCounts DEF FlowInv, FeltInv
<1>3. \A e, f \in Entries("consolidation_pressures") : e.tick = f.tick => e = f
  BY DEF FlowInv, PressuresOnce, Entries
<1>4. pc \in {"settle", "feed"} =>
        \A k \in Felt : \A e \in Range(RecentOf(run.memory, k, Window[k])) :
            e.tick = run.tick => e.id \in run.handled \cup relief
  BY DEF FlowInv, Heard, RecentEntries
<1> QED
  BY <1>1, <1>2, <1>3, <1>4 DEF FeltExactlyOnce

\* Whatever is fed and however the lists are capped, the tone is what all updates
\* make of the initial one, and each side list shows what the log holds of its
\* marker.
THEOREM ViewsAlwaysFollow == Spec => []ViewsFollowLog
<1>1. LogAssumption /\ WindowAssumption /\ FlowAssumption
  BY LogAssumption, WindowAssumption, FlowAssumption
<1>2. Init => FlowInv
  BY <1>1, NothingYet
<1>3. FlowInv /\ [Next]_vars => FlowInv'
  BY <1>1, FlowGoesOn
<1>4. FlowInv => ViewsFollowLog
  BY <1>1, FlowFollowsLog
<1> QED
  BY <1>2, <1>3, <1>4, PTL DEF Spec

\* No update is based on an event another is based on but a relief that was told,
\* and after the projection nothing a handler sees of the tick is left unfelt.
THEOREM FeltOnlyOnce == Spec => []FeltExactlyOnce
<1>1. LogAssumption /\ WindowAssumption /\ FlowAssumption
  BY LogAssumption, WindowAssumption, FlowAssumption
<1>2. Init => FlowInv
  BY <1>1, NothingYet
<1>3. FlowInv /\ [Next]_vars => FlowInv'
  BY <1>1, FlowGoesOn
<1>4. FlowInv => FeltExactlyOnce
  BY FlowFeelsOnce
<1> QED
  BY <1>2, <1>3, <1>4, PTL DEF Spec

(***************************************************************************)
(* The verdict of a scenario                                               *)
(***************************************************************************)
Holding(list, s) == {i \in DOMAIN list : list[i] \in s}

LEMMA HoldingIs ==
  ASSUME NEW list, IsList(list), NEW s
  PROVE  /\ IsFiniteSet(Holding(list, s)) /\ Cardinality(Holding(list, s)) \in Nat
         /\ \A x \in s : Cardinality(Holding(list, s))
                           = Cardinality(Holding(list, {x})) + Cardinality(Holding(list, s \ {x}))
         /\ Cardinality(Holding(list, {})) = 0
         /\ Cardinality(Holding(list, Range(list))) = Len(list)
<1>1. ASSUME NEW r PROVE IsFiniteSet(Holding(list, r)) /\ Cardinality(Holding(list, r)) \in Nat
  <2>1. Len(list) \in Nat /\ DOMAIN list = 1 .. Len(list)
    BY ListIs
  <2>2. IsFiniteSet(1 .. Len(list))
    BY <2>1, FS_Interval
  <2>3. Holding(list, r) \subseteq 1 .. Len(list)
    BY <2>1 DEF Holding
  <2>4. IsFiniteSet(Holding(list, r))
    BY <2>2, <2>3, FS_Subset
  <2> QED
    BY <2>4, FS_CardinalityType
<1>2. ASSUME NEW x \in s
      PROVE  Cardinality(Holding(list, s))
               = Cardinality(Holding(list, {x})) + Cardinality(Holding(list, s \ {x}))
  <2> DEFINE A == Holding(list, {x})
             B == Holding(list, s \ {x})
  <2>1. Holding(list, s) = A \cup B /\ A \cap B = {}
    BY <1>2 DEF Holding
  <2>2. IsFiniteSet(A) /\ IsFiniteSet(B) /\ Cardinality(A) \in Nat /\ Cardinality(B) \in Nat
    BY <1>1
  <2> HIDE DEF A, B
  <2>3. Cardinality(A \cup B) = Cardinality(A) + Cardinality(B) - Cardinality(A \cap B)
    BY <2>2, FS_Union
  <2>4. Cardinality(A \cap B) = 0
    BY <2>1, FS_EmptySet
  <2>5. Cardinality(Holding(list, s)) = Cardinality(A) + Cardinality(B)
    BY <2>1, <2>2, <2>3, <2>4
  <2> QED
    BY <2>5 DEF A, B
<1>3. Cardinality(Holding(list, {})) = 0
  <2>1. Holding(list, {}) = {}
    BY DEF Holding
  <2> QED
    BY <2>1, FS_EmptySet
<1>4. Cardinality(Holding(list, Range(list))) = Len(list)
  <2>1. Len(list) \in Nat /\ DOMAIN list = 1 .. Len(list)
    BY ListIs
  <2>2. Holding(list, Range(list)) = 1 .. Len(list)
    BY <2>1 DEF Holding, Range
  <2>3. ASSUME NEW n \in Nat PROVE Cardinality(1 .. n) = n
    BY FS_Interval
  <2> QED
    BY <2>1, <2>2, <2>3
<1>5. IsFiniteSet(Holding(list, s)) /\ Cardinality(Holding(list, s)) \in Nat
  BY <1>1
<1> QED
  BY <1>2, <1>3, <1>4, <1>5, Zenon

\* Adding up how often each entry occurs gives the length of the list.
LEMMA CountsAddUp ==
  ASSUME NEW list, IsList(list)
  PROVE  SumFunction(Counts(list)) = Len(list)
<1> DEFINE S == Range(list)
           c == Counts(list)
           Unfolds(f) == f = [s \in SUBSET S |->
                              IF s = {} THEN 0
                              ELSE LET x == CHOOSE y \in s : TRUE IN c[x] + f[s \ {x}]]
           iter == CHOOSE f : Unfolds(f)
           held == [s \in SUBSET S |-> Cardinality(Holding(list, s))]
<1>1. SumFunction(c) = iter[S]
  <2>1. DOMAIN c = S
    BY DEF Counts
  <2> HIDE DEF c
  <2>2. SumFunction(c) = iter[DOMAIN c]
    BY <2>1 DEF SumFunction, SumFunctionOnSet, FoldFunctionOnSet, MapThenFoldSet
  <2> QED
    BY <2>1, <2>2
<1>2. IsFiniteSet(S) /\ Cardinality(S) \in Nat
  <2>1. Len(list) \in Nat /\ DOMAIN list = 1 .. Len(list) /\ list \in [1 .. Len(list) -> S]
    BY DEF IsList
  <2>2. list \in Surjection(1 .. Len(list), S)
    BY <2>1, ListIs DEF Surjection
  <2>3. IsFiniteSet(1 .. Len(list))
    BY <2>1, FS_Interval
  <2>4. IsFiniteSet(S)
    BY <2>2, <2>3, FS_Surjection
  <2> QED
    BY <2>4, FS_CardinalityType
<1>3. \A x \in S : c[x] = Cardinality(Holding(list, {x}))
  <2>1. ASSUME NEW x \in S PROVE c[x] = Cardinality(Holding(list, {x}))
    <3>1. c[x] = Cardinality({i \in DOMAIN list : list[i] = x})
      BY DEF Counts
    <3>2. Holding(list, {x}) = {i \in DOMAIN list : list[i] = x}
      BY DEF Holding
    <3> QED
      BY <3>1, <3>2
  <2> QED
    BY <2>1
<1> HIDE DEF c, S
<1>4. Unfolds(held)
  <2>1. ASSUME NEW s \in SUBSET S, s # {}
        PROVE  LET x == CHOOSE y \in s : TRUE
               IN  held[s] = c[x] + held[s \ {x}]
    <3> DEFINE x == CHOOSE y \in s : TRUE
    <3>1. x \in s /\ x \in S
      BY <2>1
    <3> HIDE DEF x
    <3>2. Cardinality(Holding(list, s))
            = Cardinality(Holding(list, {x})) + Cardinality(Holding(list, s \ {x}))
      BY <3>1, HoldingIs
    <3>3. held[s] = c[x] + held[s \ {x}]
      BY <1>3, <3>1, <3>2
    <3> QED
      BY <3>3 DEF x
  <2>2. held[{}] = 0
    BY HoldingIs
  <2> QED
    BY <2>1, <2>2
<1> HIDE DEF held
<1>5. Unfolds(iter)
  BY <1>4
<1> HIDE DEF iter
<1> DEFINE Good == {k \in Nat : \A s \in SUBSET S : Cardinality(s) = k => iter[s] = held[s]}
<1>6. 0 \in Good
  <2>1. ASSUME NEW s \in SUBSET S, Cardinality(s) = 0 PROVE iter[s] = held[s]
    <3>1. s = {}
      BY <1>2, <2>1, FS_Subset, FS_EmptySet
    <3> QED
      BY <1>4, <1>5, <3>1
  <2> QED
    BY <2>1
<1>7. ASSUME NEW k \in Nat, k \in Good PROVE k + 1 \in Good
  <2>1. ASSUME NEW s \in SUBSET S, Cardinality(s) = k + 1 PROVE iter[s] = held[s]
    <3> DEFINE x == CHOOSE y \in s : TRUE
    <3>1. IsFiniteSet(s) /\ s # {}
      <4>1. IsFiniteSet(s)
        BY <1>2, FS_Subset
      <4> QED
        BY <2>1, <4>1, FS_EmptySet
    <3>2. x \in s
      BY <3>1
    <3>3. iter[s] = c[x] + iter[s \ {x}] /\ held[s] = c[x] + held[s \ {x}]
      BY <1>4, <1>5, <3>1
    <3> HIDE DEF x
    <3>4. Cardinality(s \ {x}) = k
      BY <2>1, <3>1, <3>2, FS_RemoveElement
    <3>5. iter[s \ {x}] = held[s \ {x}]
      BY <1>7, <3>4
    <3> QED
      BY <3>3, <3>5
  <2> QED
    BY <2>1
<1> HIDE DEF Good
<1>8. Cardinality(S) \in Good
  BY <1>2, <1>6, <1>7, NatSets
<1>9. iter[S] = held[S]
  BY <1>8 DEF Good
<1>10. held[S] = Len(list)
  BY HoldingIs DEF held, S
<1> QED
  BY <1>1, <1>9, <1>10 DEF c, S

(***************************************************************************)
(* What drains leave of the log and the lists                              *)
(***************************************************************************)
LEMMA ListsOver ==
  ASSUME NEW T, NEW s, IsList(s), Range(s) \subseteq T
  PROVE  s \in Seq(T)
<1>1. Len(s) \in Nat /\ DOMAIN s = 1 .. Len(s) /\ s \in [1 .. Len(s) -> Range(s)]
  BY DEF IsList
<1>2. s \in [1 .. Len(s) -> T]
  BY <1>1
<1> QED
  BY <1>1, <1>2

LEMMA JoinThree ==
  ASSUME NEW s, NEW t, NEW u, IsList(s), IsList(t), IsList(u)
  PROVE  (s \o t) \o u = s \o (t \o u)
<1> DEFINE T == Range(s) \cup Range(t) \cup Range(u)
<1>1. s \in Seq(T) /\ t \in Seq(T) /\ u \in Seq(T)
  BY ListsOver
<1> HIDE DEF T
<1> QED
  BY <1>1

\* Memories of entries and tones of these sets.
Memories(entries, tones) ==
    [events : Seq(entries), lists : [SideLists -> Seq(entries)], tone : tones]

LEMMA AppliedWhole ==
  ASSUME NEW m, NEW ops, ops # <<>>
  PROVE  LET m2 == ApplyPending(m, ops)
         IN  m2 = [events |-> m2.events, lists |-> m2.lists, tone |-> m2.tone]
<1> DEFINE k == AddEvents(m, ops)
           r == ApplyRetention(k)
           first == Head(r.events).tick
           m2 == ApplySideListRetention(r, first)
<1>1. k = [events |-> k.events, lists |-> k.lists, tone |-> k.tone]
  BY DEF AddEvents
<1> HIDE DEF k
<1>2. r = [events |-> r.events, lists |-> r.lists, tone |-> r.tone]
  BY <1>1 DEF ApplyRetention
<1> HIDE DEF r
<1>3. m2 = [events |-> m2.events, lists |-> m2.lists, tone |-> m2.tone]
  BY <1>2 DEF ApplySideListRetention
<1>4. ApplyPending(m, ops) = m2
  BY DEF ApplyPending, r, k
<1> QED
  BY <1>3, <1>4

\* An end of a list is over what the list is over.
LEMMA LastOver ==
  ASSUME NEW T, NEW s \in Seq(T), NEW n \in Nat
  PROVE  LastOf(s, n) \in Seq(T)
<1>1. IsList(s) /\ Range(s) \subseteq T
  BY SequencesAreLists
<1>2. Ends(LastOf(s, n), s)
  BY <1>1, LastEnds
<1>3. IsList(LastOf(s, n)) /\ Range(LastOf(s, n)) \subseteq T
  BY <1>1, <1>2, EndsAreParts DEF Ends
<1> QED
  BY <1>3, ListsOver

LEMMA PickedOver ==
  ASSUME NEW T, NEW s \in Seq(T), NEW P \in SUBSET DOMAIN s
  PROVE  Picked(s, P) \in Seq(T)
<1>1. P \in SUBSET (1 .. Len(s))
  OBVIOUS
<1> QED
  BY <1>1, PickedIs

LEMMA AppliedOver ==
  ASSUME LogAssumption, NEW entries, NEW tones, \A e \in entries : e.tone \in tones,
         NEW m \in Memories(entries, tones), NEW ops \in Seq(entries)
  PROVE  ApplyPending(m, ops) \in Memories(entries, tones)
<1> DEFINE m2 == ApplyPending(m, ops)
<1>1. CASE ops = <<>>
  BY <1>1 DEF ApplyPending
<1>2. CASE ops # <<>>
  <2> DEFINE first == Head(m2.events).tick
             toned == {i \in DOMAIN ops : ops[i].marker = ToneMarker}
             both(l) == m.lists[l] \o Picked(ops, Of(ops, l))
  <2>1. /\ DOMAIN m2.lists = SideLists
        /\ m2.events = LastOf(m.events \o ops, MaxEvents)
        /\ \A l \in SideLists : m2.lists[l] = LastOf(PruneByTick(both(l), first), MaxEntries[l])
        /\ m2.tone = IF toned = {} THEN m.tone ELSE ops[Max(toned)].tone
    BY <1>2, AppliedIs, ZenonT(60)
  <2>2. m2 = [events |-> m2.events, lists |-> m2.lists, tone |-> m2.tone]
    BY <1>2, AppliedWhole
  <2>3. m.events \in Seq(entries) /\ m.lists \in [SideLists -> Seq(entries)] /\ m.tone \in tones
    BY DEF Memories
  <2>4. m2.lists = [l \in SideLists |-> m2.lists[l]]
    <3> HIDE DEF m2
    <3> QED
      BY <1>2 DEF m2, ApplyPending, ApplySideListRetention, ApplyRetention, AddEvents
  <2> HIDE DEF m2, first
  <2>5. m2.events \in Seq(entries)
    <3>1. m.events \o ops \in Seq(entries) /\ MaxEvents \in Nat
      BY <2>3 DEF LogAssumption
    <3> QED
      BY <2>1, <3>1, LastOver
  <2>6. ASSUME NEW l \in SideLists PROVE m2.lists[l] \in Seq(entries)
    <3>1. Picked(ops, Of(ops, l)) \in Seq(entries)
      BY PickedOver DEF Of
    <3>2. both(l) \in Seq(entries)
      BY <2>3, <3>1
    <3> HIDE DEF both
    <3>3. PruneByTick(both(l), first) \in Seq(entries)
      BY <3>2, PickedOver DEF PruneByTick
    <3>4. MaxEntries[l] \in Nat
      BY DEF LogAssumption
    <3>5. LastOf(PruneByTick(both(l), first), MaxEntries[l]) \in Seq(entries)
      BY <3>3, <3>4, LastOver
    <3>6. m2.lists[l] = LastOf(PruneByTick(both(l), first), MaxEntries[l])
      BY <2>1
    <3> QED
      BY <3>5, <3>6
  <2>7. m2.tone \in tones
    <3>1. CASE toned = {}
      BY <2>1, <2>3, <3>1
    <3>2. CASE toned # {}
      <4>1. toned \in SUBSET (1 .. Len(ops)) /\ Len(ops) \in Nat /\ DOMAIN ops = 1 .. Len(ops)
        OBVIOUS
      <4> HIDE DEF toned
      <4>2. Max(toned) \in 1 .. Len(ops)
        BY <3>2, <4>1, GreatestIs
      <4>3. ops[Max(toned)] \in entries
        BY <4>1, <4>2
      <4> QED
        BY <2>1, <3>2, <4>3
    <3> QED
      BY <3>1, <3>2
  <2>8. m2.lists \in [SideLists -> Seq(entries)]
    BY <2>4, <2>6
  <2> QED
    BY <2>2, <2>5, <2>7, <2>8 DEF Memories, m2
<1> QED
  BY <1>1, <1>2

\* The log is the end of everything ever added, and full once some of it is gone.
LogEnds(m, all) ==
    /\ IsList(all) /\ Ends(m.events, all)
    /\ Len(m.events) < Len(all) => Len(m.events) = MaxEvents

LEMMA LogGoesOn ==
  ASSUME LogAssumption, NEW m, NEW all, LogEnds(m, all), NEW ops, IsList(ops), ops # <<>>
  PROVE  LET m2 == ApplyPending(m, ops)
             size == Len(m.events) + Len(ops)
         IN  /\ LogEnds(m2, all \o ops) /\ IsList(m2.events) /\ m2.events # <<>>
             /\ size \in Nat /\ Len(m2.events) \in Nat /\ size - Len(m2.events) \in Nat
             /\ size - Len(m2.events) > 0 <=> Len(all \o ops) - Len(m2.events) > 0
<1> DEFINE m2 == ApplyPending(m, ops)
           both == m.events \o ops
           more == all \o ops
<1>1. m2.events = LastOf(both, MaxEvents)
  BY AppliedIs
<1> HIDE DEF m2
<1>2. /\ IsList(all) /\ IsList(m.events) /\ Len(m.events) \in Nat /\ Len(all) \in Nat
      /\ Len(ops) \in Nat /\ Len(ops) > 0 /\ MaxEvents \in Nat /\ MaxEvents > 0
      /\ Len(m.events) <= Len(all)
      /\ \A i \in 1 .. Len(m.events) : m.events[i] = all[Len(all) - Len(m.events) + i]
      /\ Len(m.events) < Len(all) => Len(m.events) = MaxEvents
  <2>1. /\ IsList(all) /\ IsList(m.events) /\ Len(m.events) <= Len(all)
        /\ \A i \in 1 .. Len(m.events) : m.events[i] = all[Len(all) - Len(m.events) + i]
        /\ Len(m.events) < Len(all) => Len(m.events) = MaxEvents
    BY DEF LogEnds, Ends
  <2>2. Len(m.events) \in Nat /\ Len(all) \in Nat
    BY <2>1, ListIs
  <2>3. Len(ops) \in Nat /\ Len(ops) > 0
    <3>1. Len(ops) \in Nat /\ Len(ops) # 0
      BY ListIs
    <3> QED
      BY <3>1
  <2>4. MaxEvents \in Nat /\ MaxEvents > 0
    BY DEF LogAssumption
  <2> QED
    BY <2>1, <2>2, <2>3, <2>4, Zenon
<1>3. /\ IsList(both) /\ Len(both) = Len(m.events) + Len(ops)
      /\ \A i \in 1 .. Len(m.events) : both[i] = m.events[i]
      /\ \A i \in 1 .. Len(both) : i \notin 1 .. Len(m.events) =>
            i - Len(m.events) \in 1 .. Len(ops) /\ both[i] = ops[i - Len(m.events)]
  BY <1>2, JoinLists
<1>4. /\ IsList(more) /\ Len(more) = Len(all) + Len(ops)
      /\ \A i \in 1 .. Len(all) : more[i] = all[i]
      /\ \A i \in 1 .. Len(ops) : more[Len(all) + i] = ops[i]
  BY <1>2, JoinLists
<1> HIDE DEF both, more
<1>5. Ends(both, more)
  <2>1. ASSUME NEW i \in 1 .. Len(both) PROVE both[i] = more[Len(more) - Len(both) + i]
    <3>1. Len(more) - Len(both) + i = Len(all) - Len(m.events) + i
      BY <1>2, <1>3, <1>4
    <3>2. CASE i \in 1 .. Len(m.events)
      <4>1. Len(all) - Len(m.events) + i \in 1 .. Len(all)
        BY <1>2, <3>2
      <4> QED
        BY <1>2, <1>3, <1>4, <3>1, <3>2, <4>1
    <3>3. CASE i \notin 1 .. Len(m.events)
      <4>1. i - Len(m.events) \in 1 .. Len(ops) /\ both[i] = ops[i - Len(m.events)]
        BY <1>3, <3>3
      <4>2. Len(all) - Len(m.events) + i = Len(all) + (i - Len(m.events))
        BY <1>2
      <4> QED
        BY <1>4, <3>1, <4>1, <4>2
    <3> QED
      BY <3>2, <3>3
  <2>2. Len(both) <= Len(more)
    BY <1>2, <1>3, <1>4
  <2> QED
    BY <1>3, <2>1, <2>2 DEF Ends
<1>6. /\ Ends(m2.events, both)
      /\ Len(m2.events) = IF Len(both) > MaxEvents THEN MaxEvents ELSE Len(both)
  BY <1>1, <1>2, <1>3, LastEnds
<1>7. Ends(m2.events, more) /\ IsList(m2.events)
  <2>1. Ends(m2.events, more)
    BY <1>4, <1>5, <1>6, EndOfEnd
  <2> QED
    BY <2>1 DEF Ends
<1>8. Len(m2.events) < Len(more) => Len(m2.events) = MaxEvents
  BY <1>2, <1>3, <1>4, <1>6
<1>9. Len(both) \in Nat /\ Len(m2.events) \in Nat /\ Len(both) - Len(m2.events) \in Nat /\ Len(m2.events) # 0
  BY <1>2, <1>3, <1>6
<1>10. Len(both) - Len(m2.events) > 0 <=> Len(more) - Len(m2.events) > 0
  <2>1. CASE Len(both) > MaxEvents
    <3>1. Len(m2.events) = MaxEvents
      BY <1>6, <2>1
    <3> QED
      BY <1>2, <1>3, <1>4, <2>1, <3>1
  <2>2. CASE ~(Len(both) > MaxEvents)
    <3>1. Len(m2.events) = Len(both)
      BY <1>6, <2>2
    <3>2. Len(m.events) < MaxEvents
      BY <1>2, <1>3, <2>2
    <3>3. Len(m.events) = Len(all)
      BY <1>2, <3>2
    <3> QED
      BY <1>2, <1>3, <1>4, <3>1, <3>3
  <2> QED
    BY <2>1, <2>2
<1>11. LogEnds(m2, more) /\ m2.events # <<>>
  BY <1>4, <1>7, <1>8, <1>9, NoList DEF LogEnds
<1> QED
  BY <1>3, <1>7, <1>9, <1>10, <1>11 DEF m2, both, more

\* After retention the lists are within their caps and as new as the log.
LEMMA ListsAreCut ==
  ASSUME LogAssumption, NEW m, NEW ops, IsList(ops), ops # <<>>,
         NEW l \in SideLists, IsList(m.lists[l])
  PROVE  LET m2 == ApplyPending(m, ops)
         IN  /\ Len(m2.lists[l]) <= MaxEntries[l] /\ Len(m2.lists[l]) \in Nat
             /\ \A x \in Range(m2.lists[l]) : x.tick >= Head(m2.events).tick
<1> DEFINE m2 == ApplyPending(m, ops)
           first == Head(m2.events).tick
           both == m.lists[l] \o Picked(ops, Of(ops, l))
           new == {i \in DOMAIN both : both[i].tick >= first}
           kept == PruneByTick(both, first)
<1>1. m2.lists[l] = LastOf(kept, MaxEntries[l])
  <2>1. \A k \in SideLists :
          m2.lists[k] = LastOf(PruneByTick(m.lists[k] \o Picked(ops, Of(ops, k)), first), MaxEntries[k])
    BY AppliedIs, ZenonT(60)
  <2> QED
    BY <2>1
<1> HIDE DEF m2, first
<1>2. IsList(both)
  <2>1. Of(ops, l) \in SUBSET (1 .. Len(ops))
    BY ListIs DEF Of
  <2>2. IsList(Picked(ops, Of(ops, l)))
    BY <2>1, PickedList
  <2> QED
    BY <2>2, JoinLists
<1> HIDE DEF both
<1>3. kept = Picked(both, new) /\ new \in SUBSET (1 .. Len(both))
  BY <1>2, ListIs DEF PruneByTick
<1>4. IsList(kept) /\ Range(kept) = {both[i] : i \in new}
  <2> HIDE DEF new, kept
  <2> QED
    BY <1>2, <1>3, PickedList
<1>5. \A x \in Range(kept) : x.tick >= first
  <2> HIDE DEF kept
  <2> QED
    BY <1>4
<1> HIDE DEF kept, new
<1>6. MaxEntries[l] \in Nat
  BY DEF LogAssumption
<1>7. Ends(m2.lists[l], kept) /\ Len(m2.lists[l]) = IF Len(kept) > MaxEntries[l] THEN MaxEntries[l] ELSE Len(kept)
  BY <1>1, <1>4, <1>6, LastEnds
<1>8. Len(kept) \in Nat /\ Range(m2.lists[l]) \subseteq Range(kept)
  BY <1>4, <1>7, ListIs, EndsAreParts
<1> QED
  BY <1>5, <1>6, <1>7, <1>8 DEF m2, first


(***************************************************************************)
(* Several drains, one after the other                                     *)
(***************************************************************************)
\* The memories a fold goes through: after the first k lists.
Through(m, list, after) ==
    /\ after[0] = m
    /\ \A k \in Nat : k < Len(list) => after[k + 1] = ApplyPending(after[k], list[k + 1])

GoesThrough(m, list, memories) ==
    \E after \in [0 .. Len(list) -> memories] :
        Through(m, list, after) /\ DrainedInto(m, list) = after[Len(list)]

LEMMA FoldApplies ==
  ASSUME LogAssumption, NEW entries, NEW tones, \A e \in entries : e.tone \in tones,
         NEW m \in Memories(entries, tones), NEW list \in Seq(Seq(entries))
  PROVE  GoesThrough(m, list, Memories(entries, tones))
<1> DEFINE n == Len(list)
           X == Memories(entries, tones)
           step == [p \in X \X (1 .. n) |-> ApplyPending(p[1], list[p[2]])]
           Folds(f) == f = [s \in SUBSET (1 .. n) |->
                              IF s = {} THEN m ELSE ApplyPending(f[s \ {Max(s)}], list[Max(s)])]
           iter == CHOOSE f : Folds(f)
<1>1. n \in Nat /\ DOMAIN list = 1 .. n /\ (\A i \in 1 .. n : list[i] \in Seq(entries)) /\ m \in X
  OBVIOUS
<1>2. DrainedInto(m, list) = iter[1 .. n]
  BY <1>1 DEF DrainedInto, FoldLeft, MapThenFoldSet
<1> HIDE DEF X, n
<1>3. ASSUME NEW s \in SUBSET (1 .. n), s # {}
      PROVE  Max(s) \in 1 .. n /\ s \ {Max(s)} \in SUBSET (1 .. n)
  <2>1. Max(s) \in s
    BY <1>1, <1>3, GreatestIs
  <2> QED
    BY <2>1
<1>4. step \in [X \X (1 .. n) -> X]
  <2>1. ASSUME NEW p \in X \X (1 .. n) PROVE ApplyPending(p[1], list[p[2]]) \in X
    <3>1. p[1] \in X /\ p[2] \in 1 .. n
      OBVIOUS
    <3>2. list[p[2]] \in Seq(entries)
      BY <1>1, <3>1
    <3> QED
      BY <3>1, <3>2, AppliedOver DEF X
  <2> QED
    BY <2>1
<1>5. PICK f \in [SUBSET (1 .. n) -> X] : Folded(f, m, step)
  <2> HIDE DEF step
  <2>1. Foldable(X, m, step, n)
    BY <1>1, <1>4, FoldsExist
  <2> QED
    BY <2>1 DEF Foldable
<1>6. Folds(f)
  <2>1. ASSUME NEW s \in SUBSET (1 .. n)
        PROVE  f[s] = IF s = {} THEN m ELSE ApplyPending(f[s \ {Max(s)}], list[Max(s)])
    <3>1. CASE s = {}
      BY <1>5, <3>1 DEF Folded
    <3>2. CASE s # {}
      <4> DEFINE p == <<f[s \ {Max(s)}], Max(s)>>
      <4>1. f[s] = step[p]
        BY <1>5, <3>2 DEF Folded
      <4>2. p \in X \X (1 .. n)
        BY <1>3, <1>5, <3>2
      <4>3. step[p] = ApplyPending(p[1], list[p[2]])
        BY <4>2
      <4> HIDE DEF step
      <4> QED
        BY <3>2, <4>1, <4>3
    <3> QED
      BY <3>1, <3>2
  <2> QED
    BY <1>5, <2>1
<1> HIDE DEF step
<1>7. Folds(iter)
  BY <1>6
<1> HIDE DEF iter
<1>8. ASSUME NEW k \in Nat, k + 1 <= n
      PROVE  iter[1 .. k + 1] = ApplyPending(iter[1 .. k], list[k + 1])
  <2> DEFINE s == 1 .. k + 1
  <2>1. s \in SUBSET (1 .. n) /\ s # {} /\ k + 1 \in s /\ s \ {k + 1} = 1 .. k
    <3>1. n \in Nat /\ k \in Nat /\ k + 1 <= n
      BY <1>1, <1>8
    <3>2. s \ {k + 1} = 1 .. k
      BY <3>1
    <3>3. s \in SUBSET (1 .. n) /\ k + 1 \in s
      BY <3>1
    <3> QED
      BY <3>2, <3>3
  <2>2. Max(s) = k + 1
    <3>1. Max(s) \in s /\ k + 1 <= Max(s)
      BY <1>1, <2>1, GreatestIs
    <3> QED
      BY <3>1
  <2>3. iter[s] = ApplyPending(iter[s \ {Max(s)}], list[Max(s)])
    BY <1>7, <2>1
  <2> HIDE DEF s
  <2>4. iter[s] = ApplyPending(iter[1 .. k], list[k + 1])
    BY <2>1, <2>2, <2>3
  <2> QED
    BY <2>4 DEF s
<1>9. iter[1 .. 0] = m
  <2>1. 1 .. 0 = {} /\ {} \in SUBSET (1 .. n)
    OBVIOUS
  <2> QED
    BY <1>7, <2>1
<1> DEFINE Good == {k \in Nat : k <= n => iter[1 .. k] \in X}
<1>10. 0 \in Good
  BY <1>1, <1>9
<1>11. ASSUME NEW k \in Nat, k \in Good PROVE k + 1 \in Good
  <2>1. SUFFICES ASSUME k + 1 <= n PROVE iter[1 .. k + 1] \in X
    OBVIOUS
  <2>2. iter[1 .. k] \in X /\ list[k + 1] \in Seq(entries)
    BY <1>1, <1>11, <2>1
  <2>3. ApplyPending(iter[1 .. k], list[k + 1]) \in X
    BY <2>2, AppliedOver DEF X
  <2> QED
    BY <1>8, <2>1, <2>3
<1> HIDE DEF Good
<1>12. Nat \subseteq Good
  BY <1>10, <1>11, NatSets
<1>13. \A k \in 0 .. n : iter[1 .. k] \in X
  BY <1>1, <1>12 DEF Good
<1> DEFINE after == [k \in 0 .. n |-> iter[1 .. k]]
<1>14. after \in [0 .. n -> X]
  BY <1>13
<1>15. Through(m, list, after)
  <2>1. after[0] = m
    BY <1>1, <1>9
  <2>2. ASSUME NEW k \in Nat, k < n PROVE after[k + 1] = ApplyPending(after[k], list[k + 1])
    <3>1. k \in 0 .. n /\ k + 1 \in 0 .. n /\ k + 1 <= n
      BY <1>1, <2>2
    <3>2. after[k] = iter[1 .. k] /\ after[k + 1] = iter[1 .. k + 1]
      BY <3>1
    <3> HIDE DEF after
    <3> QED
      BY <1>8, <3>1, <3>2
  <2> HIDE DEF after
  <2> QED
    BY <2>1, <2>2 DEF Through, n
<1>16. after[n] = iter[1 .. n]
  BY <1>1
<1> HIDE DEF after
<1> QED
  BY <1>2, <1>14, <1>15, <1>16 DEF n, X, GoesThrough

\* What was told, and then the first k lists.
Telling(all, list, toldBy) ==
    /\ toldBy[0] = all
    /\ \A k \in Nat : k < Len(list) => toldBy[k + 1] = toldBy[k] \o list[k + 1]

LEMMA FlatTells ==
  ASSUME NEW T, NEW all \in Seq(T), NEW list \in Seq(Seq(T))
  PROVE  \E by \in [0 .. Len(list) -> Seq(T)] :
            Telling(all, list, by) /\ all \o FlattenSeq(list) = by[Len(list)]
<1> DEFINE n == Len(list)
           F == CHOOSE f : Flattens(f, list, n)
           by == [k \in 0 .. n |-> IF k = 0 THEN all ELSE all \o F[k]]
<1>1. n \in Nat /\ \A i \in 1 .. n : list[i] \in Seq(T)
  OBVIOUS
<1>2. n # 0 => FlattenSeq(list) = F[n]
  BY DEF FlattenSeq, Flattens
<1>3. n = 0 => FlattenSeq(list) = <<>>
  <2>1. ASSUME n = 0 PROVE list = <<>>
    BY <2>1
  <2> QED
    BY <2>1 DEF FlattenSeq
<1>4. Flattens(F, list, n)
  BY <1>1, CanBeFlattened
<1> HIDE DEF F, n
<1>5. \A i \in 1 .. n : F[i] = IF i = 1 THEN list[i] ELSE F[i - 1] \o list[i]
  BY <1>4 DEF Flattens
<1> DEFINE Good == {k \in Nat : k \in 1 .. n => F[k] \in Seq(T)}
<1>6. 0 \in Good
  OBVIOUS
<1>7. ASSUME NEW k \in Nat, k \in Good PROVE k + 1 \in Good
  <2>1. SUFFICES ASSUME k + 1 \in 1 .. n PROVE F[k + 1] \in Seq(T)
    OBVIOUS
  <2>2. CASE k = 0
    BY <1>1, <1>5, <2>1, <2>2
  <2>3. CASE k # 0
    <3>1. k \in 1 .. n /\ k + 1 # 1 /\ (k + 1) - 1 = k
      BY <1>1, <2>1, <2>3
    <3>2. F[k + 1] = F[k] \o list[k + 1] /\ F[k] \in Seq(T) /\ list[k + 1] \in Seq(T)
      BY <1>1, <1>5, <1>7, <2>1, <3>1
    <3> QED
      BY <3>2
  <2> QED
    BY <2>2, <2>3
<1> HIDE DEF Good
<1>8. Nat \subseteq Good
  BY <1>6, <1>7, NatSets
<1>9. \A k \in 1 .. n : F[k] \in Seq(T)
  <2>1. \A k \in 1 .. n : k \in Nat
    BY <1>1
  <2> QED
    BY <1>8, <2>1 DEF Good
<1>10. by \in [0 .. n -> Seq(T)]
  <2>1. ASSUME NEW k \in 0 .. n PROVE (IF k = 0 THEN all ELSE all \o F[k]) \in Seq(T)
    <3>1. CASE k = 0
      BY <3>1
    <3>2. CASE k # 0
      <4>1. k \in 1 .. n
        BY <1>1, <3>2
      <4>2. F[k] \in Seq(T)
        BY <1>9, <4>1
      <4> QED
        BY <3>2, <4>2
    <3> QED
      BY <3>1, <3>2
  <2> QED
    BY <2>1
<1>11. Telling(all, list, by)
  <2>1. by[0] = all
    BY <1>1
  <2>2. ASSUME NEW k \in Nat, k < n PROVE by[k + 1] = by[k] \o list[k + 1]
    <3>1. k \in 0 .. n /\ k + 1 \in 1 .. n /\ k + 1 # 0
      BY <1>1, <2>2
    <3>2. by[k + 1] = all \o F[k + 1]
      BY <1>1, <3>1
    <3>3. CASE k = 0
      <4>1. F[k + 1] = list[k + 1] /\ by[k] = all
        BY <1>5, <3>1, <3>3
      <4> QED
        BY <3>2, <4>1
    <3>4. CASE k # 0
      <4>1. k \in 1 .. n /\ k + 1 # 1 /\ (k + 1) - 1 = k
        BY <1>1, <3>1, <3>4
      <4>2. F[k + 1] = F[k] \o list[k + 1]
        BY <1>5, <3>1, <4>1
      <4>3. by[k] = all \o F[k]
        BY <3>1, <3>4
      <4>4. IsList(all) /\ IsList(F[k]) /\ IsList(list[k + 1])
        <5>1. F[k] \in Seq(T) /\ list[k + 1] \in Seq(T)
          BY <1>1, <1>9, <3>1, <4>1
        <5> QED
          BY <5>1, SequencesAreLists
      <4> HIDE DEF by
      <4>5. (all \o F[k]) \o list[k + 1] = all \o (F[k] \o list[k + 1])
        <5> DEFINE g == F[k]
                   h == list[k + 1]
        <5>1. IsList(all) /\ IsList(g) /\ IsList(h)
          BY <4>4
        <5> HIDE DEF g, h
        <5>2. (all \o g) \o h = all \o (g \o h)
          BY <5>1, JoinThree
        <5> QED
          BY <5>2 DEF g, h
      <4> QED
        BY <3>2, <4>2, <4>3, <4>5
    <3> QED
      BY <3>3, <3>4
  <2> HIDE DEF by
  <2> QED
    BY <2>1, <2>2 DEF Telling, n
<1>12. all \o FlattenSeq(list) = by[n]
  <2>1. CASE n = 0
    <3>1. all \o <<>> = all
      OBVIOUS
    <3> QED
      BY <1>3, <2>1, <3>1
  <2>2. CASE n # 0
    <3>1. n \in 0 .. n
      BY <1>1
    <3>2. by[n] = all \o F[n]
      BY <2>2, <3>1
    <3> HIDE DEF by
    <3> QED
      BY <1>2, <2>2, <3>2
  <2> QED
    BY <2>1, <2>2
<1> HIDE DEF by
<1> QED
  BY <1>10, <1>11, <1>12 DEF n


LEMMA FrontIs ==
  ASSUME NEW T, NEW s \in Seq(T), s # <<>>
  PROVE  /\ Front(s) \in Seq(T) /\ Len(Front(s)) = Len(s) - 1
         /\ \A i \in 1 .. Len(s) - 1 : Front(s)[i] = s[i]
<1>1. Len(s) \in Nat /\ Len(s) > 0
  OBVIOUS
<1> DEFINE m == Len(s) - 1
           q == Front(s)
<1>2. q = SubSeq(s, 1, m) /\ m \in Nat /\ m <= Len(s)
  BY <1>1 DEF Front
<1> HIDE DEF q, m
<1>3. q \in Seq(T) /\ Len(q) = m
  BY <1>2
<1>4. ASSUME NEW i \in 1 .. m PROVE q[i] = s[i]
  BY <1>2
<1> QED
  BY <1>3, <1>4 DEF q, m

\* The lists applied in turn up to the last one.
GoesOn(m, all, list, entries, tones) ==
    LET before == DrainedInto(m, Front(list))
    IN  /\ before \in Memories(entries, tones) /\ all \o FlattenSeq(list) \in Seq(entries)
        /\ \E told2 : LogEnds(before, told2) /\ all \o FlattenSeq(list) = told2 \o Last(list)

LEMMA DrainsGoOn ==
  ASSUME LogAssumption, NEW entries, NEW tones, \A e \in entries : e.tone \in tones,
         NEW m \in Memories(entries, tones), NEW all \in Seq(entries), LogEnds(m, all),
         NEW list \in Seq(Seq(entries)), list # <<>>, \A i \in 1 .. Len(list) : list[i] # <<>>
  PROVE  GoesOn(m, all, list, entries, tones)
<1> DEFINE n == Len(list)
           front == Front(list)
           before == DrainedInto(m, front)
<1>1. /\ n \in Nat /\ n > 0 /\ front \in Seq(Seq(entries)) /\ Len(front) = n - 1
      /\ \A i \in 1 .. n - 1 : front[i] = list[i]
      /\ \A i \in 1 .. n : list[i] \in Seq(entries)
      /\ Last(list) = list[n]
  <2>1. n \in Nat /\ n > 0
    OBVIOUS
  <2>3. front \in Seq(Seq(entries)) /\ Len(front) = n - 1 /\ \A i \in 1 .. n - 1 : front[i] = list[i]
    BY FrontIs
  <2>4. \A i \in 1 .. n : list[i] \in Seq(entries)
    OBVIOUS
  <2> QED
    BY <2>1, <2>3, <2>4 DEF Last
<1> HIDE DEF front
<1>2. PICK after \in [0 .. Len(front) -> Memories(entries, tones)] :
         Through(m, front, after) /\ before = after[Len(front)]
  <2>1. front \in Seq(Seq(entries))
    BY <1>1
  <2>2. GoesThrough(m, front, Memories(entries, tones))
    BY <2>1, FoldApplies
  <2> QED
    BY <2>2 DEF GoesThrough
<1>3. PICK by \in [0 .. Len(list) -> Seq(entries)] :
         Telling(all, list, by) /\ all \o FlattenSeq(list) = by[Len(list)]
  BY FlatTells
<1> HIDE DEF before, n
<1>4. Len(list) = n
  BY DEF n
<1>5. /\ after[0] = m /\ by[0] = all
      /\ \A k \in Nat : k < n - 1 => after[k + 1] = ApplyPending(after[k], list[k + 1])
      /\ \A k \in Nat : k < n => by[k + 1] = by[k] \o list[k + 1]
  <2>1. ASSUME NEW k \in Nat, k < n - 1 PROVE after[k + 1] = ApplyPending(after[k], list[k + 1])
    <3>1. front[k + 1] = list[k + 1]
      BY <1>1, <2>1
    <3>2. after[k + 1] = ApplyPending(after[k], front[k + 1])
      BY <1>1, <1>2, <2>1 DEF Through
    <3> QED
      BY <3>1, <3>2
  <2> QED
    BY <1>2, <1>3, <1>4, <2>1 DEF Through, Telling
<1> DEFINE Good == {k \in Nat : k < n => LogEnds(after[k], by[k])}
<1>6. 0 \in Good
  BY <1>5
<1>7. ASSUME NEW k \in Nat, k \in Good PROVE k + 1 \in Good
  <2>1. SUFFICES ASSUME k + 1 < n PROVE LogEnds(after[k + 1], by[k + 1])
    OBVIOUS
  <2>2. k < n /\ k < n - 1 /\ k + 1 \in 1 .. n
    BY <1>1, <2>1
  <2>3. LogEnds(after[k], by[k])
    BY <1>7, <2>2
  <2>4. IsList(list[k + 1]) /\ list[k + 1] # <<>>
    <3>1. list[k + 1] \in Seq(entries)
      BY <1>1, <2>2
    <3> QED
      BY <1>4, <2>2, <3>1, SequencesAreLists
  <2> DEFINE a == after[k]
             b == by[k]
             o == list[k + 1]
  <2>5. LogEnds(a, b) /\ IsList(o) /\ o # <<>>
    BY <2>3, <2>4
  <2> HIDE DEF a, b, o
  <2>6. LogEnds(ApplyPending(a, o), b \o o)
    BY <2>5, LogGoesOn
  <2> QED
    BY <1>5, <2>2, <2>6 DEF a, b, o
<1> HIDE DEF Good
<1>8. Nat \subseteq Good
  BY <1>6, <1>7, NatSets
<1>9. n - 1 \in Nat /\ n - 1 < n /\ (n - 1) + 1 = n
  BY <1>1
<1>10. LogEnds(after[n - 1], by[n - 1])
  BY <1>8, <1>9 DEF Good
<1>11. before = after[n - 1] /\ before \in Memories(entries, tones)
  BY <1>1, <1>2, <1>9
<1>12. all \o FlattenSeq(list) = by[n - 1] \o Last(list)
  <2>1. all \o FlattenSeq(list) = by[n] /\ Last(list) = list[n]
    BY <1>1, <1>3, <1>4
  <2>2. by[(n - 1) + 1] = by[n - 1] \o list[(n - 1) + 1]
    BY <1>5, <1>9
  <2> QED
    BY <1>9, <2>1, <2>2
<1>13. all \o FlattenSeq(list) \in Seq(entries)
  BY <1>1, <1>3, <1>4
<1> QED
  BY <1>10, <1>11, <1>12, <1>13 DEF before, front, GoesOn


(***************************************************************************)
(* The inductive invariant of a scenario                                   *)
(***************************************************************************)
IsMemory(m) ==
    /\ m = [events |-> m.events, lists |-> m.lists, tone |-> m.tone]
    /\ m.lists = [l \in SideLists |-> m.lists[l]]
    /\ IsList(m.events) /\ \A e \in Range(m.events) : e.tick \in Int
    /\ \A l \in SideLists : IsList(m.lists[l]) /\ \A e \in Range(m.lists[l]) : e.tick \in Int

IsInput(item) ==
    item.tick \in Int /\ (item.kind = "module_update_burst" => item.count \in Int)

\* What the last drain says holds of all drains.
RetainedInv ==
    IF retained = NoValue THEN told = memory.events /\ memory.lists["decisions"] = <<>>
    ELSE /\ retained.pruned > 0 <=> Len(told) - Len(memory.events) > 0
         /\ \A l \in SideLists : Len(memory.lists[l]) <= MaxEntries[l]
         /\ \A x \in Range(memory.lists["decisions"]) : x.tick >= retained.oldest

KeptInv ==
    /\ IsMemory(memory) /\ LogEnds(memory, told) /\ RetainedInv
    /\ \A e \in Range(told) : e.tick \in Int

RunsInv ==
    /\ KeptInv
    /\ IsList(due) /\ \A item \in Range(due) : IsInput(item)

ScenarioInv ==
    /\ fixture \in Fixtures
    /\ phase = "new" => memory = EmptyMemory(0) /\ told = <<>> /\ retained = NoValue
    /\ phase = "run" => RunsInv
    /\ VerdictIsSound


\* What a memory holds, and what is added.
EntriesOf(m, more) ==
    Range(m.events) \cup more \cup (UNION {Range(m.lists[l]) : l \in SideLists})

TonesOf(m, more) == {m.tone} \cup {e.tone : e \in EntriesOf(m, more)}

LEMMA MemoryOver ==
  ASSUME NEW m, IsMemory(m), NEW more, \A e \in more : e.tick \in Int
  PROVE  /\ m \in Memories(EntriesOf(m, more), TonesOf(m, more))
         /\ \A e \in EntriesOf(m, more) : e.tone \in TonesOf(m, more) /\ e.tick \in Int
<1> DEFINE E == EntriesOf(m, more)
<1>1. m.events \in Seq(E)
  <2>1. Range(m.events) \subseteq E /\ IsList(m.events)
    BY DEF EntriesOf, IsMemory
  <2> QED
    BY <2>1, ListsOver
<1>2. ASSUME NEW l \in SideLists PROVE m.lists[l] \in Seq(E)
  <2>1. Range(m.lists[l]) \subseteq E /\ IsList(m.lists[l])
    BY DEF EntriesOf, IsMemory
  <2> QED
    BY <2>1, ListsOver
<1>3. m.tone \in TonesOf(m, more) /\ \A e \in E : e.tone \in TonesOf(m, more)
  BY DEF TonesOf
<1>4. \A e \in E : e.tick \in Int
  <2>1. ASSUME NEW e \in E
        PROVE  e \in Range(m.events) \/ e \in more \/ \E l \in SideLists : e \in Range(m.lists[l])
    BY DEF EntriesOf
  <2> HIDE DEF E
  <2> QED
    BY <2>1 DEF IsMemory
<1> HIDE DEF E
<1>5. m.lists \in [SideLists -> Seq(E)]
  <2>1. m.lists = [l \in SideLists |-> m.lists[l]]
    BY DEF IsMemory
  <2> QED
    BY <1>2, <2>1
<1>6. m = [events |-> m.events, lists |-> m.lists, tone |-> m.tone]
  BY DEF IsMemory
<1>7. m \in Memories(E, TonesOf(m, more))
  BY <1>1, <1>3, <1>5, <1>6 DEF Memories
<1> QED
  BY <1>3, <1>4, <1>7 DEF E

LEMMA MemoryAgain ==
  ASSUME NEW entries, NEW tones, NEW m \in Memories(entries, tones), \A e \in entries : e.tick \in Int
  PROVE  IsMemory(m)
<1>1. /\ m = [events |-> m.events, lists |-> m.lists, tone |-> m.tone]
      /\ m.events \in Seq(entries) /\ m.lists \in [SideLists -> Seq(entries)]
  BY DEF Memories
<1>2. IsList(m.events) /\ Range(m.events) \subseteq entries
  BY <1>1, SequencesAreLists
<1>3. ASSUME NEW l \in SideLists PROVE IsList(m.lists[l]) /\ Range(m.lists[l]) \subseteq entries
  <2>1. m.lists[l] \in Seq(entries)
    BY <1>1
  <2> QED
    BY <2>1, SequencesAreLists
<1>4. m.lists = [l \in SideLists |-> m.lists[l]]
  BY <1>1
<1> QED
  BY <1>1, <1>2, <1>3, <1>4 DEF IsMemory

\* Lists of operations whose ticks are numbers.
AreBatches(batches) ==
    /\ IsList(batches)
    /\ \A b \in Range(batches) : IsList(b) /\ \A e \in Range(b) : e.tick \in Int

LEMMA DrainKeeps ==
  ASSUME LogAssumption, ScenarioAssumption, KeptInv, NEW batches, AreBatches(batches), Drain(batches)
  PROVE  KeptInv'
<1> DEFINE P == {i \in DOMAIN batches : batches[i] # <<>>}
           filled == Picked(batches, P)
           before == DrainedInto(memory, Front(filled))
           last == Last(filled)
           after == ApplyPending(before, last)
           result == [before |-> Len(before.events) + Len(last),
                      pruned |-> Len(before.events) + Len(last) - Len(after.events),
                      oldest |-> Head(after.events).tick,
                      after |-> [l \in SideLists |-> Len(after.lists[l])]]
<1>1. IF filled = <<>> THEN UNCHANGED <<told, memory, retained>>
      ELSE told' = told \o FlattenSeq(filled) /\ memory' = after /\ retained' = result
  BY DEF Drain
<1>2. CASE filled = <<>>
  <2>1. told' = told /\ memory' = memory /\ retained' = retained
    BY <1>1, <1>2
  <2> HIDE DEF filled
  <2> QED
    BY <2>1 DEF KeptInv, RetainedInv
<1>3. CASE filled # <<>>
  <2>1. told' = told \o FlattenSeq(filled) /\ memory' = after /\ retained' = result
    BY <1>1, <1>3
  <2> HIDE DEF after, before, last, result
  <2>2. P \in SUBSET (1 .. Len(batches)) /\ DOMAIN batches = 1 .. Len(batches) /\ IsList(batches)
    BY ListIs DEF AreBatches
  <2>3. IsList(filled) /\ Range(filled) = {batches[i] : i \in P}
    <3> HIDE DEF P
    <3> QED
      BY <2>2, PickedList
  <2>4. \A b \in Range(filled) : b # <<>> /\ IsList(b) /\ \A e \in Range(b) : e.tick \in Int
    BY <2>2, <2>3 DEF AreBatches, Range
  <2> HIDE DEF filled, P
  <2> DEFINE more == Range(told) \cup (UNION {Range(b) : b \in Range(filled)})
             E == EntriesOf(memory, more)
             T == TonesOf(memory, more)
  <2>5. /\ memory \in Memories(E, T)
        /\ \A e \in E : e.tone \in T
        /\ \A e \in E : e.tick \in Int
    <3>1. ASSUME NEW e \in more PROVE e.tick \in Int
      <4>1. e \in Range(told) \/ \E b \in Range(filled) : e \in Range(b)
        OBVIOUS
      <4> HIDE DEF more
      <4> QED
        BY <2>4, <4>1 DEF KeptInv
    <3>2. IsMemory(memory)
      BY DEF KeptInv
    <3> HIDE DEF more
    <3> QED
      BY <3>1, <3>2, MemoryOver
  <2>6. Range(told) \subseteq more /\ \A b \in Range(filled) : Range(b) \subseteq more
    OBVIOUS
  <2> HIDE DEF more
  <2>7. ASSUME NEW b \in Range(filled) PROVE b \in Seq(E)
    <3>1. Range(b) \subseteq E
      BY <2>6, <2>7 DEF EntriesOf
    <3> HIDE DEF E
    <3> QED
      BY <2>4, <2>7, <3>1, ListsOver
  <2>8. Range(told) \subseteq E
    BY <2>6 DEF EntriesOf
  <2> HIDE DEF E, T
  <2>9. told \in Seq(E)
    <3>1. IsList(told)
      BY DEF KeptInv, LogEnds
    <3> QED
      BY <2>8, <3>1, ListsOver
  <2>10. filled \in Seq(Seq(E))
    <3>1. Range(filled) \subseteq Seq(E)
      BY <2>7
    <3> DEFINE S == Seq(E)
    <3> HIDE DEF S
    <3>2. filled \in Seq(S)
      BY <2>3, <3>1, ListsOver DEF S
    <3> QED
      BY <3>2 DEF S
  <2>11. /\ \A i \in 1 .. Len(filled) : filled[i] \in Range(filled)
         /\ last \in Range(filled)
    <3>1. Len(filled) \in Nat /\ Len(filled) # 0 /\ \A i \in 1 .. Len(filled) : filled[i] \in Range(filled)
      BY <1>3, <2>3, ListIs
    <3>2. Len(filled) \in 1 .. Len(filled)
      BY <3>1
    <3> QED
      BY <3>1, <3>2 DEF last, Last
  <2>12. \A i \in 1 .. Len(filled) : filled[i] # <<>>
    BY <2>4, <2>11
  <2>13. /\ before \in Memories(E, T) /\ told' \in Seq(E)
         /\ \E told2 : LogEnds(before, told2) /\ told' = told2 \o last
    <3>1. LogEnds(memory, told)
      BY DEF KeptInv
    <3>2. GoesOn(memory, told, filled, E, T)
      BY <1>3, <2>5, <2>9, <2>10, <2>12, <3>1, DrainsGoOn
    <3> QED
      BY <2>1, <3>2 DEF before, last, GoesOn
  <2>14. PICK told2 : LogEnds(before, told2) /\ told' = told2 \o last
    BY <2>13
  <2>15. IsList(last) /\ last # <<>> /\ last \in Seq(E)
    BY <2>4, <2>7, <2>11
  <2>16. memory' \in Memories(E, T)
    BY <2>1, <2>5, <2>13, <2>15, AppliedOver DEF after
  <2>17. LET size == Len(before.events) + Len(last)
         IN  /\ LogEnds(memory', told') /\ IsList(memory'.events) /\ memory'.events # <<>>
             /\ size \in Nat /\ size - Len(memory'.events) \in Nat
             /\ size - Len(memory'.events) > 0 <=> Len(told') - Len(memory'.events) > 0
    <3>1. memory' = ApplyPending(before, last) /\ told' = told2 \o last
      BY <2>1, <2>14 DEF after
    <3>2. LET m2 == ApplyPending(before, last)
              size == Len(before.events) + Len(last)
          IN  /\ LogEnds(m2, told2 \o last) /\ IsList(m2.events) /\ m2.events # <<>>
              /\ size \in Nat /\ Len(m2.events) \in Nat /\ size - Len(m2.events) \in Nat
              /\ size - Len(m2.events) > 0 <=> Len(told2 \o last) - Len(m2.events) > 0
      BY <2>14, <2>15, LogGoesOn, ZenonT(60)
    <3> QED
      BY <3>1, <3>2
  <2>18. ASSUME NEW l \in SideLists
         PROVE  /\ Len(memory'.lists[l]) <= MaxEntries[l] /\ Len(memory'.lists[l]) \in Nat
                /\ \A x \in Range(memory'.lists[l]) : x.tick >= Head(memory'.events).tick
    <3>1. before.lists \in [SideLists -> Seq(E)]
      BY <2>13 DEF Memories
    <3>2. before.lists[l] \in Seq(E)
      BY <3>1
    <3>3. IsList(before.lists[l])
      BY <3>2, SequencesAreLists
    <3> QED
      BY <2>1, <2>15, <3>3, ListsAreCut DEF after
  <2>19. IsMemory(memory') /\ \A e \in Range(told') : e.tick \in Int
    <3>1. Range(told') \subseteq E
      BY <2>13, SequencesAreLists
    <3> QED
      BY <2>5, <2>16, <3>1, MemoryAgain
  <2>20. Head(memory'.events).tick \in Int
    <3>1. Len(memory'.events) \in Nat /\ Len(memory'.events) # 0
      BY <2>17, ListIs
    <3>2. memory'.events[1] \in Range(memory'.events)
      BY <2>17, <3>1, ListIs
    <3>3. Head(memory'.events) = memory'.events[1]
      BY <2>17 DEF IsList
    <3> QED
      BY <2>19, <3>2, <3>3 DEF IsMemory
  <2>21. /\ retained'.pruned = Len(before.events) + Len(last) - Len(memory'.events)
         /\ retained'.oldest = Head(memory'.events).tick
         /\ retained' \in [before : Nat, pruned : Nat, oldest : Int, after : [SideLists -> Nat]]
    <3>1. retained' = [before |-> Len(before.events) + Len(last),
                       pruned |-> Len(before.events) + Len(last) - Len(memory'.events),
                       oldest |-> Head(memory'.events).tick,
                       after |-> [l \in SideLists |-> Len(memory'.lists[l])]]
      BY <2>1 DEF result
    <3> QED
      BY <2>17, <2>18, <2>20, <3>1
  <2>22. retained' # NoValue
    BY <2>21 DEF ScenarioAssumption
  <2>23. "decisions" \in SideLists
    BY DEF SideLists, Markers, FrameMarkers
  <2>24. RetainedInv'
    <3>1. retained'.pruned > 0 <=> Len(told') - Len(memory'.events) > 0
      <4> DEFINE size == Len(before.events) + Len(last)
      <4>1. size - Len(memory'.events) > 0 <=> Len(told') - Len(memory'.events) > 0
        BY <2>17
      <4>2. retained'.pruned = size - Len(memory'.events)
        BY <2>21
      <4> HIDE DEF size
      <4> QED
        BY <4>1, <4>2
    <3>2. \A l \in SideLists : Len(memory'.lists[l]) <= MaxEntries[l]
      BY <2>18
    <3>3. \A x \in Range(memory'.lists["decisions"]) : x.tick >= retained'.oldest
      BY <2>18, <2>21, <2>23
    <3> QED
      BY <2>22, <3>1, <3>2, <3>3 DEF RetainedInv
  <2> QED
    BY <2>17, <2>19, <2>24 DEF KeptInv
<1> QED
  BY <1>2, <1>3


(***************************************************************************)
(* Loading and the inputs                                                  *)
(***************************************************************************)
LEMMA FunctionsAreLists ==
  ASSUME NEW n \in Nat, NEW f, f = [i \in 1 .. n |-> f[i]]
  PROVE  /\ IsList(f) /\ Len(f) = n /\ DOMAIN f = 1 .. n
         /\ \A x \in Range(f) : \E i \in 1 .. n : x = f[i]
<1> DEFINE T == {f[i] : i \in 1 .. n}
<1>1. f \in [1 .. n -> T] /\ DOMAIN f = 1 .. n
  OBVIOUS
<1> HIDE DEF T
<1>2. f \in Seq(T) /\ Len(f) = n
  BY <1>1
<1>3. IsList(f)
  BY <1>2, SequencesAreLists
<1> QED
  BY <1>1, <1>2, <1>3 DEF Range

\* The numbers up to an integer are those up to a natural number.
LEMMA CountsUp ==
  ASSUME NEW c \in Int
  PROVE  \E n \in Nat : 1 .. c = 1 .. n
<1>1. CASE c \in Nat
  BY <1>1
<1>2. CASE c \notin Nat
  <2>1. 1 .. c = 1 .. 0
    BY <1>2
  <2> QED
    BY <2>1
<1> QED
  BY <1>1, <1>2

LEMMA LatestTick ==
  ASSUME NEW inputs, IsList(inputs), \A x \in Range(inputs) : x.tick \in Int
  PROVE  Max({inputs[i].tick : i \in DOMAIN inputs} \cup {0}) \in Int
<1> DEFINE Ticked(k) == {inputs[i].tick : i \in 1 .. k} \cup {0}
           Good == {k \in Nat : k <= Len(inputs) => \E x \in Ticked(k) : \A y \in Ticked(k) : x >= y}
<1>1. /\ Len(inputs) \in Nat /\ DOMAIN inputs = 1 .. Len(inputs)
      /\ \A i \in 1 .. Len(inputs) : inputs[i].tick \in Int
  BY ListIs
<1>2. 0 \in Good
  <2>1. Ticked(0) = {0}
    OBVIOUS
  <2> HIDE DEF Ticked
  <2> QED
    BY <2>1
<1>3. ASSUME NEW k \in Nat, k \in Good PROVE k + 1 \in Good
  <2>1. SUFFICES ASSUME k + 1 <= Len(inputs)
                 PROVE  \E x \in Ticked(k + 1) : \A y \in Ticked(k + 1) : x >= y
    OBVIOUS
  <2>2. PICK x \in Ticked(k) : \A y \in Ticked(k) : x >= y
    BY <1>1, <1>3, <2>1
  <2>3. inputs[k + 1].tick \in Int
    BY <1>1, <2>1
  <2>4. \A y \in Ticked(k) : y \in Int
    BY <1>1, <2>1
  <2>5. Ticked(k + 1) = Ticked(k) \cup {inputs[k + 1].tick}
    <3>1. \A i : i \in 1 .. k + 1 <=> i \in 1 .. k \/ i = k + 1
      OBVIOUS
    <3> QED
      BY <3>1
  <2> HIDE DEF Ticked
  <2>6. CASE x >= inputs[k + 1].tick
    BY <2>2, <2>5, <2>6
  <2>7. CASE ~(x >= inputs[k + 1].tick)
    <3>1. \A y \in Ticked(k) : inputs[k + 1].tick >= y
      BY <2>2, <2>3, <2>4, <2>7
    <3>2. inputs[k + 1].tick >= inputs[k + 1].tick
      BY <2>3
    <3> QED
      BY <2>5, <3>1, <3>2
  <2> QED
    BY <2>6, <2>7
<1> HIDE DEF Good
<1>4. Nat \subseteq Good
  BY <1>2, <1>3, NatSets
<1> DEFINE S == Ticked(Len(inputs))
<1>5. \E x \in S : \A y \in S : x >= y
  <2>1. Len(inputs) \in Good /\ Len(inputs) <= Len(inputs)
    BY <1>1, <1>4
  <2> HIDE DEF Ticked
  <2> QED
    BY <2>1 DEF Good
<1>6. \A y \in S : y \in Int
  BY <1>1
<1>7. {inputs[i].tick : i \in DOMAIN inputs} \cup {0} = S
  BY <1>1
<1> HIDE DEF S, Ticked
<1>8. Max(S) \in S
  BY <1>5 DEF Max
<1> QED
  BY <1>6, <1>7, <1>8

\* The inputs that are due are the fixture's.
LEMMA DueAre ==
  ASSUME ScenarioAssumption, NEW f \in Fixtures
  PROVE  IsList(Due(f)) /\ Range(Due(f)) \subseteq Range(f.inputs)
<1> DEFINE T == Range(f.inputs)
           ticks == {f.inputs[i].tick : i \in DOMAIN f.inputs}
           max_ticks == IF f.max_ticks # NoValue THEN f.max_ticks ELSE Max(ticks \cup {0})
           At(t) == Picked(f.inputs, {i \in DOMAIN f.inputs : f.inputs[i].tick = t - 1})
           lists == [t \in 1 .. max_ticks + 1 |-> At(t)]
<1>1. IsList(f.inputs) /\ \A x \in Range(f.inputs) : x.tick \in Int
  BY DEF ScenarioAssumption, IsList
<1>2. max_ticks \in Int
  <2>1. f.max_ticks # NoValue => f.max_ticks \in Int
    BY DEF ScenarioAssumption
  <2>2. Max(ticks \cup {0}) \in Int
    BY <1>1, LatestTick
  <2> HIDE DEF ticks
  <2> QED
    BY <2>1, <2>2
<1>3. Due(f) = FlattenSeq(lists)
  BY DEF Due
<1>4. ASSUME NEW t PROVE At(t) \in Seq(T)
  <2> DEFINE P == {i \in DOMAIN f.inputs : f.inputs[i].tick = t - 1}
  <2>1. P \in SUBSET DOMAIN f.inputs
    OBVIOUS
  <2> HIDE DEF P
  <2>2. Picked(f.inputs, P) \in Seq(T)
    BY <1>1, <2>1, PickedOver DEF IsList
  <2> QED
    BY <2>2 DEF P
<1> HIDE DEF max_ticks, At, T
<1>5. lists \in Seq(Seq(T))
  <2>1. max_ticks + 1 \in Int
    BY <1>2
  <2>2. PICK n \in Nat : 1 .. max_ticks + 1 = 1 .. n
    BY <2>1, CountsUp
  <2> DEFINE S == Seq(T)
  <2>3. \A t : At(t) \in S
    BY <1>4
  <2> HIDE DEF S
  <2>4. lists \in [1 .. n -> S]
    BY <2>2, <2>3
  <2> HIDE DEF lists
  <2>5. lists \in Seq(S)
    BY <2>4
  <2> QED
    BY <2>5 DEF S
<1> HIDE DEF lists
<1>6. FlattenSeq(lists) \in Seq(T)
  BY <1>5, FlatIs
<1> QED
  BY <1>3, <1>6, SequencesAreLists DEF T

LEMMA EmptyIs ==
  /\ EmptyMemory(0).events = <<>>
  /\ \A l \in SideLists : EmptyMemory(0).lists[l] = <<>>
  BY DEF EmptyMemory

LEMMA NothingPicked ==
  ASSUME NEW s
  PROVE  Picked(s, {}) = <<>>
<1>1. Cardinality({}) = 0
  BY FS_EmptySet
<1> QED
  BY <1>1 DEF Picked

LEMMA LoadKeeps ==
  ASSUME ScenarioAssumption, fixture \in Fixtures, Load, Loads(fixture),
         memory = EmptyMemory(0), told = <<>>, retained = NoValue
  PROVE  RunsInv'
<1> DEFINE summaries == fixture.summaries
           ops == [i \in DOMAIN summaries |->
                     Operation("decision_cycle_summaries", summaries[i].status, summaries[i].tick, i)]
<1>1. /\ due' = Due(fixture) /\ told' = ops /\ memory' = AddEvents(memory, ops)
      /\ retained' = retained
  BY DEF Load
<1>2. IsList(summaries) /\ \A x \in Range(summaries) : x.tick \in Int
  BY DEF ScenarioAssumption, IsList
<1> HIDE DEF summaries
<1>3. Len(summaries) \in Nat /\ DOMAIN summaries = 1 .. Len(summaries)
  BY <1>2, ListIs
<1>4. /\ IsList(ops) /\ DOMAIN ops = 1 .. Len(summaries)
      /\ \A x \in Range(ops) : \E i \in 1 .. Len(summaries) : x = ops[i]
  <2>1. ops = [i \in 1 .. Len(summaries) |-> ops[i]]
    BY <1>3
  <2> HIDE DEF ops
  <2> QED
    BY <1>3, <2>1, FunctionsAreLists
<1>5. \A x \in Range(ops) : x.tick \in Int /\ x.marker = "decision_cycle_summaries"
  <2>1. ASSUME NEW i \in 1 .. Len(summaries)
        PROVE  ops[i].tick \in Int /\ ops[i].marker = "decision_cycle_summaries"
    BY <1>2, <1>3, <2>1, ListIs DEF Operation
  <2> HIDE DEF ops
  <2> QED
    BY <1>4, <2>1
<1> HIDE DEF ops
<1>6. <<>> \o ops = ops
  BY <1>4 DEF IsList
<1>7. /\ memory' = [events |-> memory'.events, lists |-> memory'.lists, tone |-> memory'.tone]
      /\ memory'.events = ops
      /\ memory'.lists = [l \in SideLists |-> memory'.lists[l]]
      /\ \A l \in SideLists : memory'.lists[l] = <<>> \o Picked(ops, Of(ops, l))
  <2>1. memory' = [events |-> memory'.events, lists |-> memory'.lists, tone |-> memory'.tone]
    BY <1>1 DEF AddEvents
  <2>2. memory'.events = memory.events \o ops
    BY <1>1 DEF AddEvents
  <2>3. memory'.lists = [l \in SideLists |-> memory.lists[l] \o Picked(ops, Of(ops, l))]
    BY <1>1 DEF AddEvents, Of
  <2> QED
    BY <1>6, <2>1, <2>2, <2>3, EmptyIs
<1>8. ASSUME NEW l \in SideLists
      PROVE  IsList(memory'.lists[l]) /\ \A e \in Range(memory'.lists[l]) : e.tick \in Int
  <2> DEFINE q == Picked(ops, Of(ops, l))
  <2>1. Of(ops, l) \in SUBSET (1 .. Len(ops))
    BY <1>4, ListIs DEF Of
  <2>2. IsList(q) /\ Range(q) = {ops[i] : i \in Of(ops, l)}
    BY <1>4, <2>1, PickedList
  <2>3. \A e \in Range(q) : e.tick \in Int
    BY <1>4, <1>5, <2>1, <2>2, ListIs
  <2> HIDE DEF q
  <2>4. <<>> \o q = q
    BY <2>2 DEF IsList
  <2>5. memory'.lists[l] = q
    BY <1>7, <2>4 DEF q
  <2> QED
    BY <2>2, <2>3, <2>5
<1>9. IsMemory(memory')
  BY <1>4, <1>5, <1>7, <1>8 DEF IsMemory
<1>10. LogEnds(memory', told')
  <2>1. Len(ops) \in Nat
    BY <1>4, ListIs
  <2>2. Ends(ops, ops)
    BY <1>4, <2>1 DEF Ends
  <2>3. ~(Len(ops) < Len(ops))
    BY <2>1
  <2> QED
    BY <1>1, <1>4, <1>7, <2>2, <2>3 DEF LogEnds
<1>11. memory'.lists["decisions"] = <<>>
  <2>1. Of(ops, "decisions") = {}
    BY <1>5 DEF Of, ListOf, Range
  <2>2. "decisions" \in SideLists
    BY DEF SideLists, Markers, FrameMarkers
  <2>3. memory'.lists["decisions"] = <<>> \o <<>>
    BY <1>7, <2>1, <2>2, NothingPicked
  <2>4. <<>> \o <<>> = <<>>
    OBVIOUS
  <2> QED
    BY <2>3, <2>4
<1>12. RetainedInv'
  BY <1>1, <1>7, <1>11 DEF RetainedInv
<1>13. IsList(due') /\ \A item \in Range(due') : IsInput(item)
  <2>1. IsList(due') /\ Range(due') \subseteq Range(fixture.inputs)
    BY <1>1, DueAre
  <2>2. \A item \in Range(fixture.inputs) : IsInput(item)
    BY DEF ScenarioAssumption, IsInput
  <2> QED
    BY <2>1, <2>2
<1> QED
  BY <1>1, <1>5, <1>9, <1>10, <1>12, <1>13 DEF RunsInv, KeptInv


(***************************************************************************)
(* The inputs one by one                                                   *)
(***************************************************************************)
LEMMA FeedKept ==
  ASSUME LogAssumption, ScenarioAssumption, KeptInv, NEW item, IsInput(item), FeedInput(item)
  PROVE  KeptInv'
<1> DEFINE frame == IF item.kind = "tick" THEN <<>> ELSE <<<<"raw_input_write", NoValue>>>>
<1>1. PICK added \in Ticks :
        LET batches == <<frame>> \o added
            Stamped(b, i) == [j \in DOMAIN b |->
                                Operation(b[j][1], b[j][2], item.tick, Len(told) + 10 * i + j)]
        IN  Drain([i \in DOMAIN batches |-> Stamped(batches[i], i)])
  BY DEF FeedInput
<1> DEFINE batches == <<frame>> \o added
           Stamped(b, i) == [j \in DOMAIN b |->
                               Operation(b[j][1], b[j][2], item.tick, Len(told) + 10 * i + j)]
           stamped == [i \in DOMAIN batches |-> Stamped(batches[i], i)]
<1>2. Drain(stamped)
  BY <1>1
<1>3. IsList(frame)
  <2>1. <<>> \in Seq({<<"raw_input_write", NoValue>>})
    OBVIOUS
  <2>2. <<<<"raw_input_write", NoValue>>>> \in Seq({<<"raw_input_write", NoValue>>})
    OBVIOUS
  <2> QED
    BY <2>1, <2>2, SequencesAreLists
<1> HIDE DEF frame
<1>4. IsList(<<frame>>) /\ \A b \in Range(<<frame>>) : b = frame
  <2>1. <<frame>> \in Seq({frame})
    OBVIOUS
  <2>2. IsList(<<frame>>) /\ Range(<<frame>>) \subseteq {frame}
    BY <2>1, SequencesAreLists
  <2> QED
    BY <2>2
<1>5. IsList(added) /\ \A b \in Range(added) : IsList(b)
  BY DEF ScenarioAssumption, IsList
<1>6. IsList(batches) /\ \A b \in Range(batches) : IsList(b)
  <2>1. IsList(<<frame>> \o added) /\ Range(<<frame>> \o added) = Range(<<frame>>) \cup Range(added)
    BY <1>4, <1>5, JoinLists
  <2> QED
    BY <1>3, <1>4, <1>5, <2>1
<1> HIDE DEF batches
<1>7. Len(batches) \in Nat /\ DOMAIN batches = 1 .. Len(batches)
      /\ \A i \in 1 .. Len(batches) : batches[i] \in Range(batches)
  BY <1>6, ListIs
<1>8. ASSUME NEW b, IsList(b), NEW i
      PROVE  IsList(Stamped(b, i)) /\ \A e \in Range(Stamped(b, i)) : e.tick \in Int
  <2> DEFINE s == Stamped(b, i)
  <2>1. Len(b) \in Nat /\ s = [j \in 1 .. Len(b) |-> s[j]]
    BY <1>8, ListIs
  <2>2. \A j \in 1 .. Len(b) : s[j].tick = item.tick
    BY <1>8, ListIs DEF Operation
  <2> HIDE DEF s
  <2>3. IsList(s) /\ \A x \in Range(s) : \E j \in 1 .. Len(b) : x = s[j]
    BY <2>1, FunctionsAreLists
  <2>4. IsList(s) /\ \A e \in Range(s) : e.tick \in Int
    BY <2>2, <2>3 DEF IsInput
  <2> QED
    BY <2>4 DEF s
<1> HIDE DEF Stamped
<1>9. /\ IsList(stamped) /\ \A x \in Range(stamped) : \E i \in 1 .. Len(batches) : x = stamped[i]
      /\ \A i \in 1 .. Len(batches) : stamped[i] = Stamped(batches[i], i)
  <2>1. stamped = [i \in 1 .. Len(batches) |-> stamped[i]]
    BY <1>7
  <2>2. \A i \in 1 .. Len(batches) : stamped[i] = Stamped(batches[i], i)
    BY <1>7
  <2> HIDE DEF stamped
  <2>3. Len(batches) \in Nat
    BY <1>7
  <2>4. IsList(stamped) /\ \A x \in Range(stamped) : \E i \in 1 .. Len(batches) : x = stamped[i]
    BY <2>1, <2>3, FunctionsAreLists, ZenonT(60)
  <2> QED
    BY <2>2, <2>4
<1> HIDE DEF stamped
<1>10. AreBatches(stamped)
  BY <1>6, <1>7, <1>8, <1>9 DEF AreBatches
<1> QED
  BY <1>2, <1>10, DrainKeeps

LEMMA BurstKept ==
  ASSUME LogAssumption, ScenarioAssumption, KeptInv, NEW item, IsInput(item), Burst(item)
  PROVE  KeptInv'
<1> DEFINE ops == [i \in 1 .. item.count |->
                     Operation("module_updates", NoValue, item.tick + i - 1, Len(told) + i)]
<1>1. Drain(<<ops>>) /\ item.count \in Int /\ item.tick \in Int
  BY DEF Burst, IsInput
<1>2. PICK n \in Nat : 1 .. item.count = 1 .. n
  BY <1>1, CountsUp
<1>3. ops = [i \in 1 .. n |-> ops[i]] /\ \A i \in 1 .. n : ops[i].tick \in Int
  BY <1>1, <1>2 DEF Operation
<1> HIDE DEF ops
<1>4. IsList(ops) /\ \A e \in Range(ops) : e.tick \in Int
  <2>1. IsList(ops) /\ \A x \in Range(ops) : \E i \in 1 .. n : x = ops[i]
    BY <1>3, FunctionsAreLists
  <2> QED
    BY <1>3, <2>1
<1>5. AreBatches(<<ops>>)
  <2>1. <<ops>> \in Seq({ops})
    OBVIOUS
  <2>2. IsList(<<ops>>) /\ Range(<<ops>>) \subseteq {ops}
    BY <2>1, SequencesAreLists
  <2> QED
    BY <1>4, <2>2 DEF AreBatches
<1> QED
  BY <1>1, <1>5, DrainKeeps

LEMMA ApplyKeeps ==
  ASSUME LogAssumption, ScenarioAssumption, RunsInv, Apply
  PROVE  RunsInv'
<1> DEFINE item == Head(due)
<1>1. due # <<>> /\ due' = Tail(due) /\ (FeedInput(item) \/ Pretend(item) \/ Burst(item) \/ Skip(item))
  BY DEF Apply
<1>2. /\ IsList(due) /\ Len(due) \in Nat /\ Len(due) # 0
      /\ \A x \in Range(due) : IsInput(x)
  BY <1>1, ListIs DEF RunsInv
<1>3. item \in Range(due)
  <2>1. 1 \in 1 .. Len(due)
    BY <1>2
  <2>2. due[1] \in Range(due)
    BY <1>2, <2>1, ListIs
  <2> QED
    BY <1>1, <1>2, <2>2 DEF IsList
<1> HIDE DEF item
<1>4. IsInput(item) /\ KeptInv
  BY <1>2, <1>3 DEF RunsInv
<1>5. KeptInv'
  <2>1. CASE FeedInput(item)
    BY <1>4, <2>1, FeedKept
  <2>2. CASE Burst(item)
    BY <1>4, <2>2, BurstKept
  <2>3. CASE Pretend(item) \/ Skip(item)
    <3>1. told' = told /\ memory' = memory /\ retained' = retained
      BY <2>3 DEF Pretend, Skip
    <3> QED
      BY <1>4, <3>1 DEF KeptInv, RetainedInv
  <2> QED
    BY <1>1, <2>1, <2>2, <2>3
<1>6. IsList(due') /\ Range(due') \subseteq Range(due)
  <2> DEFINE T == Range(due)
  <2>1. due \in Seq(T)
    BY <1>2 DEF IsList
  <2> HIDE DEF T
  <2>2. Tail(due) \in Seq(T)
    BY <1>1, <2>1
  <2> QED
    BY <1>1, <2>2, SequencesAreLists DEF T
<1> QED
  BY <1>2, <1>5, <1>6 DEF RunsInv


(***************************************************************************)
(* The verdict                                                             *)
(***************************************************************************)
MarkersOf(list) == [i \in DOMAIN list |-> list[i].marker]

\* The markers of the log are the last of those ever told.
LEMMA LateMarkers ==
  ASSUME NEW q, NEW s, IsList(s), Ends(q, s)
  PROVE  LET all == MarkersOf(s)
         IN  /\ IsList(MarkersOf(q)) /\ Len(MarkersOf(q)) = Len(q)
             /\ Range(SubSeq(all, Len(s) - Len(q) + 1, Len(all))) = Range(MarkersOf(q))
             /\ Len(s) - Len(q) = 0 => MarkersOf(q) = all
<1> DEFINE all == MarkersOf(s)
           some == MarkersOf(q)
           a == Len(s) - Len(q) + 1
           late == SubSeq(all, a, Len(all))
<1>1. /\ IsList(q) /\ Len(q) <= Len(s) /\ Len(q) \in Nat /\ Len(s) \in Nat
      /\ DOMAIN q = 1 .. Len(q) /\ DOMAIN s = 1 .. Len(s)
      /\ \A i \in 1 .. Len(q) : q[i] = s[Len(s) - Len(q) + i]
  BY ListIs DEF Ends
<1>2. IsList(some) /\ Len(some) = Len(q) /\ \A i \in 1 .. Len(q) : some[i] = q[i].marker
  <2>1. some = [i \in 1 .. Len(q) |-> some[i]] /\ \A i \in 1 .. Len(q) : some[i] = q[i].marker
    BY <1>1 DEF MarkersOf
  <2> HIDE DEF some
  <2> QED
    BY <1>1, <2>1, FunctionsAreLists
<1>3. IsList(all) /\ Len(all) = Len(s) /\ \A i \in 1 .. Len(s) : all[i] = s[i].marker
  <2>1. all = [i \in 1 .. Len(s) |-> all[i]] /\ \A i \in 1 .. Len(s) : all[i] = s[i].marker
    BY <1>1 DEF MarkersOf
  <2> HIDE DEF all
  <2> QED
    BY <1>1, <2>1, FunctionsAreLists
<1> HIDE DEF all, some
<1>4. IsList(late) /\ Len(late) = Len(q) /\ \A i \in 1 .. Len(q) : late[i] = some[i]
  <2>1. a \in 1 .. Len(all) + 1 /\ all \in Seq(Range(all)) /\ Len(all) \in Nat
    BY <1>1, <1>3 DEF IsList
  <2> HIDE DEF a
  <2>2. late \in Seq(Range(all)) /\ Len(late) = Len(all) - a + 1 /\ \A i \in 1 .. Len(late) : late[i] = all[a + i - 1]
    BY <2>1
  <2>3. IsList(late)
    BY <2>2, SequencesAreLists
  <2> HIDE DEF late
  <2>4. Len(late) = Len(q)
    BY <1>1, <1>3, <2>2 DEF a
  <2>5. ASSUME NEW i \in 1 .. Len(q) PROVE late[i] = some[i]
    <3>1. a + i - 1 = Len(s) - Len(q) + i /\ a + i - 1 \in 1 .. Len(s)
      BY <1>1 DEF a
    <3>2. late[i] = s[Len(s) - Len(q) + i].marker
      BY <1>3, <2>2, <2>4, <3>1
    <3> QED
      BY <1>1, <1>2, <3>2
  <2> QED
    BY <2>3, <2>4, <2>5
<1> HIDE DEF late
<1>5. late = some
  BY <1>2, <1>4, SameList
<1>6. ASSUME Len(s) - Len(q) = 0 PROVE some = all
  <2>1. Len(q) = Len(s)
    <3>1. \A n, k \in Nat : n - k = 0 => k = n
      OBVIOUS
    <3> QED
      BY <1>1, <1>6, <3>1
  <2>2. ASSUME NEW i \in 1 .. Len(q) PROVE some[i] = all[i]
    <3>1. 0 + i = i
      OBVIOUS
    <3>2. q[i] = s[i] /\ i \in 1 .. Len(s)
      BY <1>1, <1>6, <2>1, <3>1
    <3> QED
      BY <1>2, <1>3, <3>2
  <2> QED
    BY <1>2, <1>3, <2>1, <2>2, SameList
<1> QED
  BY <1>2, <1>5, <1>6 DEF late, all, some, a

\* A marker that first occurs before another occurs before all of those.
LEMMA FirstBefore ==
  ASSUME NEW list, IsList(list), NEW x \in Range(list), NEW y \in Range(list),
         ~(IndexOf(list, x) >= IndexOf(list, y))
  PROVE  \E i \in DOMAIN list : list[i] = x /\ \A j \in 1 .. i : list[j] # y
<1> DEFINE At(z) == {i \in DOMAIN list : list[i] = z}
<1>1. Len(list) \in Nat /\ DOMAIN list = 1 .. Len(list)
  BY ListIs
<1>2. ASSUME NEW z \in Range(list)
      PROVE  IndexOf(list, z) \in At(z) /\ \A i \in At(z) : IndexOf(list, z) <= i
  <2>1. At(z) \in SUBSET (1 .. Len(list)) /\ At(z) # {}
    BY <1>1 DEF Range
  <2>2. IndexOf(list, z) = CHOOSE o \in At(z) : \A p \in At(z) : o <= p
    BY DEF IndexOf, Min
  <2> HIDE DEF At
  <2> QED
    BY <1>1, <2>1, <2>2, LeastIs
<1> DEFINE i == IndexOf(list, x)
           k == IndexOf(list, y)
<1>3. i \in DOMAIN list /\ list[i] = x /\ k \in DOMAIN list /\ ~(i >= k) /\ \A j \in At(y) : k <= j
  BY <1>2
<1> HIDE DEF i, k
<1>4. ASSUME NEW j \in 1 .. i PROVE list[j] # y
  <2>1. j \in DOMAIN list /\ ~(k <= j)
    BY <1>1, <1>3
  <2> QED
    BY <1>3, <2>1
<1> QED
  BY <1>3, <1>4

\* What VerdictIsSound says of a verdict v, with what the fixture requires,
\* forbids and orders, all the log was told, the memory, the last retention
\* result and the real files that changed.
SoundFor(v, required, forbidden, order, log, m, result, changed) ==
    LET dropped == Len(log) - Len(m.events)
        all == MarkersOf(log)
        late == Range(SubSeq(all, dropped + 1, Len(all)))
    IN  /\ v.pruned <=> dropped > 0
        /\ v.missing \cap late = {}
        /\ late \cap forbidden = v.present
        /\ v.passed => changed = {} /\ v.summary.event_count <= Len(log)
        /\ v.passed /\ dropped = 0 =>
              /\ required \subseteq Range(all)
              /\ forbidden \cap Range(all) = {}
              /\ \A pair \in order :
                    {pair[1], pair[2]} \subseteq Range(all) =>
                        \E i \in DOMAIN all :
                           /\ all[i] = pair[1]
                           /\ \A j \in 1 .. i : all[j] # pair[2]
        /\ SumFunction(v.summary.marker_counts) = v.summary.event_count
        /\ \A l \in Counted : SumFunction(v.summary.status_counts[l]) = v.summary.side_list_counts[l]
        /\ \A i \in DOMAIN v.summary.decisions :
              v.summary.decisions[i].tick >= v.summary.retention.oldest
        /\ \A l \in SideLists : v.summary.side_list_counts[l] <= MaxEntries[l] \/ result = NoValue

IsSound(v) ==
    SoundFor(v, Says("required", {}), Says("forbidden", {}), Says("order", {}), told,
             memory, retained, touched)

LEMMA JudgedIsSound ==
  ASSUME RunsInv, NEW v,
         v.missing = Says("required", {}) \ Range(MarkerSequence),
         v.present = Says("forbidden", {}) \cap Range(MarkerSequence),
         v.disordered = OrderViolations(MarkerSequence, Says("order", {})),
         v.pruned = (retained # NoValue /\ retained.pruned > 0),
         v.summary = RegressionSummary,
         v.passed => /\ v.missing = {} /\ v.present = {} /\ v.disordered = {} /\ touched = {}
  PROVE  IsSound(v)
<1> DEFINE sequence == MarkerSequence
           all == MarkersOf(told)
           dropped == Len(told) - Len(memory.events)
           late == Range(SubSeq(all, dropped + 1, Len(all)))
<1>1. /\ IsList(told) /\ Ends(memory.events, told) /\ IsMemory(memory) /\ RetainedInv
      /\ Len(told) \in Nat /\ Len(memory.events) \in Nat /\ Len(memory.events) <= Len(told)
  <2>1. IsList(told) /\ Ends(memory.events, told) /\ IsMemory(memory) /\ RetainedInv
    BY DEF RunsInv, KeptInv, LogEnds
  <2> QED
    BY <2>1, ListIs DEF Ends
<1>2. /\ IsList(sequence) /\ Len(sequence) = Len(memory.events)
      /\ late = Range(sequence)
      /\ dropped = 0 => sequence = all
  <2>1. sequence = MarkersOf(memory.events)
    BY DEF MarkerSequence, MarkersOf
  <2> QED
    BY <1>1, <2>1, LateMarkers
<1>3. /\ v.summary.event_count = Len(sequence) /\ v.summary.marker_counts = Counts(sequence)
      /\ v.summary.side_list_counts = [l \in SideLists |-> Len(memory.lists[l])]
      /\ v.summary.decisions = SelectedDecisions /\ v.summary.retention = RetentionSummary
      /\ v.summary.status_counts = [l \in Counted |-> StatusCounts(l)]
  BY DEF RegressionSummary
<1> HIDE DEF sequence, all, late
<1>4. /\ v.missing = Says("required", {}) \ Range(sequence)
      /\ v.present = Says("forbidden", {}) \cap Range(sequence)
      /\ v.disordered = OrderViolations(sequence, Says("order", {}))
  BY DEF sequence
<1>5. v.pruned <=> dropped > 0
  <2>1. CASE retained = NoValue
    <3>1. told = memory.events
      BY <1>1, <2>1 DEF RetainedInv
    <3>2. ~(dropped > 0)
      BY <1>1, <3>1
    <3> QED
      BY <2>1, <3>2
  <2>2. CASE retained # NoValue
    <3>1. retained.pruned > 0 <=> dropped > 0
      BY <1>1, <2>2 DEF RetainedInv
    <3> HIDE DEF dropped
    <3> QED
      BY <2>2, <3>1
  <2> QED
    BY <2>1, <2>2
<1>6. v.missing \cap late = {} /\ late \cap Says("forbidden", {}) = v.present
  BY <1>2, <1>4
<1>7. v.passed => touched = {} /\ v.summary.event_count <= Len(told)
  BY <1>1, <1>2, <1>3
<1>8. ASSUME v.passed, dropped = 0
      PROVE  /\ Says("required", {}) \subseteq Range(all)
             /\ Says("forbidden", {}) \cap Range(all) = {}
             /\ \A pair \in Says("order", {}) :
                   {pair[1], pair[2]} \subseteq Range(all) =>
                       \E i \in DOMAIN all :
                          all[i] = pair[1] /\ \A j \in 1 .. i : all[j] # pair[2]
  <2>1. sequence = all /\ v.missing = {} /\ v.present = {} /\ v.disordered = {}
    BY <1>2, <1>8
  <2>2. ASSUME NEW pair \in Says("order", {}), {pair[1], pair[2]} \subseteq Range(all)
        PROVE  \E i \in DOMAIN all : all[i] = pair[1] /\ \A j \in 1 .. i : all[j] # pair[2]
    <3>1. ~(IndexOf(all, pair[1]) >= IndexOf(all, pair[2]))
      BY <1>4, <2>1, <2>2 DEF OrderViolations
    <3> QED
      BY <1>2, <2>1, <2>2, <3>1, FirstBefore
  <2> QED
    BY <1>4, <2>1, <2>2
<1>9. SumFunction(v.summary.marker_counts) = v.summary.event_count
  BY <1>2, <1>3, CountsAddUp
<1>10. ASSUME NEW l \in Counted
       PROVE  SumFunction(v.summary.status_counts[l]) = v.summary.side_list_counts[l]
  <2> DEFINE said == [i \in DOMAIN memory.lists[l] |-> memory.lists[l][i].says]
  <2>1. l \in SideLists
    BY DEF Counted, SideLists, Markers, FrameMarkers
  <2>2. IsList(memory.lists[l])
    BY <1>1, <2>1 DEF IsMemory
  <2>3. Len(memory.lists[l]) \in Nat /\ said = [i \in 1 .. Len(memory.lists[l]) |-> said[i]]
    BY <2>2, ListIs
  <2>4. v.summary.status_counts[l] = Counts(said)
    BY <1>3 DEF StatusCounts
  <2> HIDE DEF said
  <2>5. IsList(said) /\ Len(said) = Len(memory.lists[l])
    BY <2>3, FunctionsAreLists
  <2>6. SumFunction(Counts(said)) = Len(said)
    BY <2>5, CountsAddUp
  <2> QED
    BY <1>3, <2>1, <2>4, <2>5, <2>6
<1>11. ASSUME NEW i \in DOMAIN v.summary.decisions
       PROVE  v.summary.decisions[i].tick >= v.summary.retention.oldest
  <2> DEFINE decisions == memory.lists["decisions"]
  <2>1. IsList(decisions)
    BY <1>1 DEF IsMemory, SideLists, Markers, FrameMarkers
  <2>2. i \in DOMAIN decisions /\ v.summary.decisions[i].tick = decisions[i].tick
    BY <1>3, <1>11 DEF SelectedDecisions
  <2> HIDE DEF decisions
  <2>3. decisions # <<>> /\ decisions[i] \in Range(decisions)
    BY <2>1, <2>2, ListIs DEF Range
  <2>4. retained # NoValue /\ decisions[i].tick >= retained.oldest
    BY <1>1, <2>3 DEF RetainedInv, decisions
  <2>5. v.summary.retention.oldest = retained.oldest
    BY <1>3, <2>4 DEF RetentionSummary
  <2> QED
    BY <2>2, <2>4, <2>5
<1>12. ASSUME NEW l \in SideLists
       PROVE  v.summary.side_list_counts[l] <= MaxEntries[l] \/ retained = NoValue
  BY <1>1, <1>3 DEF RetainedInv
<1> HIDE DEF dropped
<1> QED
  BY <1>5, <1>6, <1>7, <1>8, <1>9, <1>10, <1>11, <1>12 DEF IsSound, SoundFor, late, all, dropped

LEMMA JudgeKeeps ==
  ASSUME RunsInv, Judge
  PROVE  VerdictIsSound'
<1>1. IsSound(verdict')
  <2>1. /\ verdict'.missing = Says("required", {}) \ Range(MarkerSequence)
        /\ verdict'.present = Says("forbidden", {}) \cap Range(MarkerSequence)
        /\ verdict'.disordered = OrderViolations(MarkerSequence, Says("order", {}))
        /\ verdict'.pruned = (retained # NoValue /\ retained.pruned > 0)
        /\ verdict'.summary = RegressionSummary
    BY DEF Judge
  <2>2. verdict'.passed => /\ verdict'.missing = {} /\ verdict'.present = {}
                           /\ verdict'.disordered = {} /\ touched = {}
    BY DEF Judge
  <2> QED
    BY <2>1, <2>2, JudgedIsSound
<1>2. /\ fixture' = fixture /\ told' = told /\ memory' = memory /\ retained' = retained
      /\ touched' = touched
  BY DEF Judge
<1>3. /\ Says("required", {})' = Says("required", {})
      /\ Says("forbidden", {})' = Says("forbidden", {})
      /\ Says("order", {})' = Says("order", {})
  BY <1>2 DEF Says
<1>4. SoundFor(verdict', Says("required", {})', Says("forbidden", {})', Says("order", {})',
               told', memory', retained', touched')
  BY <1>1, <1>2, <1>3 DEF IsSound
<1> QED
  BY <1>4 DEF VerdictIsSound, SoundFor, MarkersOf


LEMMA ScenarioBegins ==
  ASSUME ScenarioInit PROVE ScenarioInv
<1>1. /\ fixture \in Fixtures /\ phase = "new" /\ memory = EmptyMemory(0) /\ told = <<>>
      /\ retained = NoValue
  BY DEF ScenarioInit
<1>2. VerdictIsSound
  BY <1>1 DEF VerdictIsSound
<1> QED
  BY <1>1, <1>2 DEF ScenarioInv

LEMMA ScenarioGoesOn ==
  ASSUME LogAssumption, ScenarioAssumption, ScenarioInv, [ScenarioNext]_scenarioVars
  PROVE  ScenarioInv'
<1>1. ASSUME Load PROVE ScenarioInv'
  <2>1. phase = "new" /\ fixture' = fixture /\ phase' \in {"run", "refused"}
    BY <1>1 DEF Load
  <2>2. VerdictIsSound'
    BY <2>1 DEF VerdictIsSound
  <2>3. ASSUME phase' = "run" PROVE RunsInv'
    <3>1. Loads(fixture)
      BY <1>1, <2>3 DEF Load
    <3>2. /\ fixture \in Fixtures /\ memory = EmptyMemory(0) /\ told = <<>>
          /\ retained = NoValue
      BY <2>1 DEF ScenarioInv
    <3> QED
      BY <1>1, <3>1, <3>2, LoadKeeps
  <2> QED
    BY <2>1, <2>2, <2>3 DEF ScenarioInv
<1>2. ASSUME Apply PROVE ScenarioInv'
  <2>1. phase = "run" /\ phase' = "run" /\ fixture' = fixture
    BY <1>2 DEF Apply
  <2>2. RunsInv'
    BY <1>2, <2>1, ApplyKeeps DEF ScenarioInv
  <2>3. VerdictIsSound'
    BY <2>1 DEF VerdictIsSound
  <2> QED
    BY <2>1, <2>2, <2>3 DEF ScenarioInv
<1>3. ASSUME Touch PROVE ScenarioInv'
  <2>1. /\ phase = "run" /\ phase' = "run" /\ fixture' = fixture /\ due' = due
        /\ told' = told /\ memory' = memory /\ retained' = retained
    BY <1>3 DEF Touch
  <2>2. RunsInv'
    BY <2>1 DEF ScenarioInv, RunsInv, KeptInv, RetainedInv, LogEnds
  <2>3. VerdictIsSound'
    BY <2>1 DEF VerdictIsSound
  <2> QED
    BY <2>1, <2>2, <2>3 DEF ScenarioInv
<1>4. ASSUME Judge PROVE ScenarioInv'
  <2>1. phase = "run" /\ phase' = "judged" /\ fixture' = fixture
    BY <1>4 DEF Judge
  <2>2. VerdictIsSound'
    BY <1>4, <2>1, JudgeKeeps DEF ScenarioInv
  <2> QED
    BY <2>1, <2>2 DEF ScenarioInv
<1>5. ASSUME UNCHANGED scenarioVars PROVE ScenarioInv'
  <2>1. /\ phase' = phase /\ fixture' = fixture /\ due' = due /\ told' = told
        /\ memory' = memory /\ retained' = retained /\ touched' = touched
        /\ verdict' = verdict
    BY <1>5 DEF scenarioVars
  <2>2. RunsInv => RunsInv'
    BY <2>1 DEF RunsInv, KeptInv, RetainedInv, LogEnds
  <2>3. VerdictIsSound => VerdictIsSound'
    <3>1. /\ Says("required", {})' = Says("required", {})
          /\ Says("forbidden", {})' = Says("forbidden", {})
          /\ Says("order", {})' = Says("order", {})
      BY <2>1 DEF Says
    <3>2. ASSUME VerdictIsSound, phase = "judged" PROVE IsSound(verdict)
      BY <3>2 DEF VerdictIsSound, IsSound, SoundFor, MarkersOf
    <3>3. ASSUME IsSound(verdict)
          PROVE  SoundFor(verdict', Says("required", {})', Says("forbidden", {})',
                          Says("order", {})', told', memory', retained', touched')
      BY <2>1, <3>1, <3>3 DEF IsSound
    <3>4. ASSUME SoundFor(verdict', Says("required", {})', Says("forbidden", {})',
                          Says("order", {})', told', memory', retained', touched')
          PROVE  VerdictIsSound'
      BY <3>4 DEF VerdictIsSound, SoundFor, MarkersOf
    <3>5. phase # "judged" => VerdictIsSound'
      BY <2>1 DEF VerdictIsSound
    <3> QED
      BY <3>2, <3>3, <3>4, <3>5
  <2> QED
    BY <2>1, <2>2, <2>3 DEF ScenarioInv
<1> QED
  BY <1>1, <1>2, <1>3, <1>4, <1>5 DEF ScenarioNext

\* Whatever the fixtures say and the ticks add, and however short the log and the
\* side lists are kept, the verdict of a scenario, read off what retention left, is
\* true of all that the run did.
THEOREM VerdictsAreSound == ScenarioSpec => []VerdictIsSound
<1>1. ScenarioInit => ScenarioInv
  BY ScenarioBegins
<1>2. ScenarioInv /\ [ScenarioNext]_scenarioVars => ScenarioInv'
  BY ScenarioGoesOn, LogAssumption, ScenarioAssumption
<1>3. ScenarioInv => VerdictIsSound
  BY DEF ScenarioInv
<1> QED
  BY <1>1, <1>2, <1>3, PTL DEF ScenarioSpec
=============================================================================
