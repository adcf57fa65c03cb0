--------------------------- MODULE Positions_proofs ---------------------------
(***************************************************************************)
(* Facts about lists and positions, for proofs about the modules that loop  *)
(* over lists.  They need induction.  It comes here from the pigeonhole     *)
(* principle, as a fact about sets of numbers.                              *)
(***************************************************************************)
EXTENDS Positions, Sequences, SequencesExt, FiniteSetsExt, FiniteSetTheorems, TLAPS

\* A set with 0 and the successors of its members has all numbers: otherwise
\* k |-> k - 1 maps what is missing up to m into itself without m.
LEMMA NatSets ==
  ASSUME NEW S, 0 \in S, \A n \in Nat : n \in S => n + 1 \in S
  PROVE  Nat \subseteq S
<1> SUFFICES ASSUME NEW m \in Nat, m \notin S PROVE FALSE
  OBVIOUS
<1> DEFINE T == {k \in 0 .. m : k \notin S}
           f == [k \in T |-> k - 1]
<1>1. IsFiniteSet(T)
  <2>1. IsFiniteSet(0 .. m)
    BY FS_Interval
  <2> QED
    BY <2>1, FS_Subset
<1>2. IsFiniteSet(T \ {m}) /\ Cardinality(T \ {m}) = Cardinality(T) - 1
  BY <1>1, FS_RemoveElement
<1>3. Cardinality(T) \in Nat
  BY <1>1, FS_CardinalityType
<1>4. f \in [T -> T \ {m}]
  <2>1. ASSUME NEW k \in T PROVE k - 1 \in T \ {m}
    <3>1. k # 0 /\ k \in 0 .. m
      OBVIOUS
    <3>2. k - 1 \in Nat /\ (k - 1) + 1 = k
      BY <3>1
    <3>3. k - 1 \notin S
      BY <3>2
    <3> QED
      BY <3>1, <3>3
  <2> QED
    BY <2>1
<1>5. \A k, l \in T : f[k] = f[l] => k = l
  OBVIOUS
<1> HIDE DEF f, T
<1>6. \E k, l \in T : k # l /\ f[k] = f[l]
  BY <1>1, <1>2, <1>3, <1>4, FS_PigeonHole
<1> QED
  BY <1>5, <1>6

Ascends(list) == \A i, j \in DOMAIN list : i < j => list[i] < list[j]

\* Every finite set of positions can be listed.
LEMMA CanBeListed ==
  ASSUME NEW n \in Nat, NEW S \in SUBSET (1 .. n)
  PROVE  \E list \in [1 .. Cardinality(S) -> S] : Ascends(list)
<1> DEFINE Lists(T) == \E list \in [1 .. Cardinality(T) -> T] : Ascends(list)
           Good == {k \in Nat : \A T \in SUBSET (1 .. k) : Lists(T)}
<1>1. 0 \in Good
  <2>1. ASSUME NEW T \in SUBSET (1 .. 0) PROVE Lists(T)
    <3>1. T = {} /\ Cardinality(T) = 0
      <4>1. T = {}
        OBVIOUS
      <4> QED
        BY <4>1, FS_EmptySet
    <3> DEFINE none == [i \in 1 .. 0 |-> i]
    <3>2. none \in [1 .. Cardinality(T) -> T]
      BY <3>1
    <3>3. Ascends(none)
      BY DEF Ascends
    <3> HIDE DEF none
    <3> QED
      BY <3>2, <3>3
  <2> QED
    BY <2>1
<1>2. ASSUME NEW k \in Nat, k \in Good PROVE k + 1 \in Good
  <2>1. ASSUME NEW T \in SUBSET (1 .. k + 1) PROVE Lists(T)
    <3> DEFINE U == T \ {k + 1}
    <3>1. U \in SUBSET (1 .. k)
      OBVIOUS
    <3>2. PICK list \in [1 .. Cardinality(U) -> U] : Ascends(list)
      BY <1>2, <3>1
    <3>3. CASE k + 1 \notin T
      <4>1. U = T
        BY <3>3
      <4> QED
        BY <3>2, <4>1
    <3>4. CASE k + 1 \in T
      <4> DEFINE c == Cardinality(U)
                 more == [i \in 1 .. c + 1 |-> IF i = c + 1 THEN k + 1 ELSE list[i]]
      <4>1. IsFiniteSet(U) /\ c \in Nat
        <5>1. IsFiniteSet(1 .. k)
          BY FS_Interval
        <5>2. IsFiniteSet(U)
          BY <3>1, <5>1, FS_Subset
        <5> QED
          BY <5>2, FS_CardinalityType
      <4>2. Cardinality(T) = c + 1
        <5>1. T = U \cup {k + 1} /\ k + 1 \notin U
          BY <3>4
        <5>2. Cardinality(U \cup {k + 1}) = c + 1
          BY <4>1, <5>1, FS_AddElement
        <5> QED
          BY <5>1, <5>2
      <4> HIDE DEF c
      <4>3. list \in [1 .. c -> U] /\ Ascends(list)
        BY <3>2 DEF c
      <4>4. more \in [1 .. c + 1 -> T]
        <5>1. ASSUME NEW i \in 1 .. c + 1 PROVE more[i] \in T
          <6>1. CASE i = c + 1
            BY <3>4, <6>1
          <6>2. CASE i # c + 1
            <7>1. i \in 1 .. c
              BY <4>1, <6>2
            <7>2. list[i] \in T
              BY <4>3, <7>1
            <7> QED
              BY <6>2, <7>2
          <6> QED
            BY <6>1, <6>2
        <5> QED
          BY <5>1
      <4>5. Ascends(more)
        <5>1. ASSUME NEW i \in 1 .. c + 1, NEW j \in 1 .. c + 1, i < j PROVE more[i] < more[j]
          <6>1. i \in 1 .. c /\ more[i] = list[i] /\ list[i] \in 1 .. k
            <7>1. i \in 1 .. c /\ i # c + 1
              BY <4>1, <5>1
            <7>2. list[i] \in U
              BY <4>3, <7>1
            <7> QED
              BY <3>1, <7>1, <7>2
          <6>2. CASE j = c + 1
            BY <6>1, <6>2
          <6>3. CASE j \in 1 .. c
            <7>1. more[j] = list[j]
              BY <4>1, <6>3
            <7>2. list[i] < list[j]
              BY <4>3, <5>1, <6>1, <6>3 DEF Ascends
            <7> QED
              BY <6>1, <7>1, <7>2
          <6> QED
            BY <4>1, <6>2, <6>3
        <5> QED
          BY <5>1 DEF Ascends
      <4> QED
        BY <4>2, <4>4, <4>5
    <3> QED
      BY <3>3, <3>4
  <2> QED
    BY <2>1
<1> HIDE DEF Good
<1>3. Nat \subseteq Good
  BY <1>1, <1>2, NatSets
<1> QED
  BY <1>3 DEF Good

\* InOrder lists every member of a finite set of positions once.
LEMMA InOrderLists ==
  ASSUME NEW n \in Nat, NEW S \in SUBSET (1 .. n)
  PROVE  LET list == InOrder(S)
         IN  /\ Cardinality(S) \in Nat /\ Cardinality(S) <= n
             /\ list \in [1 .. Cardinality(S) -> S] /\ list \in Seq(S) /\ Len(list) = Cardinality(S)
             /\ \A i, j \in 1 .. Cardinality(S) : i < j => list[i] < list[j]
             /\ \A x \in S : \E i \in 1 .. Cardinality(S) : list[i] = x
<1> DEFINE c == Cardinality(S)
<1>1. IsFiniteSet(S) /\ c \in Nat /\ c <= n
  <2>1. IsFiniteSet(1 .. n) /\ Cardinality(1 .. n) = n
    BY FS_Interval
  <2>2. IsFiniteSet(S) /\ c <= n
    BY <2>1, FS_Subset
  <2> QED
    BY <2>2, FS_CardinalityType
<1>2. PICK list \in [1 .. c -> S] : Ascends(list)
  BY CanBeListed
<1> HIDE DEF c
<1>3. \A i, j \in 1 .. c : i < j => list[i] < list[j]
  BY <1>2 DEF Ascends
<1>4. \A i \in 1 .. c : list[i] \in S /\ list[i] \in 1 .. n
  BY <1>2
<1>5. \A i, j \in 1 .. c : list[i] <= list[j] <=> i <= j
  <2>1. ASSUME NEW i \in 1 .. c, NEW j \in 1 .. c PROVE list[i] <= list[j] <=> i <= j
    <3>1. list[i] \in 1 .. n /\ list[j] \in 1 .. n /\ i \in Int /\ j \in Int
      BY <1>4
    <3>2. /\ i < j => list[i] < list[j]
          /\ j < i => list[j] < list[i]
      BY <1>3
    <3> QED
      BY <3>1, <3>2
  <2> QED
    BY <2>1
<1>6. \A x \in S : \E i \in 1 .. c : list[i] = x
  <2>1. \A i, j \in 1 .. c : list[i] = list[j] => i = j
    <3>1. ASSUME NEW i \in 1 .. c, NEW j \in 1 .. c, list[i] = list[j] PROVE i = j
      <4>1. list[i] <= list[j] /\ list[j] <= list[i] /\ i \in Int /\ j \in Int
        BY <1>4, <3>1
      <4> QED
        BY <1>5, <4>1
    <3> QED
      BY <3>1
  <2>2. list \in Injection(1 .. c, S)
    BY <1>2, <2>1 DEF Injection, IsInjective
  <2>3. Cardinality(1 .. c) = Cardinality(S)
    BY <1>1, FS_Interval DEF c
  <2>4. list \in Surjection(1 .. c, S)
    BY <1>1, <2>2, <2>3, FS_Injection
  <2> QED
    BY <2>4 DEF Surjection
<1> DEFINE UpTo(i) == {j \in S : j <= i}
<1>7. ASSUME NEW k \in 1 .. c PROVE Cardinality(UpTo(list[k])) = k
  <2> DEFINE first == [i \in 1 .. k |-> list[i]]
  <2>1. \A i \in 1 .. k : i \in 1 .. c /\ i <= k
    BY <1>1
  <2>2. first \in [1 .. k -> UpTo(list[k])]
    BY <1>4, <1>5, <2>1
  <2>3. \A i, j \in 1 .. k : first[i] = first[j] => i = j
    <3>1. ASSUME NEW i \in 1 .. k, NEW j \in 1 .. k, first[i] = first[j] PROVE i = j
      <4>1. list[i] = list[j] /\ list[i] \in 1 .. n
        BY <1>4, <2>1, <3>1
      <4>2. list[i] <= list[j] /\ list[j] <= list[i]
        BY <4>1
      <4>3. i <= j /\ j <= i
        BY <1>5, <2>1, <4>2
      <4> QED
        BY <4>3
    <3> QED
      BY <3>1
  <2>4. \A x \in UpTo(list[k]) : \E i \in 1 .. k : first[i] = x
    <3>1. ASSUME NEW x \in UpTo(list[k]) PROVE \E i \in 1 .. k : first[i] = x
      <4>1. PICK i \in 1 .. c : list[i] = x
        BY <1>6
      <4>2. i <= k
        BY <1>5, <3>1, <4>1
      <4>3. i \in 1 .. k
        BY <4>2
      <4> QED
        BY <4>1, <4>3
    <3> QED
      BY <3>1
  <2> HIDE DEF first
  <2>5. first \in Bijection(1 .. k, UpTo(list[k]))
    BY <2>2, <2>3, <2>4 DEF Bijection, Injection, Surjection, IsInjective
  <2> HIDE DEF UpTo
  <2>6. ExistsBijection(1 .. k, UpTo(list[k]))
    BY <2>5 DEF ExistsBijection
  <2>7. k \in Nat
    BY <1>1
  <2> QED
    BY <2>6, <2>7, FS_CountingElements
<1>8. ASSUME NEW k \in 1 .. c
      PROVE  (CHOOSE i \in S : Cardinality(UpTo(i)) = k) = list[k]
  <2>1. list[k] \in S /\ Cardinality(UpTo(list[k])) = k
    BY <1>4, <1>7
  <2>2. ASSUME NEW i \in S, Cardinality(UpTo(i)) = k PROVE i = list[k]
    <3>1. PICK m \in 1 .. c : list[m] = i
      BY <1>6
    <3>2. Cardinality(UpTo(list[m])) = m
      BY <1>7
    <3> QED
      BY <2>2, <3>1, <3>2
  <2> HIDE DEF UpTo
  <2> QED
    BY <2>1, <2>2
<1>9. InOrder(S) = list
  <2>1. InOrder(S) = [k \in 1 .. c |-> CHOOSE i \in S : Cardinality(UpTo(i)) = k]
    BY DEF InOrder, c
  <2> HIDE DEF UpTo
  <2>2. list = [k \in 1 .. c |-> list[k]]
    BY <1>2
  <2> QED
    BY <1>8, <2>1, <2>2
<1>10. list \in Seq(S) /\ Len(list) = c
  BY <1>1, <1>2
<1> QED
  BY <1>1, <1>2, <1>3, <1>6, <1>9, <1>10 DEF c

-----------------------------------------------------------------------------
\* What is picked from a list is in the order of the list, and complete.
LEMMA PickedIs ==
  ASSUME NEW T, NEW s \in Seq(T), NEW S \in SUBSET (1 .. Len(s))
  PROVE  /\ Picked(s, S) \in Seq(T) /\ Len(Picked(s, S)) = Cardinality(S)
         /\ Cardinality(S) \in Nat /\ Cardinality(S) <= Len(s)
         /\ \A k \in 1 .. Cardinality(S) : Picked(s, S)[k] = s[InOrder(S)[k]] /\ InOrder(S)[k] \in S
         /\ \A i, j \in 1 .. Cardinality(S) : i < j => InOrder(S)[i] < InOrder(S)[j]
         /\ \A x \in S : \E k \in 1 .. Cardinality(S) : InOrder(S)[k] = x
<1> DEFINE c == Cardinality(S)
           list == InOrder(S)
<1>1. Len(s) \in Nat
  OBVIOUS
<1>2. /\ c \in Nat /\ c <= Len(s)
      /\ list \in [1 .. c -> S]
      /\ \A i, j \in 1 .. c : i < j => list[i] < list[j]
      /\ \A x \in S : \E i \in 1 .. c : list[i] = x
  BY <1>1, InOrderLists
<1>3. Picked(s, S) = [k \in 1 .. c |-> s[list[k]]]
  BY DEF Picked
<1> HIDE DEF c, list
<1>4. \A k \in 1 .. c : list[k] \in S /\ s[list[k]] \in T
  <2>1. ASSUME NEW k \in 1 .. c PROVE list[k] \in S /\ s[list[k]] \in T
    <3>1. list[k] \in S /\ list[k] \in 1 .. Len(s)
      BY <1>2
    <3> QED
      BY <3>1
  <2> QED
    BY <2>1
<1> DEFINE q == [k \in 1 .. c |-> s[list[k]]]
<1>5. q \in Seq(T) /\ Len(q) = c /\ \A k \in 1 .. c : q[k] = s[list[k]]
  BY <1>2, <1>4
<1> QED
  BY <1>2, <1>3, <1>4, <1>5 DEF c, list

\* The last positions of a list pick its end.
LEMMA EndPicked ==
  ASSUME NEW T, NEW s \in Seq(T), NEW a \in 1 .. Len(s) + 1
  PROVE  Picked(s, a .. Len(s)) = SubSeq(s, a, Len(s))
<1> DEFINE n == Len(s)
           m == n - a + 1
           P == a .. n
<1>1. n \in Nat /\ a \in Nat /\ m \in Nat /\ a >= 1 /\ a <= n + 1
  OBVIOUS
<1> HIDE DEF n
<1>2. Cardinality(P) = m
  <2>1. a \in Int /\ n \in Int /\ (a > n => m = 0)
    BY <1>1
  <2> QED
    BY <2>1, FS_Interval
<1>3. ASSUME NEW i \in P PROVE Cardinality({j \in P : j <= i}) = i - a + 1
  <2>1. {j \in P : j <= i} = a .. i /\ i \in Int /\ a \in Int /\ a <= i
    BY <1>1
  <2>2. Cardinality(a .. i) = i - a + 1
    BY <2>1, FS_Interval
  <2> QED
    BY <2>1, <2>2
<1>4. ASSUME NEW k \in 1 .. m
      PROVE  (CHOOSE i \in P : Cardinality({j \in P : j <= i}) = k) = a + k - 1
  <2>1. a + k - 1 \in P
    BY <1>1
  <2>2. \A i \in P : Cardinality({j \in P : j <= i}) = k <=> i = a + k - 1
    <3>1. ASSUME NEW i \in P PROVE (i - a + 1 = k) <=> (i = a + k - 1)
      BY <1>1
    <3> QED
      BY <1>3, <3>1
  <2> QED
    BY <2>1, <2>2
<1>5. InOrder(P) = [k \in 1 .. m |-> a + k - 1]
  BY <1>2, <1>4 DEF InOrder
<1>6. Picked(s, P) = [k \in 1 .. m |-> s[a + k - 1]]
  <2>1. Picked(s, P) = [k \in 1 .. m |-> s[InOrder(P)[k]]]
    BY <1>2 DEF Picked
  <2>2. \A k \in 1 .. m : InOrder(P)[k] = a + k - 1
    BY <1>5
  <2> QED
    BY <2>1, <2>2
<1>7. SubSeq(s, a, n) = [k \in 1 .. m |-> s[a + k - 1]]
  <2>1. \A k \in 1 .. m : a + k - 1 = k + a - 1
    BY <1>1
  <2> QED
    BY <1>1, <2>1 DEF n
<1> QED
  BY <1>6, <1>7 DEF n

-----------------------------------------------------------------------------
\* A non-empty set of positions has a greatest one.
LEMMA GreatestIs ==
  ASSUME NEW n \in Nat, NEW S \in SUBSET (1 .. n), S # {}
  PROVE  Max(S) \in S /\ \A x \in S : x <= Max(S)
<1> DEFINE c == Cardinality(S)
           list == InOrder(S)
<1>1. /\ c \in Nat /\ list \in [1 .. c -> S]
      /\ \A i, j \in 1 .. c : i < j => list[i] < list[j]
      /\ \A x \in S : \E i \in 1 .. c : list[i] = x
  BY InOrderLists
<1> HIDE DEF c, list
<1>2. c \in 1 .. c
  <2>1. \E i \in 1 .. c : TRUE
    BY <1>1
  <2> QED
    BY <1>1, <2>1
<1>3. list[c] \in S
  BY <1>1, <1>2
<1>4. ASSUME NEW x \in S PROVE list[c] >= x
  <2>1. PICK i \in 1 .. c : list[i] = x
    BY <1>1
  <2>2. x \in 1 .. n /\ list[c] \in 1 .. n
    BY <1>3
  <2>3. CASE i = c
    BY <2>1, <2>2, <2>3
  <2>4. CASE i # c
    <3>1. i < c
      BY <1>1, <2>4
    <3>2. x < list[c]
      BY <1>1, <1>2, <2>1, <3>1
    <3> QED
      BY <2>2, <3>2
  <2> QED
    BY <2>3, <2>4
<1>5. \E x \in S : \A y \in S : x >= y
  BY <1>3, <1>4
<1>6. Max(S) \in S /\ \A y \in S : Max(S) >= y
  BY <1>5 DEF Max
<1> QED
  BY <1>6

-----------------------------------------------------------------------------
(* Lists that are put together.                                            *)

\* One list after another.
LEMMA Joined ==
  ASSUME NEW T, NEW s \in Seq(T), NEW t \in Seq(T)
  PROVE  /\ s \o t \in Seq(T) /\ Len(s) \in Nat /\ Len(t) \in Nat
         /\ Len(s \o t) = Len(s) + Len(t)
         /\ \A i \in 1 .. Len(s) : (s \o t)[i] = s[i]
         /\ \A i \in 1 .. Len(t) : (s \o t)[Len(s) + i] = t[i]
         /\ \A i \in 1 .. Len(s \o t) : i \notin 1 .. Len(s) =>
               i - Len(s) \in 1 .. Len(t) /\ (s \o t)[i] = t[i - Len(s)]
  OBVIOUS

\* What is in two lists is in their concatenation, and nothing else.
LEMMA JoinedSet ==
  ASSUME NEW T, NEW s \in Seq(T), NEW t \in Seq(T)
  PROVE  s \o t \in Seq(T) /\ ToSet(s \o t) = ToSet(s) \cup ToSet(t)
<1> DEFINE st == s \o t
<1>1. /\ st \in Seq(T) /\ Len(s) \in Nat /\ Len(t) \in Nat /\ Len(st) = Len(s) + Len(t)
      /\ \A i \in 1 .. Len(s) : st[i] = s[i]
      /\ \A i \in 1 .. Len(t) : st[Len(s) + i] = t[i]
      /\ \A i \in 1 .. Len(st) : i \notin 1 .. Len(s) =>
            i - Len(s) \in 1 .. Len(t) /\ st[i] = t[i - Len(s)]
  BY Joined
<1>2. DOMAIN st = 1 .. Len(st) /\ DOMAIN s = 1 .. Len(s) /\ DOMAIN t = 1 .. Len(t)
  BY <1>1
<1> HIDE DEF st
<1>3. ASSUME NEW i \in 1 .. Len(st) PROVE st[i] \in ToSet(s) \cup ToSet(t)
  <2>1. CASE i \in 1 .. Len(s)
    BY <1>1, <1>2, <2>1 DEF ToSet
  <2>2. CASE i \notin 1 .. Len(s)
    BY <1>1, <1>2, <2>2 DEF ToSet
  <2> QED
    BY <2>1, <2>2
<1>4. ASSUME NEW i \in 1 .. Len(s) PROVE s[i] \in ToSet(st)
  <2>1. i \in 1 .. Len(st) /\ st[i] = s[i]
    BY <1>1
  <2> QED
    BY <1>2, <2>1 DEF ToSet
<1>5. ASSUME NEW i \in 1 .. Len(t) PROVE t[i] \in ToSet(st)
  <2>1. Len(s) + i \in 1 .. Len(st) /\ st[Len(s) + i] = t[i]
    BY <1>1
  <2> QED
    BY <1>2, <2>1 DEF ToSet
<1>6. ToSet(st) = ToSet(s) \cup ToSet(t)
  BY <1>2, <1>3, <1>4, <1>5 DEF ToSet
<1> QED
  BY <1>1, <1>6 DEF st

\* A list of lists is flattened list by list.
Flattens(f, seqs, n) ==
    f = [i \in 1 .. n |-> IF i = 1 THEN seqs[i] ELSE f[i - 1] \o seqs[i]]

LEMMA CanBeFlattened ==
  ASSUME NEW seqs, NEW n \in Nat
  PROVE  \E f : Flattens(f, seqs, n)
<1> DEFINE Good == {k \in Nat : \E f : Flattens(f, seqs, k)}
<1>1. 0 \in Good
  <2> DEFINE f == [i \in 1 .. 0 |-> <<>>]
  <2>1. Flattens(f, seqs, 0)
    BY DEF Flattens
  <2> HIDE DEF f
  <2> QED
    BY <2>1
<1>2. ASSUME NEW k \in Nat, k \in Good PROVE k + 1 \in Good
  <2>1. PICK g : Flattens(g, seqs, k)
    BY <1>2
  <2> DEFINE h == [i \in 1 .. k + 1 |-> IF i = 1 THEN seqs[i] ELSE g[i - 1] \o seqs[i]]
  <2>2. ASSUME NEW i \in 1 .. k PROVE h[i] = g[i]
    <3>1. g[i] = IF i = 1 THEN seqs[i] ELSE g[i - 1] \o seqs[i]
      <4> HIDE DEF h
      <4> QED
        BY <2>1 DEF Flattens
    <3>2. i \in 1 .. k + 1
      OBVIOUS
    <3> QED
      BY <3>1, <3>2
  <2>3. ASSUME NEW i \in 1 .. k + 1, i # 1 PROVE h[i - 1] = g[i - 1]
    <3>1. i - 1 \in 1 .. k
      BY <2>3
    <3> QED
      BY <2>2, <3>1
  <2>4. h = [i \in 1 .. k + 1 |-> IF i = 1 THEN seqs[i] ELSE h[i - 1] \o seqs[i]]
    <3>1. ASSUME NEW i \in 1 .. k + 1
          PROVE  (IF i = 1 THEN seqs[i] ELSE g[i - 1] \o seqs[i])
                    = (IF i = 1 THEN seqs[i] ELSE h[i - 1] \o seqs[i])
      <4> HIDE DEF h
      <4> QED
        BY <2>3
    <3> QED
      BY <3>1
  <2> HIDE DEF h
  <2>5. Flattens(h, seqs, k + 1)
    BY <2>4 DEF Flattens
  <2> QED
    BY <2>5
<1> HIDE DEF Good
<1>3. n \in Good
  BY <1>1, <1>2, NatSets
<1> QED
  BY <1>3 DEF Good

\* What is in the lists is in the flattened list, and nothing else.
LEMMA FlatIs ==
  ASSUME NEW T, NEW seqs \in Seq(Seq(T))
  PROVE  /\ FlattenSeq(seqs) \in Seq(T)
         /\ ToSet(FlattenSeq(seqs)) = UNION {ToSet(seqs[j]) : j \in 1 .. Len(seqs)}
<1> DEFINE n == Len(seqs)
<1>1. n \in Nat /\ \A i \in 1 .. n : seqs[i] \in Seq(T)
  OBVIOUS
<1>2. CASE n = 0
  <2>1. FlattenSeq(seqs) = seqs /\ seqs = <<>>
    BY <1>2 DEF FlattenSeq
  <2>2. ToSet(seqs) = {}
    BY <2>1 DEF ToSet
  <2> QED
    BY <1>2, <2>1, <2>2
<1>3. CASE n # 0
  <2> DEFINE F == CHOOSE f : Flattens(f, seqs, n)
  <2>1. FlattenSeq(seqs) = F[n]
    BY <1>3 DEF FlattenSeq, Flattens
  <2>2. Flattens(F, seqs, n)
    BY <1>1, CanBeFlattened
  <2> HIDE DEF F, n
  <2>3. \A i \in 1 .. n : F[i] = IF i = 1 THEN seqs[i] ELSE F[i - 1] \o seqs[i]
    BY <2>2 DEF Flattens
  <2> DEFINE Flat(k) ==
                F[k] \in Seq(T) /\ ToSet(F[k]) = UNION {ToSet(seqs[j]) : j \in 1 .. k}
             Good == {k \in Nat : k \in 1 .. n => Flat(k)}
  <2>4. 0 \in Good
    OBVIOUS
  <2>5. ASSUME NEW k \in Nat, k \in Good PROVE k + 1 \in Good
    <3>1. SUFFICES ASSUME k + 1 \in 1 .. n PROVE Flat(k + 1)
      OBVIOUS
    <3>2. CASE k = 0
      <4>1. F[1] = seqs[1] /\ seqs[1] \in Seq(T)
        BY <1>1, <2>3, <3>1, <3>2
      <4>2. \A j \in 1 .. 1 : j = 1
        OBVIOUS
      <4>3. UNION {ToSet(seqs[j]) : j \in 1 .. 1} = ToSet(seqs[1])
        BY <4>2
      <4> QED
        BY <3>2, <4>1, <4>3
    <3>3. CASE k # 0
      <4>1. k \in 1 .. n /\ k + 1 # 1 /\ (k + 1) - 1 = k
        BY <1>1, <3>1, <3>3
      <4>2. F[k + 1] = F[k] \o seqs[k + 1] /\ seqs[k + 1] \in Seq(T)
        BY <1>1, <2>3, <3>1, <4>1
      <4>3. F[k] \in Seq(T) /\ ToSet(F[k]) = UNION {ToSet(seqs[j]) : j \in 1 .. k}
        BY <2>5, <4>1
      <4>4. F[k + 1] \in Seq(T) /\ ToSet(F[k + 1]) = ToSet(F[k]) \cup ToSet(seqs[k + 1])
        BY <4>2, <4>3, JoinedSet
      <4>5. \A j : j \in 1 .. k + 1 <=> j \in 1 .. k \/ j = k + 1
        OBVIOUS
      <4>6. UNION {ToSet(seqs[j]) : j \in 1 .. k + 1}
               = (UNION {ToSet(seqs[j]) : j \in 1 .. k}) \cup ToSet(seqs[k + 1])
        BY <4>5
      <4> QED
        BY <4>3, <4>4, <4>6
    <3> QED
      BY <3>2, <3>3
  <2> HIDE DEF Good
  <2>6. n \in Good
    BY <1>1, <2>4, <2>5, NatSets
  <2>7. Flat(n)
    BY <1>1, <1>3, <2>6 DEF Good
  <2> QED
    BY <2>1, <2>7 DEF n
<1> QED
  BY <1>2, <1>3

-----------------------------------------------------------------------------
\* A non-empty set of positions has a first one.
LEMMA LeastIs ==
  ASSUME NEW n \in Nat, NEW S \in SUBSET (1 .. n), S # {}
  PROVE  LET least == CHOOSE o \in S : \A p \in S : o <= p
         IN  least \in S /\ \A p \in S : least <= p
<1> DEFINE c == Cardinality(S)
           list == InOrder(S)
<1>1. /\ c \in Nat /\ list \in [1 .. c -> S]
      /\ \A i, j \in 1 .. c : i < j => list[i] < list[j]
      /\ \A x \in S : \E i \in 1 .. c : list[i] = x
  BY InOrderLists
<1> HIDE DEF c, list
<1>2. 1 \in 1 .. c
  <2>1. \E i \in 1 .. c : TRUE
    BY <1>1
  <2> QED
    BY <1>1, <2>1
<1>3. list[1] \in S
  BY <1>1, <1>2
<1>4. ASSUME NEW x \in S PROVE list[1] <= x
  <2>1. PICK i \in 1 .. c : list[i] = x
    BY <1>1
  <2>2. x \in 1 .. n /\ list[1] \in 1 .. n
    BY <1>3
  <2>3. CASE i = 1
    BY <2>1, <2>2, <2>3
  <2>4. CASE i # 1
    <3>1. 1 < i
      BY <1>1, <2>4
    <3>2. list[1] < x
      BY <1>1, <1>2, <2>1, <3>1
    <3> QED
      BY <2>2, <3>2
  <2> QED
    BY <2>3, <2>4
<1>5. \E o \in S : \A p \in S : o <= p
  BY <1>3, <1>4
<1> QED
  BY <1>5

\* What a fold over a list builds exists: an element of X for every set of
\* positions, from the one without its greatest.
Folded(f, base, step) ==
    \A s \in DOMAIN f : f[s] = IF s = {} THEN base ELSE step[<<f[s \ {Max(s)}], Max(s)>>]

Foldable(X, base, step, k) == \E f \in [SUBSET (1 .. k) -> X] : Folded(f, base, step)

LEMMA FoldsExist ==
  ASSUME NEW X, NEW base \in X, NEW n \in Nat, NEW step \in [X \X (1 .. n) -> X]
  PROVE  Foldable(X, base, step, n)
<1> DEFINE Good == {k \in Nat : k <= n => Foldable(X, base, step, k)}
<1>1. 0 \in Good
  <2> DEFINE f == [s \in SUBSET (1 .. 0) |-> base]
  <2>1. f \in [SUBSET (1 .. 0) -> X] /\ \A s \in SUBSET (1 .. 0) : s = {}
    OBVIOUS
  <2>2. Folded(f, base, step)
    BY <2>1 DEF Folded
  <2> HIDE DEF f
  <2>3. Foldable(X, base, step, 0)
    BY <2>1, <2>2 DEF Foldable
  <2> QED
    BY <2>3
<1>2. ASSUME NEW k \in Nat, k \in Good PROVE k + 1 \in Good
  <2>1. SUFFICES ASSUME k + 1 <= n PROVE Foldable(X, base, step, k + 1)
    OBVIOUS
  <2>2. PICK g \in [SUBSET (1 .. k) -> X] : Folded(g, base, step)
    <3>1. k <= n
      BY <2>1
    <3> QED
      BY <1>2, <3>1 DEF Foldable
  <2>3. ASSUME NEW s \in SUBSET (1 .. k + 1), s # {}
        PROVE  Max(s) \in 1 .. n /\ s \ {Max(s)} \in SUBSET (1 .. k)
    <3>1. Max(s) \in s /\ \A x \in s : x <= Max(s)
      <4>1. k + 1 \in Nat
        OBVIOUS
      <4> QED
        BY <2>3, <4>1, GreatestIs
    <3>2. ASSUME NEW x \in s, x # Max(s) PROVE x \in 1 .. k
      <4>1. x <= Max(s) /\ x \in 1 .. k + 1 /\ Max(s) \in 1 .. k + 1
        BY <3>1
      <4> QED
        BY <3>2, <4>1
    <3>3. Max(s) \in 1 .. n
      <4>1. Max(s) \in 1 .. k + 1
        BY <3>1
      <4> QED
        BY <2>1, <4>1
    <3> QED
      BY <3>2, <3>3
  <2> DEFINE h == [s \in SUBSET (1 .. k + 1) |->
                      IF s = {} THEN base ELSE step[<<g[s \ {Max(s)}], Max(s)>>]]
  <2>4. h \in [SUBSET (1 .. k + 1) -> X]
    <3>1. ASSUME NEW s \in SUBSET (1 .. k + 1), s # {}
          PROVE  step[<<g[s \ {Max(s)}], Max(s)>>] \in X
      <4>1. g[s \ {Max(s)}] \in X /\ Max(s) \in 1 .. n
        BY <2>2, <2>3, <3>1
      <4> QED
        BY <4>1
    <3> QED
      BY <3>1
  <2>5. \A t \in SUBSET (1 .. k) : t \in SUBSET (1 .. k + 1)
    OBVIOUS
  <2>6. ASSUME NEW t \in SUBSET (1 .. k) PROVE h[t] = g[t]
    BY <2>2, <2>5 DEF Folded
  <2>7. ASSUME NEW s \in SUBSET (1 .. k + 1)
        PROVE  h[s] = IF s = {} THEN base ELSE step[<<h[s \ {Max(s)}], Max(s)>>]
    <3>1. CASE s = {}
      BY <3>1
    <3>2. CASE s # {}
      <4>1. h[s \ {Max(s)}] = g[s \ {Max(s)}]
        BY <2>3, <2>6, <3>2
      <4>2. h[s] = step[<<g[s \ {Max(s)}], Max(s)>>]
        BY <3>2
      <4> HIDE DEF h
      <4> QED
        BY <3>2, <4>1, <4>2
    <3> QED
      BY <3>1, <3>2
  <2>8. DOMAIN h = SUBSET (1 .. k + 1)
    OBVIOUS
  <2> HIDE DEF h
  <2>9. Folded(h, base, step)
    BY <2>7, <2>8 DEF Folded
  <2> QED
    BY <2>4, <2>9 DEF Foldable
<1> HIDE DEF Good
<1>3. n \in Good
  BY <1>1, <1>2, NatSets
<1> QED
  BY <1>3 DEF Good

=============================================================================
