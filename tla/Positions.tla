------------------------------ MODULE Positions ------------------------------
(***************************************************************************)
(* What a loop of the program picks from a list is, here, a set of positions *)
(* of the list; where the order matters it is listed again.                  *)
(***************************************************************************)
EXTENDS Integers, FiniteSets, Sequences

\* The positions the slice s[-n:] of a list keeps.
Recent(s, n) == {i \in 1 .. Len(s) : i > Len(s) - n}

\* The members of a set of positions, in ascending order: the k-th is the one
\* with k members up to it.
InOrder(positions) ==
    [k \in 1 .. Cardinality(positions) |->
        CHOOSE i \in positions : Cardinality({j \in positions : j <= i}) = k]

\* What a list has at these positions, in its order.
Picked(s, positions) ==
    [k \in 1 .. Cardinality(positions) |-> s[InOrder(positions)[k]]]
=============================================================================
