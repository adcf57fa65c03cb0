--------------------------- MODULE ExperienceMemory ---------------------------
(***************************************************************************)
(* What the memory chain promises of permanent experience, whatever it     *)
(* does with drafts, copies, crashes and failed writes: one experience per *)
(* signature, learned once and never forgotten, then only strengthened,    *)
(* one update at a time.                                                   *)
(***************************************************************************)
EXTENDS Naturals

CONSTANT Sig

VARIABLE memory  \* signature -> number of updates, defined on what is learned

TypeOK == \E S \in SUBSET Sig : memory \in [S -> Nat]

Init == \E S \in SUBSET Sig : memory = [s \in S |-> 0]

\* A write of the store may carry several drafts.
Learn(T) ==
  /\ T \cap DOMAIN memory = {}
  /\ memory' = [s \in DOMAIN memory \cup T |-> IF s \in T THEN 0 ELSE memory[s]]

Strengthen(T) ==
  /\ T \subseteq DOMAIN memory
  /\ memory' = [s \in DOMAIN memory |-> IF s \in T THEN memory[s] + 1 ELSE memory[s]]

Next == \E T \in SUBSET Sig : Learn(T) \/ Strengthen(T)

Spec == Init /\ [][Next]_memory
=============================================================================
