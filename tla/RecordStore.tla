----------------------------- MODULE RecordStore -----------------------------
(***************************************************************************)
(* What a caller of NFPExpSMCreateWriter may rely on, whoever else creates  *)
(* records at the same time: the store only grows, each new record has an  *)
(* id above all others, and an id is confirmed to one caller only, after   *)
(* its record is there.                                                    *)
(***************************************************************************)
EXTENDS Naturals

CONSTANTS Contents      \* what a record may hold

VARIABLES
    records,    \* the records by id
    confirmed   \* ids some caller was told are created

vars == <<records, confirmed>>

(* Any store to begin with; no caller knows of it.                         *)
Init ==
    /\ DOMAIN records \subseteq Nat /\ records \in [DOMAIN records -> Contents]
    /\ confirmed = {}

(* A record appears under a new highest id.                                *)
Add(id, content) ==
    /\ \A other \in DOMAIN records : other < id
    /\ records' = [i \in DOMAIN records \cup {id} |-> IF i = id THEN content ELSE records[i]]
    /\ UNCHANGED confirmed

(* A caller is told so.                                                    *)
Confirm(id) ==
    /\ id \in DOMAIN records \ confirmed
    /\ confirmed' = confirmed \cup {id}
    /\ UNCHANGED records

Next ==
    \/ \E id \in DOMAIN records', content \in Contents : Add(id, content)
    \/ \E id \in DOMAIN records : Confirm(id)

Spec == Init /\ [][Next]_vars

=============================================================================
