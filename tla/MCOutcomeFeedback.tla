-------------------------- MODULE MCOutcomeFeedback --------------------------
(***************************************************************************)
(* A small instance of OutcomeFeedback: two experiences, a file that        *)
(* remembers one key of each, so that a key can recur when it is forgotten, *)
(* and another outcome to mistake for a decision's own, in the first        *)
(* process.                                                                 *)
(***************************************************************************)
EXTENDS OutcomeFeedback, TLC

MCPredictions == <<1, 0>>

ASSUME InstanceAssumption == FeedbackAssumption

Alike == Permutations(Experiences)
=============================================================================
