-------------------------- MODULE MCQuestionResults --------------------------
(***************************************************************************)
(* Instances of QuestionResults: the slots for requests are alike; the two *)
(* deployments differ in their code and share their catalog, the case in   *)
(* which the store compares the least.                                     *)
(***************************************************************************)
EXTENDS QuestionResults, TLC

OneCatalog == [version \in 1..MaxCode |-> 1]

Symmetry == Permutations(Calls)
=============================================================================
