-------------------------- MODULE MCQuestionIntake --------------------------
EXTENDS QuestionIntake, TLC

Symmetry == Permutations(Accounts) \cup Permutations(Texts) \cup Permutations(Calls)
=============================================================================
