-------------------------- MODULE MCQuestionTriage --------------------------
EXTENDS QuestionTriage, TLC

Symmetry == Permutations(Calls)
=============================================================================
