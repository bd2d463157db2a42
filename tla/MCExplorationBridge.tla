------------------------- MODULE MCExplorationBridge -------------------------
EXTENDS ExplorationBridge, TLC

Symmetry == Permutations(Services) \cup Permutations(OpIds) \cup Permutations(Calls)

LinkedNext ==
  \/ Tick
  \/ \E j \in Jobs : Admit(j) \/ LoadEvidence(j)
  \/ Served
  \/ \E s \in Sweepers : SweepStep(s)

LinkedSpec == Init /\ [][LinkedNext]_vars
=============================================================================
