--------------------------- MODULE MCCachePruning ---------------------------
EXTENDS CachePruning, TLC

MCCapacities == {[min |-> 0, max |-> 3, total |-> 3], [min |-> 1, max |-> 2, total |-> 5]}

Symmetry == Permutations(Resources \ SVGs) \cup Permutations(SVGs)
=============================================================================
