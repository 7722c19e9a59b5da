---------------------------- MODULE MCSharedFiles ----------------------------
EXTENDS SharedFiles, TLC
CONSTANTS p, q, g1, g2, o1, o2
MCPoints == [e \in Entries |-> IF e \in {g1, o1} THEN 2 ELSE 1]
MCPlayer == [e \in Entries |-> e]
MCStart == <<o1, o2>>
Symmetry == Permutations({p, q})
=============================================================================
