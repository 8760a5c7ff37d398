----------------------------- MODULE MCDataNode -----------------------------
EXTENDS DataNode, TLC
CONSTANTS p1, p2, none
MCKeys == 1 .. 3
MCPayloads == {p1, p2}
Symmetry == Permutations(MCPayloads)
=============================================================================
