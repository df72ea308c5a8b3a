------------------------- MODULE MCExecInteractions -------------------------
EXTENDS ExecInteractions, TLC

CONSTANTS c1, c2, p1, f1

Symmetry == Permutations({c1, c2})
=============================================================================
