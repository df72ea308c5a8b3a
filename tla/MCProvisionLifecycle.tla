------------------------ MODULE MCProvisionLifecycle ------------------------
EXTENDS ProvisionLifecycle, TLC

CONSTANTS r1, r2

MCReconcilers == {r1, r2}
Symmetry      == Permutations(MCReconcilers)
=============================================================================
