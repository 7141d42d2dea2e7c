------------------------ MODULE MC_SessionProjection ------------------------
EXTENDS SessionProjection, TLC

CONSTANTS k1, k2, k3, main, sub, h

MCKernelId == {k1, k2, k3}
MCRole == {main, sub}
MCHistory == {h}

Symmetry == Permutations(MCKernelId)

=============================================================================
