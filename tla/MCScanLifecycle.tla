---------------------------- MODULE MCScanLifecycle ----------------------------
EXTENDS ScanLifecycle, TLC

CONSTANTS p, q, r, k, l

\* p and q are two publications of one version: a change seen twice, or a burst's extra.
MCKeyOf == [x \in Pubs |-> IF x = r THEN l ELSE k]

Symmetry == Permutations(Lanes)
=============================================================================
