----------------------------- MODULE MCOneTime -----------------------------
EXTENDS OneTime, TLC

CONSTANTS c1, c2, c3, i1

MCSymmetry == Permutations({c1, c2, c3})
=============================================================================
