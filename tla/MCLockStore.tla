---------------------------- MODULE MCLockStore ----------------------------
EXTENDS LockStore, TLC

CONSTANTS c1, c2, c3, t1, t2, t3, t4

MCClients == {c1, c2, c3}
MCPair == {c1, c2}
MCTokens == {t1, t2, t3, t4}
MCFile == {"file"}

\* Clients and tokens are told apart only by equality.
MCSymmetry == Permutations(MCClients) \union Permutations(MCTokens)
=============================================================================
