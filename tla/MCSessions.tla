----------------------------- MODULE MCSessions -----------------------------
EXTENDS Sessions, TLC
CONSTANTS t1, t2, u1, u2
MCTabs == {t1, t2}
MCUsers == {u1, u2}
Symmetry == Permutations(MCTabs) \cup Permutations(MCUsers)
=============================================================================
