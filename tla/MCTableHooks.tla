---------------------------- MODULE MCTableHooks ----------------------------
EXTENDS TableHooks, TLC

CONSTANTS t1, t2, t3, s1, s2, r1

Threads == {t1, t2, t3}
Surfaces == {s1, s2}
Resources == {r1}
Symmetry == Permutations(Threads) \cup Permutations(Surfaces)
=============================================================================
