------------------------------ MODULE MCPages ------------------------------
EXTENDS Pages, TLC

CONSTANTS u1, typo, s1, s2

PagesSymmetry == Permutations(Slots)
=============================================================================
