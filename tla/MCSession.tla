------------------------------ MODULE MCSession ----------------------------
EXTENDS Session

CONSTANTS ann, bob, r1

OnlyAnn == [id \in {r1} |-> ann]
=============================================================================
