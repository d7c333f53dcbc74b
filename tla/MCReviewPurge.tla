--------------------------- MODULE MCReviewPurge ---------------------------
EXTENDS ReviewPurge

CONSTANTS d1, r1, s1, v1, x1, x2

OneDiscovery == [r \in Run |-> d1]
AllInOneStore == [v \in Review |-> s1]
=============================================================================
