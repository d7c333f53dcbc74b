-------------------------- MODULE MCReviewPublish --------------------------
EXTENDS ReviewPublish, TLC

CONSTANTS d1, r1, r2, s1, v1, v2, x1, p1

OneDiscovery == [r \in Run |-> d1]
AllInOneStore == [v \in Review |-> s1]
DayByReview == [v \in Review |-> IF v = v1 THEN 1 ELSE 2]

\* Runs of one discovery differ in nothing but their name.
Symmetry == Permutations(Run)
=============================================================================
