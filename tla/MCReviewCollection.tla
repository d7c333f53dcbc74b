------------------------- MODULE MCReviewCollection -------------------------
(* Small instances of ReviewCollection for TLC. *)
EXTENDS ReviewCollection, TLC

CONSTANTS r1, r2, d1, d2, p1, p2

TwoRuns == {r1, r2}
EachItsOwn == [r \in Run |-> IF r = r1 THEN d1 ELSE d2]
AllMatched == [d \in Discovery |-> 1..NStores]
\* The second discovery found the second store only.
SecondFewer == [d \in Discovery |-> IF d = d1 THEN 1..NStores ELSE {2}]

\* Store 1 shows every day so far, the others nothing.
FirstStoreListed == [s \in 1..NStores |-> IF s = 1 THEN 1..FirstDay ELSE {}]
\* Days are dealt to the stores in turn.
DaysDealt == [s \in 1..NStores |-> {d \in 1..FirstDay : (d % NStores) + 1 = s}]
NoPii == [s \in 1..NStores |-> {}]
NewestPii == [s \in 1..NStores |-> {FirstDay}]

\* Processes differ in nothing but their name.
Symmetry == Permutations(Proc)
=============================================================================
