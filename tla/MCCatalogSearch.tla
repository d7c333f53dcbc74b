-------------------------- MODULE MCCatalogSearch ---------------------------
(* Two instances of the catalog in one run; the first state says which.    *)
(* "publishing": every worker publishes every snapshot and the evidence;   *)
(* the search is at rest.  "searching": one worker publishes the first two *)
(* snapshots, which are ingested once, two batches of evidence and reviews *)
(* of both stores, then of one, while clients search.                      *)
EXTENDS StoreSearch

CONSTANTS Parts  \* of {"publishing", "searching"}

CONSTANTS p1, p2, k1, k2, n1, n2, x, y

VARIABLE part
allVars == <<part, vars, searchVars>>

ASSUME SearchAssumption

-----------------------------------------------------------------------------
(* Values *)

Row(number, name, address, at, code) ==
  [number |-> number, name |-> name, brand |-> name, address |-> address,
   at |-> at, inSeoul |-> TRUE, district |-> TRUE, named |-> TRUE,
   closedDate |-> FALSE, statusText |-> "open", code |-> code]
One == Row(1, n1, x, 0, "01")
Two == Row(2, n2, y, 1000, "01")

(* The second shop closes, and then is gone. *)
Closing == <<{One, Two}, {One, [Two EXCEPT !.closedDate = TRUE]}, {One}>>
Same == <<{One, Two}, {One, Two}, {One, Two}>>
Days == <<0, 1, 1>>

Dissimilar == [pair \in {<<n1, n2>>, <<n2, n1>>} |-> 0]

Proof(key, numbers, admin) ==
  [key |-> key, numbers |-> numbers, ftc |-> "not_found", ftcRefs |-> TRUE,
   admin |-> admin, adminRefs |-> TRUE, independent |-> TRUE,
   operator |-> TRUE]
Approved == {Proof(k1, {1}, "approved"), Proof(k2, {2}, "approved")}
Rejected == {Proof(k1, {1}, "rejected")}
Proofs == {Approved, Rejected}

Batches ==
  {[publish |-> s, stores |-> ids] :
     s \in {1, 2}, ids \in {{<<1, {1}>>}, {<<1, {1}>>, <<1, {2}>>}}}
NoBatches == {}

-----------------------------------------------------------------------------
(* The instance with clients *)

TwoBatches ==
  {[publish |-> 1, stores |-> {<<1, {1}>>, <<1, {2}>>}],
   [publish |-> 2, stores |-> {<<1, {1}>>}]}

OneWorker ==
  /\ \A p \in Process \ {p1} : proc'[p] = Idle
  /\ succeeded \subseteq succeeded' /\ 3 \notin succeeded'
  /\ review' = review \/ Cardinality(review'.stores) = 3 - review'.version
  /\ \A b \in Batch \ TwoBatches : batch'[b] = "none"

CatalogInit == part \in Parts /\ SearchInit

CatalogNext ==
  /\ \/ part = "publishing" /\ Next /\ UNCHANGED searchVars
     \/ part = "searching" /\ SearchNext /\ OneWorker
  /\ UNCHANGED part

CatalogSpec == CatalogInit /\ [][CatalogNext]_allVars
=============================================================================
