--------------------------- MODULE StoreDecisions ---------------------------
(* The candidates of a snapshot and the evidence on their brands, as they  *)
(* accumulate, and what StoreEligibility makes of them.                    *)
EXTENDS StoreEligibility

CONSTANTS
  CandidateFacts,  \* what a candidate may be, without its number
  Evidence,        \* evidence an operator may give
  AnyKey,          \* the key of some evidence
  MaxStores,       \* bound: candidates
  MaxEvidence      \* bound: pieces of evidence

(* A candidate has one of the statuses that normalizeStore gives.          *)
StoresAssumption ==
  /\ EligibilityAssumption
  /\ \A f \in CandidateFacts : f.status \in {"active", "inactive", "unknown"}
ASSUME StoresAssumption

VARIABLES candidates, evidence
storeVars == <<candidates, evidence>>

StoresInit == candidates = {} /\ evidence = {}

AddCandidate(f) ==
  /\ Cardinality(candidates) < MaxStores /\ evidence = {}
  /\ candidates' = candidates \cup
       {[number |-> Cardinality(candidates) + 1, address |-> f.address,
         at |-> f.at, phone |-> f.phone, name |-> f.name, brand |-> f.brand,
         status |-> f.status]}
  /\ UNCHANGED evidence

AddEvidence(e) ==
  /\ candidates # {} /\ Cardinality(evidence) < MaxEvidence
  /\ \A f \in evidence : f.key # e.key
  /\ evidence' = evidence \cup {e}
  /\ UNCHANGED candidates

StoresNext == \/ \E f \in CandidateFacts : AddCandidate(f)
              \/ \E e \in Evidence : AddEvidence(e)

StoresSpec == StoresInit /\ [][StoresNext]_storeVars

Stores == deduplicateStores(candidates)

(* Everything an operator could wish for, for all stores of a brand.       *)
Perfect(s) ==
  [key |-> AnyKey,
   numbers |-> StoreNumbers({t \in Stores : t.brand = s.brand}),
   ftc |-> "not_found", ftcRefs |-> TRUE, admin |-> "approved",
   adminRefs |-> TRUE, independent |-> TRUE, operator |-> TRUE]

(* No evidence publishes a store while one of the candidates merged into   *)
(* it may also be another store (deduplicate-stores.ts,                    *)
(* classify-eligibility.ts).                                               *)
DoubtHoldsStoreBack ==
  \A l, r \in candidates : l # r /\ MatchOf(l, r) = "admin_review" =>
    \A s \in Stores : l.number \in s.numbers =>
      \A b \in classifyBrands(Stores, {Perfect(s)}) :
        s \in b.stores => b.status # "eligible"

(* An eligible brand leaves no branch behind: it has all stores of its     *)
(* names, fewer than the limit, all of them named by the evidence, trading *)
(* and on the map, and no store of it is decided on a second time          *)
(* (classify-eligibility.ts).                                              *)
EligibleIsWholeBrand ==
  EvidenceAccepted(Stores, evidence) =>
    \A b \in classifyBrands(Stores, evidence) : b.status = "eligible" =>
      /\ \A s \in Stores :
           (\E t \in b.stores : t.brand = s.brand) => s \in b.stores
      /\ Cardinality(b.stores) < ChainLimit
      /\ \E e \in evidence : e.key = b.key
                             /\ StoreNumbers(b.stores) = e.numbers
      /\ \A s \in b.stores : s.status = "active" /\ s.at # NoPosition
      /\ \A other \in classifyBrands(Stores, evidence) :
           other # b => other.stores \cap b.stores = {}
=============================================================================
