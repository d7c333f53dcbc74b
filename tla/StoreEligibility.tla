-------------------------- MODULE StoreEligibility --------------------------
(***************************************************************************)
(* What becomes of the rows of a snapshot: normalizeStore makes candidates *)
(* of them, deduplicateStores merges or questions candidates that look     *)
(* alike, classifyBrands groups the stores by brand and                    *)
(* classifyEligibility decides on every brand from its evidence.           *)
(*                                                                         *)
(* Names, addresses and phones are values, positions points on a line, in  *)
(* metres.  The order of the candidates' hashes is that of their numbers.  *)
(***************************************************************************)
EXTENDS Integers, Sequences, FiniteSets, FiniteSetsExt

CONSTANTS
  NoPhone, NoPosition,  \* null
  Similarity,           \* basis points of two brand names' common bigrams
  ChainLimit,           \* stores from which a brand is too large: 6
  AutoMerge,            \* score from which two candidates are one: 9200
  Review                \* score from which a pair is reviewed: 7500

EligibilityAssumption ==
  /\ ChainLimit \in Nat \ {0, 1}
  /\ AutoMerge \in Nat /\ Review \in 0..AutoMerge
  /\ \A pair \in DOMAIN Similarity :
       Similarity[pair] \in Nat /\ Similarity[pair] <= 10000

-----------------------------------------------------------------------------
(* normalizeStore *)

normalizeBusinessStatus(row) ==
  CASE row.closedDate \/ row.statusText = "closed" -> "inactive"
    [] ~row.closedDate /\ row.statusText # "closed" /\ row.code = "01"
         -> "active"
    [] OTHER -> "unknown"

(* A row without a district or a brand name blocks the publication.        *)
normalizable(row) == row.district /\ row.named

normalizeCoordinates(row) == IF row.inSeoul THEN row.at ELSE NoPosition

normalizeStore(row) ==
  [number |-> row.number, address |-> row.address, phone |-> NoPhone,
   name |-> row.name, brand |-> row.brand, at |-> normalizeCoordinates(row),
   status |-> normalizeBusinessStatus(row)]

-----------------------------------------------------------------------------
(* deduplicateStores *)

coordinateDistanceMeters(l, r) ==
  IF l.at >= r.at THEN l.at - r.at ELSE r.at - l.at
Within(l, r, metres) ==
  /\ l.at # NoPosition /\ r.at # NoPosition
  /\ coordinateDistanceMeters(l, r) <= metres

nameSimilarityBasisPoints(l, r) ==
  IF l.name = r.name \/ l.brand = r.brand THEN 10000
  ELSE Similarity[<<l.brand, r.brand>>]

AddressMatched(l, r) == l.address = r.address
CoordinateMatched(l, r) == Within(l, r, 50)
PhoneMatched(l, r) == l.phone # NoPhone /\ l.phone = r.phone
HasConflict(l, r) ==
  \/ l.address # r.address
  \/ l.phone # NoPhone /\ r.phone # NoPhone /\ l.phone # r.phone

scoreEvidence(l, r) ==
  (IF AddressMatched(l, r) THEN 4000 ELSE 0)
  + (IF CoordinateMatched(l, r) THEN 2500 ELSE 0)
  + (IF PhoneMatched(l, r) THEN 2000 ELSE 0)
  + (nameSimilarityBasisPoints(l, r) * 1500 + 5000) \div 10000

isCandidatePair(l, r) ==
  \/ AddressMatched(l, r) \/ PhoneMatched(l, r) \/ Within(l, r, 100)
  \/ nameSimilarityBasisPoints(l, r) >= 7500

classifyMatch(l, r) ==
  IF scoreEvidence(l, r) >= AutoMerge /\ ~HasConflict(l, r)
  THEN "auto_merge"
  ELSE IF \/ scoreEvidence(l, r) >= Review
          \/ /\ HasConflict(l, r)
             /\ \/ AddressMatched(l, r) \/ CoordinateMatched(l, r)
                \/ PhoneMatched(l, r)
  THEN "admin_review" ELSE "separate"

MatchOf(l, r) ==
  IF isCandidatePair(l, r) THEN classifyMatch(l, r) ELSE "separate"

MergedPairs(candidates) ==
  {pair \in candidates \X candidates :
     /\ pair[1].number < pair[2].number
     /\ MatchOf(pair[1], pair[2]) = "auto_merge"}

union(pair, groups) ==
  LET joined == {g \in groups : pair[1] \in g \/ pair[2] \in g} IN
  (groups \ joined) \cup {UNION joined}

(* The sets of candidates that the disjoint set joins.                     *)
Groups(candidates) ==
  FoldSet(union, {{c} : c \in candidates}, MergedPairs(candidates))

Numbers(candidates) == {c.number : c \in candidates}

(* Mutant: only doubt between two candidates of the group counts. *)
InReviewWithin(group, candidates) ==
  \E l, r \in group : l # r /\ MatchOf(l, r) = "admin_review"

InReview(group, candidates) ==
  \E l \in group, r \in candidates :
    l # r /\ MatchOf(l, r) = "admin_review"

(* The first candidate of a group gives the store its facts.               *)
buildCanonicalStore(group, candidates) ==
  LET primary == CHOOSE c \in group : c.number = Min(Numbers(group)) IN
  [id |-> Numbers(group), numbers |-> Numbers(group),
   name |-> primary.name, brand |-> primary.brand, at |-> primary.at,
   status |-> primary.status,
   merge |-> IF InReview(group, candidates) THEN "admin_review"
             ELSE IF Cardinality(group) > 1 THEN "auto_merged"
             ELSE "distinct"]

deduplicateStores(candidates) ==
  {buildCanonicalStore(g, candidates) : g \in Groups(candidates)}

-----------------------------------------------------------------------------
(* classifyEligibility *)

StoreNumbers(stores) == UNION {s.numbers : s \in stores}

(* A status the FTC or an administrator asserted names its evidence.       *)
ValidEvidence(e) ==
  /\ e.numbers # {}
  /\ e.ftc # "unavailable" => e.ftcRefs
  /\ e.admin # "pending" => e.adminRefs

Excluded(stores, e) ==
  \/ \E s \in stores : s.status = "inactive"
  \/ e.admin = "rejected" \/ e.ftc = "confirmed_franchise"
  \/ Cardinality(stores) >= ChainLimit

Unresolved(s) ==
  s.status = "unknown" \/ s.at = NoPosition \/ s.merge = "admin_review"

hasCompleteBrandMembership(stores, e) == StoreNumbers(stores) = e.numbers

InDoubt(stores, e) ==
  \/ \E s \in stores : Unresolved(s)
  \/ ~hasCompleteBrandMembership(stores, e)
  \/ e.ftc \in {"unavailable", "stale"} \/ e.admin # "approved"
  \/ IF Cardinality(stores) = 1 THEN ~e.independent ELSE ~e.operator

classifyEligibility(stores, e) ==
  IF Excluded(stores, e) THEN "excluded"
  ELSE IF InDoubt(stores, e) THEN "admin_review" ELSE "eligible"

-----------------------------------------------------------------------------
(* classifyBrands *)

Selected(stores, e) == {s \in stores : s.numbers \cap e.numbers # {}}

(* Mutant: only the stores the evidence names. *)
NamedStores(stores, e) == Selected(stores, e)

(* The selected stores, and every store of a name they have.               *)
BrandStores(stores, e) ==
  {s \in stores : \E t \in Selected(stores, e) : t.brand = s.brand}

(* Evidence that overlaps, or has no target, or claims a store twice.      *)
EvidenceAccepted(stores, evidence) ==
  /\ \A e \in evidence : ValidEvidence(e) /\ Selected(stores, e) # {}
  /\ \A e, f \in evidence : e # f =>
       /\ e.numbers \cap f.numbers = {}
       /\ BrandStores(stores, e) \cap BrandStores(stores, f) = {}

evidenceForUnassignedStore(s) ==
  [key |-> s.id, numbers |-> s.numbers, ftc |-> "unavailable",
   ftcRefs |-> FALSE, admin |-> "pending", adminRefs |-> FALSE,
   independent |-> FALSE, operator |-> FALSE]

Brand(stores, e) ==
  [key |-> e.key, stores |-> stores,
   status |-> classifyEligibility(stores, e)]

Assigned(stores, evidence) ==
  UNION {BrandStores(stores, e) : e \in evidence}

classifyBrands(stores, evidence) ==
  {Brand(BrandStores(stores, e), e) : e \in evidence} \cup
  {Brand({s}, evidenceForUnassignedStore(s)) :
     s \in stores \ Assigned(stores, evidence)}
=============================================================================
