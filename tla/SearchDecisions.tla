-------------------------- MODULE SearchDecisions --------------------------
(* Candidates as they accumulate and the query they are asked, and what    *)
(* Recommendation makes of them.                                           *)
EXTENDS Recommendation

CONSTANTS
  Category,
  ShopFacts,       \* what a candidate may be, without its id
  Queries,         \* queries a client may send
  MaxCandidates    \* bound: candidates

(* What a row lacks is null.                                               *)
IsShop(f) ==
  /\ f.opening \in {"OPEN", "UNKNOWN", "CLOSED"}
  /\ f.distance \in Nat \cup {None} /\ f.latest \in Nat \cup {None}
  /\ f.count \in Nat /\ f.rated \in Nat /\ f.ratingSum \in Nat
  /\ f.hit # None =>
       /\ f.hit.term \in Nat /\ f.hit.rank \in Nat /\ f.hit.id \in Nat
       /\ f.hit.date \in Nat \cup {None}

IsQuery(q) ==
  /\ q = [region |-> q.region, storeName |-> q.storeName,
          menuTerms |-> q.menuTerms, included |-> q.included,
          excluded |-> q.excluded, openNow |-> q.openNow,
          maxDistance |-> q.maxDistance, review |-> q.review,
          sort |-> q.sort]
  /\ IsFiniteSet(q.included)

SearchAssumption ==
  /\ RecommendationAssumption
  /\ None \notin Int
  /\ \A f \in ShopFacts : IsShop(f)
  /\ \A q \in Queries : IsQuery(q)
ASSUME SearchAssumption

VARIABLES shops, query, fts
searchVars == <<shops, query, fts>>

SearchInit == shops = {} /\ query = None /\ fts \in BOOLEAN

AddShop(f) ==
  /\ query = None /\ Cardinality(shops) < MaxCandidates
  /\ shops' = shops \cup
       {[id |-> Cardinality(shops) + 1, names |-> f.names,
         regions |-> f.regions, menus |-> f.menus, opening |-> f.opening,
         distance |-> f.distance, phone |-> f.phone, count |-> f.count,
         latest |-> f.latest, rated |-> f.rated, ratingSum |-> f.ratingSum,
         hit |-> f.hit]}
  /\ UNCHANGED <<query, fts>>

Ask(q) ==
  /\ query = None /\ shops # {} /\ query' = q
  /\ UNCHANGED <<shops, fts>>

SearchNext == (\E f \in ShopFacts : AddShop(f)) \/ (\E q \in Queries : Ask(q))

SearchSpec == SearchInit /\ [][SearchNext]_searchVars

-----------------------------------------------------------------------------
(* Properties *)

(* The queries that a relaxation a client chooses may lead to.             *)
Relaxed(code, q) ==
  CASE code = "EXPAND_REGION_OR_DISTANCE" ->
         {[q EXCEPT !.region = None], [q EXCEPT !.maxDistance = None],
          [q EXCEPT !.region = None, !.maxDistance = None]}
    [] code = "DISABLE_OPEN_NOW" -> {[q EXCEPT !.openNow = FALSE]}
    [] code = "INCLUDE_INSUFFICIENT_REVIEWS" ->
         {IF q.review = "AVAILABLE" THEN [q EXCEPT !.review = "ANY"] ELSE q}
    [] code = "EXPAND_ADJACENT_CATEGORY" ->
         {[q EXCEPT !.included = more] :
            more \in {s \in SUBSET (Category \ q.excluded) :
                        q.included \subseteq s /\ q.included # {}}}

Items(q) == filterCandidates(shops, q, fts)

(* No dead end that the application could lead out of, and no way out that *)
(* loses a store (explain-result.ts; recommendation-spec.md, 13): a        *)
(* relaxation keeps every store that was found, and when nothing was found *)
(* and one relaxation alone would find a store, it is offered.             *)
WayOutIsOffered ==
  query # None =>
    \A code \in RelaxationCodes : \A q \in Relaxed(code, query) :
      /\ Items(query) \subseteq Items(q)
      /\ Items(query) = {} /\ Items(q) # {} =>
           code \in buildRelaxationOptions(query, Items(query))

Mean == calculateGlobalRatingMean(shops)
Before(l, r) == compareCandidates(l, r, query, fts, Mean) < 0

(* recommendation-spec.md:222: one input has one order, whatever order the *)
(* rows come in and whatever is null: of two stores exactly one is first,  *)
(* and no three stores are in a circle (rank-candidates.ts).          *)
RankIsStrict ==
  query # None =>
    \A l, r \in shops :
      /\ l # r => (Before(l, r) <=> ~Before(r, l))
      /\ ~(l = r /\ Before(l, r))
      /\ \A m \in shops : Before(l, m) /\ Before(m, r) => Before(l, r)
=============================================================================
