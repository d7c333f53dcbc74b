---------------------------- MODULE MCDecisions ----------------------------
(* The decisions that are functions of accumulated data, in one run: which *)
(* candidates are one store, which brands are eligible, when a store is    *)
(* open, which stores a query finds and in which order; and the decision   *)
(* whether a restored file may take the place of the active one, which is  *)
(* a process (AppRestore).  They share no state; the first state says      *)
(* which of them accumulates its data or takes steps.                      *)
EXTENDS AppRestore, StoreDecisions, OpeningHours, SearchDecisions, TLC

CONSTANTS
  x, y, ph1, ph2, n1, n2, n3, b1, b2, k1, k2,
  gu, dong, shop, bread, c1, c2, c3,
  u1, s1, s2

VARIABLE part

-----------------------------------------------------------------------------
(* Candidates in two places with equal and different phones, and branches  *)
(* far from one another but for two of one name.                           *)

BrandSimilarity == [pair \in {<<b1, b2>>, <<b2, b1>>} |-> 4600]

Twins ==
  [address : {x, y}, at : {0, 40, 80, NoPosition},
   phone : {NoPhone, ph1, ph2}, name : {n1}, brand : {b1},
   status : {"active"}] \cup
  [address : {x}, at : {0, 80, NoPosition}, phone : {ph1},
   name : {n2}, brand : {b2}, status : {"active"}]

Branch(name, brand, status) ==
  [address |-> name, at |-> CASE name = n1 -> 0 [] name = n2 -> 1000
                              [] OTHER -> 2000,
   phone |-> NoPhone, name |-> name, brand |-> brand, status |-> status]
BranchFacts ==
  {Branch(n, b, "active") : n \in {n1, n2, n3}, b \in {b1, b2}} \cup
  {Branch(n1, b1, "inactive"), Branch(n2, b2, "unknown"),
   [Branch(n3, b1, "active") EXCEPT !.at = NoPosition]}

Proof(key, numbers, ftc, admin, one, many) ==
  [key |-> key, numbers |-> numbers, ftc |-> ftc,
   ftcRefs |-> ftc # "unavailable", admin |-> admin,
   adminRefs |-> admin # "pending", independent |-> one, operator |-> many]
EvidenceItems ==
  {Proof(k1, ns, "not_found", "approved", one, ~one) :
     ns \in SUBSET (1..3) \ {{}}, one \in BOOLEAN} \cup
  {Proof(k1, {1}, ftc, admin, TRUE, TRUE) :
     ftc \in {"confirmed_franchise", "not_found", "unavailable", "stale"},
     admin \in {"approved", "pending", "rejected"}} \cup
  {Proof(k2, ns, "not_found", "approved", TRUE, TRUE) :
     ns \in {{2}, {3}, {2, 3}}}

Matching == INSTANCE StoreDecisions WITH
  CandidateFacts <- Twins, Evidence <- {}, MaxEvidence <- 1

-----------------------------------------------------------------------------
(* Stores and queries: every filter of a query fails on some store, and    *)
(* every key of the order is equal, different or null for some two stores. *)

Parts == {<<gu, gu>>, <<gu, dong>>, <<dong, dong>>, <<shop, shop>>,
           <<bread, bread>>}
Bread(category) == [keys |-> {bread}, category |-> category]
Other(category) == [keys |-> {shop}, category |-> category]

Found(opening, distance, count, latest, hit) ==
  [names |-> {shop}, regions |-> {dong}, menus |-> {}, phone |-> FALSE,
   opening |-> opening, distance |-> distance, count |-> count,
   latest |-> latest, rated |-> count, ratingSum |-> 3000 * count,
   hit |-> hit]
Hit(term, rank) == [term |-> term, rank |-> rank, date |-> 5, id |-> rank]
Plain == Found("OPEN", 300, 0, None, None)

FilterFacts ==
  {[Plain EXCEPT !.menus = ms] :
     ms \in {{}, {Bread(c1)}, {Other(c2)}, {Bread(c1), Other(c3)}}} \cup
  {Found("CLOSED", 300, 4, 5, Hit(1, 1)), Found("UNKNOWN", None, 1, 5, None),
   Found("OPEN", 900, 3, 6, Hit(1, 2)),
   [Plain EXCEPT !.regions = {shop}], [Plain EXCEPT !.names = {bread}]}

RankFacts ==
  {Found(o, d, 0, None, None) : o \in {"OPEN", "CLOSED"},
                                d \in {300, 900, None}} \cup
  {Found("UNKNOWN", 300, n, 5, h) : n \in {2, 3},
                                    h \in {None, Hit(1, 1), Hit(2, 1)}} \cup
  {[Found("OPEN", None, 3, t, None) EXCEPT !.ratingSum = s] :
     t \in {4, 5}, s \in {9000, 14000}} \cup
  {[Plain EXCEPT !.menus = {Bread(c1)}],
   [Found("CLOSED", 900, 3, 5, Hit(1, 2)) EXCEPT !.menus = {Bread(c1)}],
   [Plain EXCEPT !.menus = {Bread(c1), Other(c3)}, !.phone = TRUE]}

Asked(region, terms, included, sort) ==
  [region |-> region, storeName |-> None, menuTerms |-> terms,
   included |-> included, excluded |-> {}, openNow |-> FALSE,
   maxDistance |-> None, review |-> "ANY", sort |-> sort]
FilterQueries ==
  {[Asked(g, ts, inc, "RELEVANCE") EXCEPT
      !.storeName = n, !.excluded = ex, !.openNow = o, !.maxDistance = d,
      !.review = v] :
     g \in {None, gu}, ts \in {{}, {bread}}, inc \in {{}, {c1}},
     n \in {None, shop}, ex \in {{}, {c3}}, o \in BOOLEAN,
     d \in {None, 500}, v \in {"ANY", "AVAILABLE", "INSUFFICIENT"}}
RankQueries ==
  {Asked(None, ts, inc, s) :
     ts \in {{}, {bread}}, inc \in {{}, {c1, c3}},
     s \in {"RELEVANCE", "DISTANCE"}}

Order == INSTANCE SearchDecisions WITH
  ShopFacts <- RankFacts, Queries <- RankQueries, MaxCandidates <- 3

-----------------------------------------------------------------------------
(* The first migration after the copy only adds an index.                  *)
SchemaTables == <<1, 1, 2>>

-----------------------------------------------------------------------------
allVars == <<part, storeVars, hours, searchVars, vars>>

DecisionsInit ==
  /\ part \in {"matching", "eligibility", "hours", "filter", "order",
               "restore"}
  /\ StoresInit /\ HoursInit /\ SearchInit /\ Init
  /\ part \notin {"filter", "order"} => ~fts

DecisionsNext ==
  /\ \/ /\ \/ part = "matching" /\ Matching!StoresNext
           \/ part = "eligibility" /\ StoresNext
        /\ UNCHANGED <<hours, searchVars, vars>>
     \/ /\ part = "hours" /\ HoursNext
        /\ UNCHANGED <<storeVars, searchVars, vars>>
     \/ /\ \/ part = "filter" /\ SearchNext
           \/ part = "order" /\ Order!SearchNext
        /\ UNCHANGED <<storeVars, hours, vars>>
     \/ /\ part = "restore" /\ Next
        /\ UNCHANGED <<storeVars, hours, searchVars>>
  /\ UNCHANGED part

DecisionsSpec == DecisionsInit /\ [][DecisionsNext]_allVars

\* The stores of a copy differ in nothing but their name.
Symmetry == Permutations(Store)
=============================================================================
