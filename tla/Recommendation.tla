--------------------------- MODULE Recommendation ---------------------------
(***************************************************************************)
(* The pure part of a search: whether a store is open now, which stores a  *)
(* query keeps and why it drops the others, the order of those it keeps    *)
(* and what is offered when it keeps none.                                 *)
(*                                                                         *)
(* Texts are keys, of which some contain others; dates and positions in    *)
(* the index are numbers; a candidate brings the distance from the origin  *)
(* and the hit that the index of the reviews would give it.                *)
(***************************************************************************)
EXTENDS Integers, Sequences, FiniteSets, FiniteSetsExt, Functions

CONSTANTS
  None,            \* null
  DaysPerWeek,     \* 7
  MinutesPerDay,   \* 1440
  PartOf,          \* pairs of keys, the second a part of the first
  EnoughReviews,   \* reviews from which they are evidence: 3
  PriorWeight,     \* ratings that the mean of all counts for: 5
  DefaultMean      \* the mean without any rating: 4000

RecommendationAssumption ==
  /\ DaysPerWeek \in Nat /\ DaysPerWeek > 2
  /\ MinutesPerDay \in Nat \ {0}
  /\ EnoughReviews \in Nat /\ PriorWeight \in Nat \ {0}
  /\ DefaultMean \in Nat

-----------------------------------------------------------------------------
(* Business hours *)

Week == DaysPerWeek * MinutesPerDay

ValidInterval(h) ==
  /\ h.weekday \in 0..DaysPerWeek - 1 /\ h.sequence \in Nat
  /\ h.opens \in 0..MinutesPerDay - 1 /\ h.closes \in 0..MinutesPerDay - 1
  /\ IF h.nextDay THEN h.closes <= h.opens ELSE h.closes > h.opens

Start(h) == h.weekday * MinutesPerDay + h.opens
End(h) == h.weekday * MinutesPerDay + h.closes
          + IF h.nextDay THEN MinutesPerDay ELSE 0

overlaps(l, r) ==
  \E shift \in {-Week, 0, Week} :
    Start(l) < End(r) + shift /\ Start(r) + shift < End(l)

validateBusinessHours(hours) ==
  /\ \A h \in hours : ValidInterval(h)
  /\ \A l, r \in hours : l # r =>
       /\ <<l.weekday, l.sequence>> # <<r.weekday, r.sequence>>
       /\ ~overlaps(l, r)

(* Mutant: the day before the first day of the week is none. *)
dayBefore(weekday) == weekday - 1

previousWeekday(weekday) == (weekday + DaysPerWeek - 1) % DaysPerWeek

isOpen(h, weekday, minute) ==
  IF h.weekday = weekday
  THEN minute >= h.opens /\ (h.nextDay \/ minute < h.closes)
  ELSE /\ h.weekday = previousWeekday(weekday)
       /\ h.nextDay /\ minute < h.closes

deriveOpeningState(hours, weekday, minute) ==
  IF hours = {} THEN "UNKNOWN"
  ELSE IF \E h \in hours : isOpen(h, weekday, minute)
  THEN "OPEN" ELSE "CLOSED"

-----------------------------------------------------------------------------
(* The facts derived of a candidate *)

Rounded(n, d) == (2 * n + d) \div (2 * d)

deriveReviewStatus(count) ==
  IF count >= EnoughReviews THEN "AVAILABLE" ELSE "INSUFFICIENT"

calculateCompleteness(c) ==
  (IF c.menus # {} THEN 3000 ELSE 0)
  + (IF c.opening # "UNKNOWN" THEN 2500 ELSE 0)
  + (IF c.phone THEN 1500 ELSE 0) + (IF c.count > 0 THEN 1500 ELSE 0)
  + (IF c.count >= EnoughReviews THEN 1500 ELSE 0)

calculateGlobalRatingMean(candidates) ==
  LET rated == SumFunction([c \in candidates |-> c.rated])
      sum == SumFunction([c \in candidates |-> c.ratingSum]) IN
  IF rated = 0 THEN DefaultMean ELSE Rounded(sum, rated)

calculateAdjustedRating(c, mean) ==
  Rounded(c.ratingSum + mean * PriorWeight, c.rated + PriorWeight)

-----------------------------------------------------------------------------
(* filterCandidates *)

matches(key, term) == <<key, term>> \in PartOf \/ <<term, key>> \in PartOf

MatchesAny(keys, term) == term # None /\ \E k \in keys : matches(k, term)

matchesMenu(menu, q) == \E term \in q.menuTerms : MatchesAny(menu.keys, term)

VerifiedMenuMatch(c, q) == \E menu \in c.menus : matchesMenu(menu, q)

Categories(c) == {menu.category : menu \in c.menus}

IncludedMissing(c, q) ==
  q.included # {} /\ q.included \cap Categories(c) = {}

(* The index is only asked about menus.                                    *)
ReviewEvidence(c, q, fts) ==
  IF fts /\ q.menuTerms # {} THEN c.hit ELSE None

MenuMismatch(c, q, fts) ==
  /\ q.menuTerms # {} /\ ~VerifiedMenuMatch(c, q)
  /\ ReviewEvidence(c, q, fts) = None

Reasons(c, q, fts) ==
  <<[code |-> "REGION_MISMATCH",
     holds |-> q.region # None /\ ~MatchesAny(c.regions, q.region)],
    [code |-> "STORE_NAME_MISMATCH",
     holds |-> q.storeName # None /\ ~MatchesAny(c.names, q.storeName)],
    [code |-> "EXCLUDED_CATEGORY",
     holds |-> q.excluded \cap Categories(c) # {}],
    [code |-> "INCLUDED_CATEGORY_MISSING", holds |-> IncludedMissing(c, q)],
    [code |-> "NOT_OPEN", holds |-> q.openNow /\ c.opening # "OPEN"],
    [code |-> "DISTANCE_EXCEEDED",
     holds |-> /\ q.maxDistance # None
               /\ c.distance = None \/ c.distance > q.maxDistance],
    [code |-> "REVIEW_STATUS_MISMATCH",
     holds |-> q.review # "ANY" /\ deriveReviewStatus(c.count) # q.review],
    [code |-> "MENU_MISMATCH", holds |-> MenuMismatch(c, q, fts)]>>

(* The first reason that holds, and "none" for a store that is kept.       *)
removalReason(c, q, fts) ==
  LET reasons == Reasons(c, q, fts)
      found == {i \in DOMAIN reasons : reasons[i].holds} IN
  IF found = {} THEN "none" ELSE reasons[Min(found)].code

filterCandidates(candidates, q, fts) ==
  {c \in candidates : removalReason(c, q, fts) = "none"}

-----------------------------------------------------------------------------
(* rankCandidates: a comparison is the first of its keys that is not 0 *)

FirstDifference(keys) ==
  LET differing == {i \in DOMAIN keys : keys[i] # 0} IN
  IF differing = {} THEN 0 ELSE keys[Min(differing)]

Truth(b) == IF b THEN 1 ELSE 0

NullsLast(l, r) == Truth(l = None) - Truth(r = None)

(* Mutant: an unknown distance is as good as any. *)
knownOnly(l, r) == IF l = None \/ r = None THEN 0 ELSE l - r

ascendingNumber(l, r) ==
  IF l = None \/ r = None THEN NullsLast(l, r) ELSE l - r
descendingNullable(l, r) ==
  IF l = None \/ r = None THEN NullsLast(l, r) ELSE r - l

openingRank(c) == CASE c.opening = "OPEN" -> 0
                    [] c.opening = "UNKNOWN" -> 1
                    [] c.opening = "CLOSED" -> 2

compareEvidence(l, r) ==
  IF l = None \/ r = None THEN NullsLast(l, r) ELSE FirstDifference(
    <<l.term - r.term, l.rank - r.rank,
      descendingNullable(l.date, r.date), l.id - r.id>>)

Reviewed(c) == deriveReviewStatus(c.count) = "AVAILABLE"

(* The hit of a store with too few reviews does not count.                 *)
UsableEvidence(c, q, fts) ==
  IF Reviewed(c) THEN ReviewEvidence(c, q, fts) ELSE None

IncludedMatches(c, q) == Cardinality(q.included \cap Categories(c))

compareSharedRelevance(l, r, q, fts) == FirstDifference(
  <<Truth(VerifiedMenuMatch(r, q)) - Truth(VerifiedMenuMatch(l, q)),
    IncludedMatches(r, q) - IncludedMatches(l, q),
    compareEvidence(UsableEvidence(l, q, fts), UsableEvidence(r, q, fts)),
    (IF Reviewed(r) THEN r.count ELSE 0)
      - (IF Reviewed(l) THEN l.count ELSE 0),
    descendingNullable(IF Reviewed(l) THEN l.latest ELSE None,
                       IF Reviewed(r) THEN r.latest ELSE None)>>)

visitConditions(l, r, q) ==
  LET opening == openingRank(l) - openingRank(r)
      distance == ascendingNumber(l.distance, r.distance) IN
  FirstDifference(IF q.sort = "DISTANCE" THEN <<distance, opening>>
                  ELSE <<opening, distance>>)

compareCandidates(l, r, q, fts, mean) == FirstDifference(
  <<compareSharedRelevance(l, r, q, fts), visitConditions(l, r, q),
    calculateCompleteness(r) - calculateCompleteness(l),
    calculateAdjustedRating(r, mean) - calculateAdjustedRating(l, mean),
    l.id - r.id>>)

-----------------------------------------------------------------------------
(* buildRelaxationOptions *)

(* Mutant: a distance alone is not relaxed. *)
RelaxesRegion(code, q) ==
  CASE code = "EXPAND_REGION_OR_DISTANCE" -> q.region # None
    [] code = "DISABLE_OPEN_NOW" -> q.openNow
    [] code = "INCLUDE_INSUFFICIENT_REVIEWS" -> q.review = "AVAILABLE"
    [] code = "EXPAND_ADJACENT_CATEGORY" -> q.included # {}

Relaxes(code, q) ==
  CASE code = "EXPAND_REGION_OR_DISTANCE" ->
         q.region # None \/ q.maxDistance # None
    [] code = "DISABLE_OPEN_NOW" -> q.openNow
    [] code = "INCLUDE_INSUFFICIENT_REVIEWS" -> q.review = "AVAILABLE"
    [] code = "EXPAND_ADJACENT_CATEGORY" -> q.included # {}

RelaxationCodes ==
  {"EXPAND_REGION_OR_DISTANCE", "DISABLE_OPEN_NOW",
   "INCLUDE_INSUFFICIENT_REVIEWS", "EXPAND_ADJACENT_CATEGORY"}

buildRelaxationOptions(q, items) ==
  {code \in RelaxationCodes : items = {} /\ Relaxes(code, q)}
=============================================================================
