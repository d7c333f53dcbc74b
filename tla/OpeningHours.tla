---------------------------- MODULE OpeningHours ----------------------------
(* The intervals of one store, added one by one as a batch gives them. *)
EXTENDS Recommendation

CONSTANT MaxIntervals  \* bound: intervals of a store

ASSUME RecommendationAssumption

VARIABLE hours

HoursInit == hours = {}

Interval ==
  {[weekday |-> d, sequence |-> n, opens |-> o, closes |-> c,
    nextDay |-> c <= o] :
     d \in 0..DaysPerWeek - 1, n \in 0..1,
     o, c \in 0..MinutesPerDay - 1}

(* A batch is only accepted with hours that validateBusinessHours passes.  *)
AddInterval(h) ==
  /\ Cardinality(hours) < MaxIntervals
  /\ validateBusinessHours(hours \cup {h})
  /\ hours' = hours \cup {h}

HoursNext == \E h \in Interval : AddInterval(h)

HoursSpec == HoursInit /\ [][HoursNext]_hours

(* The minutes of the week, those after its end wrapped to its start.      *)
Covered(h) == {t % Week : t \in Start(h)..End(h) - 1}

(* A store is open in exactly the minutes that one of its intervals        *)
(* covers, and none is covered by two, across midnight and across the end  *)
(* of the week (derive-candidate.ts).                                      *)
OpenIsCovered ==
  \A d \in 0..DaysPerWeek - 1, m \in 0..MinutesPerDay - 1 :
    LET covering == {h \in hours : d * MinutesPerDay + m \in Covered(h)} IN
    /\ Cardinality(covering) <= 1
    /\ deriveOpeningState(hours, d, m) =
         IF hours = {} THEN "UNKNOWN"
         ELSE IF covering = {} THEN "CLOSED" ELSE "OPEN"
=============================================================================
