----------------------------- MODULE MCSources ------------------------------
(* Where stores, places and reviews come from, in one run: the discovery   *)
(* of places, the matching of a place, the ingestion of the register and   *)
(* the collection of one store's reviews.  They share no state; the first  *)
(* state says which of them takes steps, the others rest.                  *)
(*                                                                         *)
(* "discovery": the provider's list grows, requests fail, processes crash. *)
(* "restless": places come and go for ever, and so do the stores.          *)
(* "matching": a place and a catalog that grows.                           *)
(* "ingestion": two operators who run it once each, or one who retries.    *)
(* "reviews": two runs over a store whose older reviews appear late.       *)
EXTENDS KakaoDiscovery, KakaoMatch, CatalogIngestion

CONSTANTS l1, l2, l3, l4, p1, p2, r1, r2, s1, s2

VARIABLES part, today, listing, reviewRun, storeCheckpoint, pageCheckpoint,
          seen, raw, sync, locators, worker, invocations

reviewVars == <<today, listing, reviewRun, storeCheckpoint, pageCheckpoint,
                seen, raw, sync, locators, worker, invocations>>

-----------------------------------------------------------------------------
(* Places: l2 is on the border of two quarters, l4 in the fourth; l1, l2   *)
(* have one name, address and position, and so one key.                    *)

PlaceOrder == <<l1, l2, l3, l4>>
TwinKeys == [x \in Place |-> IF x = l2 THEN l1 ELSE x]
Stores == [x \in Place |-> CASE x \in {l1, l2} -> s1 [] x = l3 -> s2
                             [] OTHER -> NoStore]
Border == [x \in Place |-> CASE x = l1 -> {<<1>>} [] x = l2 -> {<<1>>, <<2>>}
                             [] x = l3 -> {<<2>>} [] OTHER -> {<<4>>}]

Restless == INSTANCE KakaoDiscovery WITH
  Run <- {r1}, Place <- {l1, l2, l4}, Order <- <<l1, l2, l4>>,
  AtStart <- {l1, l2, l4}, Approved <- {l1, l2, l4},
  Invalid <- {l4}, PageLimit <- 2, Cap <- 3,
  Moves <- {"appear", "vanish"}, Failures <- {}, CatalogMoves <- TRUE

-----------------------------------------------------------------------------
(* The register: one row is edited, one is in another city, one loses a    *)
(* coordinate.                                                             *)

Plain == [managementNumber |-> "1", mngNo |-> "1", blank |-> FALSE,
          road |-> "seoul", lot |-> "none", dates |-> "ok", times |-> "ok",
          coordinates |-> "pair"]
Edited == [Plain EXCEPT !.coordinates = "none", !.road = "none",
                        !.lot = "seoul"]
Away == [Plain EXCEPT !.managementNumber = "2", !.mngNo = "2",
                      !.road = "elsewhere"]
Other == [Plain EXCEPT !.managementNumber = "3", !.mngNo = "3"]
Broken == [Other EXCEPT !.coordinates = "half"]

Rows == <<Plain, Edited, Away, Other, Broken>>
RowSet == Range(Rows)
FirstRows == {Plain, Away, Other}

-----------------------------------------------------------------------------
(* A store that shows its newest review only, while older ones can still   *)
(* appear.  Nothing goes away and no process crashes: see                  *)
(* HolesForceBackfill.                                                     *)

Reviews == INSTANCE ReviewCollection WITH
  NStores <- 1, Discovery <- Run, Proc <- {p1},
  DiscoveryOf <- [r \in Run |-> r], Matched <- [r \in Run |-> {1}],
  Listed <- <<{2}>>, Pii <- <<{}>>, FirstDay <- 2, LastDay <- 4, Window <- 10,
  PageSize <- 2, LiveReader <- FALSE, ProviderMoves <- {"post", "reveal"},
  Faults <- {"budget", "read"}, MaxInvocations <- 3, run <- reviewRun

ASSUME Reviews!CollectionAssumption

-----------------------------------------------------------------------------
allVars == <<part, vars, matchVars, ingestionVars, reviewVars>>

SourcesInit ==
  /\ part \in {"discovery", "restless", "matching", "ingestion", "reviews"}
  /\ IF part = "restless" THEN Restless!Init ELSE Init
  /\ MatchInit
  /\ part # "matching" => place = CHOOSE o \in KakaoMatchObservation : TRUE
  /\ IngestionInit
  /\ operators \in IF part = "ingestion" THEN {{p1}, {p1, p2}} ELSE {{p1}}
  /\ Reviews!Init

SourcesNext ==
  /\ \/ /\ \/ part = "discovery" /\ Next
           \/ part = "restless" /\ Restless!Next
        /\ UNCHANGED <<matchVars, ingestionVars, reviewVars>>
     \/ /\ part = "matching" /\ AddStore
        /\ UNCHANGED <<vars, ingestionVars, reviewVars>>
     \/ /\ part = "ingestion" /\ IngestionNext
        /\ calls' + Cardinality(operators) <= MaxCalls + 1
        /\ UNCHANGED <<vars, matchVars, reviewVars>>
     \/ /\ part = "reviews" /\ Reviews!Next
        /\ UNCHANGED <<vars, matchVars, ingestionVars>>
  /\ UNCHANGED part

(* A search that may go on goes on, and so does a process of collection.   *)
Searching(p) ==
  /\ \/ part = "discovery" /\ Search(p)
     \/ part = "restless" /\ Restless!Search(p)
  /\ UNCHANGED <<part, matchVars, ingestionVars, reviewVars>>

Collecting ==
  part = "reviews" /\ Reviews!Work(p1)
    /\ UNCHANGED <<part, vars, matchVars, ingestionVars>>

SourcesSpec ==
  /\ SourcesInit /\ [][SourcesNext]_allVars
  /\ \A p \in Process : WF_allVars(Searching(p))
  /\ WF_allVars(Collecting)

-----------------------------------------------------------------------------
(* Properties of the reviews, under the constants they are meant for; the  *)
(* others are checked as they are.                                         *)

(* A store whose run collected a review older than the previous anchor is  *)
(* not left INCREMENTAL.                                                   *)
HolesForceBackfill == Reviews!HolesForceBackfill

(* A process of collection that was invoked comes to an end.               *)
InvocationEnds == Reviews!InvocationEnds
=============================================================================
