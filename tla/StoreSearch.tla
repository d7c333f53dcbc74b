---------------------------- MODULE StoreSearch -----------------------------
(***************************************************************************)
(* The search of the web server over what the workers publish: a version   *)
(* names everything an answer is made of, a client that searched with one  *)
(* is answered from it or told that it is gone, and the reviews are left   *)
(* out of an answer when their index cannot be trusted.                    *)
(*                                                                         *)
(* Facts of a store that only change with the snapshot (name, address) are *)
(* in the publication's id.  A version is the tuple that is hashed.  All   *)
(* evidence and all reviews are about the one menu a client may ask for.   *)
(***************************************************************************)
EXTENDS CatalogPublish

CONSTANTS
  None,        \* null: no version, no evidence, no answer
  BasisDay,    \* the basis date of a snapshot, in days
  FreshDays,   \* days after which a snapshot is stale: 30
  MaxDay,      \* bound: days that pass
  MaxReviews   \* bound: publications of reviews

SearchAssumption ==
  /\ DOMAIN BasisDay = Snapshot /\ \A s \in Snapshot : BasisDay[s] \in Nat
  /\ FreshDays \in Nat /\ MaxDay \in Nat /\ MaxReviews \in Nat

VARIABLES
  today,     \* the date in Seoul
  review,    \* the active review publication: its version and stores
  asked,     \* the version read for a search that came without one
  client,    \* the version and the answer of the map that is shown
  response   \* the request just answered and the code it got

searchVars == <<today, review, asked, client, response>>

Query == {"all", "menu"}
Code == {"OK", "RESOURCE_NOT_FOUND", "SEARCH_DATA_VERSION_MISMATCH",
         "SEARCH_DATA_STALE", "SEARCH_DATA_UNAVAILABLE"}
NoResponse == [kind |-> "none", code |-> "OK"]

SearchTypeOK ==
  /\ TypeOK
  /\ today \in 0..MaxDay
  /\ review.version \in 0..MaxReviews /\ review.stores \subseteq DOMAIN store
  /\ asked = None \/ asked.publish \in Snapshot
  /\ \/ client = None
     \/ /\ client.query \in Query /\ client.version.publish \in Snapshot
        /\ client.answer.items \subseteq DOMAIN store
        /\ client.answer.status \in {"COMPLETE", "PARTIAL"}
  /\ response.kind \in {"none", "bootstrap", "search", "detail"}
  /\ response.code \in Code

SearchInit ==
  /\ Init /\ today = 0
  /\ review = [version |-> 0, stores |-> {}]
  /\ asked = None /\ client = None /\ response = NoResponse

-----------------------------------------------------------------------------
(* The components of the current snapshot *)

(* An active publication and its source row; none before the first one.    *)
HasCatalog == active # 0

assertFresh == today - BasisDay[active] \in 0..FreshDays

PublicStores ==
  {i \in DOMAIN store : IsPublic(store, bakery, link, i, active)}

(* Mutant: the publication stands for the facts of its stores. *)
publicationOnly == None

catalogChecksum == [i \in PublicStores |-> store[i]]

(* The active batch, when it was made for the active publication.          *)
evidencePublish ==
  IF \E b \in Batch : batch[b] = "ACTIVE" /\ b.publish = active
  THEN CHOOSE b \in Batch : batch[b] = "ACTIVE" /\ b.publish = active
  ELSE None

Shown(i) ==
  store[i].catalog = "published" /\ store[i].business = "active"

hasConsistentFts ==
  review.version # 0 /\ \A i \in review.stores : Shown(i)

dataVersion ==
  [publish |-> active, catalog |-> catalogChecksum,
   evidence |-> evidencePublish, review |-> review.version,
   fts |-> hasConsistentFts]

-----------------------------------------------------------------------------
(* executeStoreSearch *)

EvidenceStores ==
  IF evidencePublish = None THEN {} ELSE evidencePublish.stores

(* Evidence about a store that is no candidate makes the data unusable.    *)
loadCandidates == EvidenceStores \subseteq PublicStores

loadComponents ==
  IF ~HasCatalog THEN "SEARCH_DATA_UNAVAILABLE"
  ELSE IF ~assertFresh THEN "SEARCH_DATA_STALE" ELSE "OK"

loadSnapshot(version) ==
  IF loadComponents # "OK" THEN loadComponents
  ELSE IF version # dataVersion THEN "SEARCH_DATA_VERSION_MISMATCH"
  ELSE IF ~loadCandidates THEN "SEARCH_DATA_UNAVAILABLE" ELSE "OK"

(* The active index of the reviews, consistent, and stores to look up.     *)
searchStoreEvidence == IF hasConsistentFts THEN review.stores ELSE {}

(* Mutant: an answer without the reviews is complete. *)
CompleteAnyway(query) ==
  [status |-> "COMPLETE",
   items |-> IF query = "all" THEN PublicStores
             ELSE PublicStores \cap (EvidenceStores \cup searchStoreEvidence)]

executeStoreSearch(query) ==
  [status |-> IF query = "menu" /\ ~hasConsistentFts
              THEN "PARTIAL" ELSE "COMPLETE",
   items |-> IF query = "all" THEN PublicStores
             ELSE PublicStores \cap (EvidenceStores \cup searchStoreEvidence)]

Answered(kind, version, query) ==
  LET code == loadSnapshot(version) IN
  /\ response' = [kind |-> kind, code |-> code]
  /\ client' = IF code = "OK"
               THEN [version |-> version, query |-> query,
                     answer |-> executeStoreSearch(query), opened |-> None]
               ELSE client

(* A search without a version: the first transaction reads it.             *)
resolveCurrentDataVersion ==
  /\ asked = None
  /\ IF loadComponents = "OK"
     THEN asked' = dataVersion /\ response' = NoResponse
     ELSE /\ response' = [kind |-> "bootstrap", code |-> loadComponents]
          /\ UNCHANGED asked
  /\ UNCHANGED <<vars, today, review, client>>

(* The second transaction searches with it.                                *)
Bootstrap(query) ==
  /\ asked # None /\ asked' = None
  /\ Answered("bootstrap", asked, query)
  /\ UNCHANGED <<vars, today, review>>

(* The client searches again, in the version of the map it shows.          *)
Search(query) ==
  /\ client # None
  /\ Answered("search", client.version, query)
  /\ UNCHANGED <<vars, today, review, asked>>

(* What the map shows of an open store, on any page of its reviews.        *)
readStoreDetail(i) ==
  [id |-> i, menu |-> i \in EvidenceStores,
   reviewed |-> IF review.version = 0 THEN "UNAVAILABLE"
                ELSE IF i \in review.stores THEN "AVAILABLE" ELSE "NONE"]

(* A store of the map is opened, or another page of its reviews.           *)
Detail(i) ==
  LET code == IF loadSnapshot(client.version) # "OK"
              THEN loadSnapshot(client.version)
              ELSE IF i \in executeStoreSearch("all").items
              THEN "OK" ELSE "RESOURCE_NOT_FOUND" IN
  /\ client # None /\ i \in client.answer.items
  /\ response' = [kind |-> "detail", code |-> code]
  /\ client' = IF code = "OK"
               THEN [client EXCEPT !.opened = readStoreDetail(i)] ELSE client
  /\ UNCHANGED <<vars, today, review, asked>>

-----------------------------------------------------------------------------
(* What changes under the client *)

(* A review run is published, about stores that are shown (ReviewPublish). *)
PublishReviews(stores) ==
  /\ review.version < MaxReviews /\ \A i \in stores : Shown(i)
  /\ review' = [version |-> review.version + 1, stores |-> stores]
  /\ response' = NoResponse
  /\ UNCHANGED <<vars, today, asked, client>>

NextDay ==
  /\ today < MaxDay /\ today' = today + 1 /\ response' = NoResponse
  /\ UNCHANGED <<vars, review, asked, client>>

Publication ==
  /\ Next /\ response' = NoResponse
  /\ UNCHANGED <<today, review, asked, client>>

SearchNext ==
  \/ Publication
  \/ resolveCurrentDataVersion \/ NextDay
  \/ \E q \in Query : Bootstrap(q) \/ Search(q)
  \/ \E i \in DOMAIN store : Detail(i)
  \/ \E ids \in SUBSET DOMAIN store : PublishReviews(ids)

SearchSpec == SearchInit /\ [][SearchNext]_<<vars, searchVars>>

-----------------------------------------------------------------------------
(* Properties *)

(* recommendation-spec.md:220: as long as the version of the map that a    *)
(* client shows is the current one, the same search has the same answer,   *)
(* every store on the map can be opened and the one that is open is still  *)
(* shown as it is: whatever workers published in between, with the same    *)
(* snapshot or with another.                                               *)
SameVersionSameAnswer ==
  client # None /\ HasCatalog /\ client.version = dataVersion =>
    /\ client.answer = executeStoreSearch(client.query)
    /\ client.answer.items \subseteq executeStoreSearch("all").items
    /\ client.opened # None =>
         client.opened = readStoreDetail(client.opened.id)

(* No order of publications of the catalog, the evidence and the reviews   *)
(* makes the search unavailable: with a catalog that is not stale, a       *)
(* search in the current version is answered.                              *)
SearchAnswers ==
  HasCatalog /\ assertFresh => loadSnapshot(dataVersion) = "OK"

(* An answer that is said to be complete misses no public store that has   *)
(* the menu on its list or in a published review, even when the reviews of *)
(* another store of the corpus took the index out of use.                  *)
CompleteMissesNothing ==
  client # None /\ HasCatalog /\ client.version = dataVersion
  /\ client.query = "menu" /\ client.answer.status = "COMPLETE" =>
    PublicStores \cap (EvidenceStores \cup review.stores)
      \subseteq client.answer.items

=============================================================================
