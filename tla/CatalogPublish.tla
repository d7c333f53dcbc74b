--------------------------- MODULE CatalogPublish ---------------------------
(***************************************************************************)
(* publishCatalog and publishSearchEvidence: the stores of a snapshot are  *)
(* decided on outside the transaction that writes them, and the evidence   *)
(* that the search may use must fit the catalog that is active.            *)
(*                                                                         *)
(* Snapshots are numbered in the order of basis date, download time and    *)
(* id; the publication of a snapshot is identified by it.  A store's first *)
(* id is made of the snapshot and of its numbers there.  The ingestion     *)
(* (CatalogIngestion) may meanwhile ingest a snapshot or retry it.         *)
(***************************************************************************)
EXTENDS StoreEligibility

CONSTANTS
  Process,
  Snapshot,         \* 1..n
  RowsOf,           \* the staged rows of a snapshot
  EvidenceSets,     \* sets of brand evidence an operator may give
  Batch,            \* batches of search evidence: publication and stores
  Retries           \* TRUE: ingested snapshots may be ingested again

ASSUME PublishAssumption ==
  /\ EligibilityAssumption
  /\ Snapshot = 1..Cardinality(Snapshot)
  /\ DOMAIN RowsOf = Snapshot
  /\ \A s \in Snapshot : \A r, q \in RowsOf[s] :
       /\ r.number \in Nat /\ (r.number = q.number => r = q)
       /\ r.brand # q.brand => <<r.brand, q.brand>> \in DOMAIN Similarity
  /\ \A b \in Batch : b.publish \in Snapshot
  /\ Retries \in BOOLEAN

VARIABLES
  succeeded,  \* snapshots whose ingestion run is SUCCEEDED
  active,     \* catalog_publish_state, or 0
  store,      \* by store id
  bakery,     \* catalog_status by brand key
  link,       \* store_source_link: the store of a snapshot's number
  batch,      \* search_evidence_publish: status by batch
  proc        \* the processes inside publishCatalog

vars == <<succeeded, active, store, bakery, link, batch, proc>>

Number == UNION {{r.number : r \in RowsOf[s]} : s \in Snapshot}
StoreId == Snapshot \X ((SUBSET Number) \ {{}})
Status == {"published", "excluded", "admin_review"}
Idle == [pc |-> "idle", snapshot |-> 0, brands |-> {}, conflicts |-> {}]

TypeOK ==
  /\ succeeded \subseteq Snapshot /\ active \in {0} \cup Snapshot
  /\ DOMAIN store \subseteq StoreId
  /\ \A i \in DOMAIN store :
       /\ store[i].catalog \in Status /\ store[i].bakery \in DOMAIN bakery
       /\ store[i].business \in {"active", "inactive", "unknown"}
  /\ \A k \in DOMAIN bakery : bakery[k] \in Status
  /\ DOMAIN link \subseteq Snapshot \X Number
  /\ \A r \in DOMAIN link : link[r] \in DOMAIN store
  /\ batch \in [Batch -> {"none", "ACTIVE", "SUPERSEDED"}]
  /\ \A p \in Process : proc[p].pc \in {"idle", "commit"}

Init ==
  /\ succeeded = {} /\ active = 0
  /\ store = << >> /\ bakery = << >> /\ link = << >>
  /\ batch = [b \in Batch |-> "none"]
  /\ proc = [p \in Process |-> Idle]

Ingest(s) ==
  /\ s \notin succeeded /\ succeeded' = succeeded \cup {s}
  /\ UNCHANGED <<active, store, bakery, link, batch, proc>>

(* The run of the snapshot is RUNNING again, or FAILED_FINAL.              *)
Retry(s) ==
  /\ Retries /\ s \in succeeded /\ succeeded' = succeeded \ {s}
  /\ UNCHANGED <<active, store, bakery, link, batch, proc>>

-----------------------------------------------------------------------------
(* publishCatalog: before the transaction *)

(* Mutant: the order of the snapshots is left to the pointer. *)
AnySucceeded(s) == s \in succeeded

assertPublishableSnapshot(s) == s \in succeeded /\ s >= active

LoadsCandidates(s) ==
  RowsOf[s] # {} /\ \A r \in RowsOf[s] : normalizable(r)

Candidates(s) ==
  {[t EXCEPT !.id = <<s, t.numbers>>] :
     t \in deduplicateStores({normalizeStore(r) : r \in RowsOf[s]})}

(* The stores that any of a candidate's numbers was ever linked to.        *)
ExistingIds(t) == {link[r] : r \in {q \in DOMAIN link : q[2] \in t.numbers}}

Undisputed(t, stores) ==
  /\ Cardinality(ExistingIds(t)) = 1
  /\ \A u \in stores \ {t} : ExistingIds(u) \cap ExistingIds(t) = {}

reconcileExistingStoreIds(stores) ==
  {IF ExistingIds(t) = {} THEN t
   ELSE IF Undisputed(t, stores)
   THEN [t EXCEPT !.id = CHOOSE i \in ExistingIds(t) : TRUE]
   ELSE [t EXCEPT !.merge = "admin_review"] : t \in stores}

ConflictingIds(stores) ==
  UNION {ExistingIds(t) : t \in {u \in stores : ~Undisputed(u, stores)}}

Prepare(p, s, evidence) ==
  LET found == Candidates(s)
      stores == reconcileExistingStoreIds(found) IN
  /\ proc[p].pc = "idle"
  /\ assertPublishableSnapshot(s) /\ LoadsCandidates(s)
  /\ EvidenceAccepted(stores, evidence)
  /\ proc' = [proc EXCEPT ![p] =
       [pc |-> "commit", snapshot |-> s,
        brands |-> classifyBrands(stores, evidence),
        conflicts |-> ConflictingIds(found)]]
  /\ UNCHANGED <<succeeded, active, store, bakery, link, batch>>

-----------------------------------------------------------------------------
(* publishCatalog: the transaction *)

catalogStatusForDecision(status) ==
  IF status = "eligible" THEN "published" ELSE status

Over(f, g) ==
  [i \in DOMAIN f \cup DOMAIN g |-> IF i \in DOMAIN g THEN g[i] ELSE f[i]]

holdConflictingExistingStores(p) ==
  [i \in DOMAIN store |->
     IF i \in proc[p].conflicts
     THEN [store[i] EXCEPT !.catalog = "admin_review"] ELSE store[i]]

Decided(p) == UNION {b.stores : b \in proc[p].brands}
BrandOf(p, t) == CHOOSE b \in proc[p].brands : t \in b.stores

persistStores(p) ==
  Over(holdConflictingExistingStores(p),
    [i \in {t.id : t \in Decided(p)} |->
       LET t == CHOOSE u \in Decided(p) : u.id = i IN
       [bakery |-> BrandOf(p, t).key,
        catalog |-> catalogStatusForDecision(BrandOf(p, t).status),
        business |-> t.status, located |-> t.at # NoPosition]])

persistLinks(p) ==
  Over(link, [r \in {proc[p].snapshot} \X StoreNumbers(Decided(p)) |->
                (CHOOSE t \in Decided(p) : r[2] \in t.numbers).id])

(* Brands with one key are one bakery; the brands are written in the order  *)
(* of the bakery's id, equal ones as they were given: any may be the last.  *)
LastWritten(p) ==
  LET brands == proc[p].brands IN
  {last \in [{b.key : b \in brands} -> brands] :
     \A k \in DOMAIN last : last[k].key = k}

persistBakeries(p, last) ==
  Over(bakery,
       [k \in DOMAIN last |-> catalogStatusForDecision(last[k].status)])

LinkedIn(links, i, s) == \E r \in DOMAIN links : r[1] = s /\ links[r] = i

demoteStoresOutsideSnapshot(stores, links, s) ==
  [i \in DOMAIN stores |->
     IF stores[i].catalog = "published" /\ ~LinkedIn(links, i, s)
     THEN [stores[i] EXCEPT !.catalog = "excluded"] ELSE stores[i]]

reconcileBakeryCatalogStatus(bakeries, stores) ==
  [k \in DOMAIN bakeries |->
     IF /\ bakeries[k] = "published"
        /\ ~\E i \in DOMAIN stores : /\ stores[i].bakery = k
                                     /\ stores[i].catalog = "published"
                                     /\ stores[i].business = "active"
     THEN "excluded" ELSE bakeries[k]]

(* A store that the search may show.                                       *)
IsPublic(stores, bakeries, links, i, s) ==
  /\ i \in DOMAIN stores /\ LinkedIn(links, i, s)
  /\ stores[i].catalog = "published" /\ stores[i].business = "active"
  /\ bakeries[stores[i].bakery] = "published" /\ stores[i].located

(* Mutant: evidence of the same publication is kept whatever it is about. *)
supersedeOtherPublishes(stores, bakeries, links, s) ==
  [b \in Batch |-> IF batch[b] = "ACTIVE" /\ b.publish # s
                   THEN "SUPERSEDED" ELSE batch[b]]

supersedeIncompatibleSearchEvidence(stores, bakeries, links, s) ==
  [b \in Batch |->
     IF /\ batch[b] = "ACTIVE"
        /\ \/ b.publish # s
           \/ \E i \in b.stores : ~IsPublic(stores, bakeries, links, i, s)
     THEN "SUPERSEDED" ELSE batch[b]]

Commit(p) == \E last \in LastWritten(p) :
  LET s == proc[p].snapshot
      links == persistLinks(p)
      stores == demoteStoresOutsideSnapshot(persistStores(p), links, s)
      bakeries == reconcileBakeryCatalogStatus(persistBakeries(p, last),
                                               stores) IN
  /\ proc[p].pc = "commit" /\ assertPublishableSnapshot(s)
  /\ store' = stores /\ link' = links /\ bakery' = bakeries
  /\ batch' = supersedeIncompatibleSearchEvidence(stores, bakeries, links, s)
  /\ active' = IF s >= active THEN s ELSE active
  /\ proc' = [proc EXCEPT ![p] = Idle]
  /\ UNCHANGED succeeded

(* The snapshot was overtaken or is being ingested again, the process      *)
(* crashed, or the transaction was rolled back.                            *)
Abandon(p) ==
  /\ proc[p].pc = "commit"
  /\ proc' = [proc EXCEPT ![p] = Idle]
  /\ UNCHANGED <<succeeded, active, store, bakery, link, batch>>

-----------------------------------------------------------------------------
(* publishSearchEvidence *)

assertCatalogAndStores(b) ==
  /\ active # 0 /\ b.publish = active
  /\ \A i \in b.stores : IsPublic(store, bakery, link, i, active)

activatePublish(b) ==
  [c \in Batch |-> IF c = b THEN "ACTIVE"
                   ELSE IF batch[c] = "ACTIVE" THEN "SUPERSEDED"
                   ELSE batch[c]]

publishSearchEvidence(b) ==
  /\ assertCatalogAndStores(b)
  /\ batch' = activatePublish(b)
  /\ UNCHANGED <<succeeded, active, store, bakery, link, proc>>

Next ==
  \/ \E s \in Snapshot : Ingest(s) \/ Retry(s)
  \/ \E p \in Process :
       \/ \E s \in Snapshot, e \in EvidenceSets : Prepare(p, s, e)
       \/ Commit(p) \/ Abandon(p)
  \/ \E b \in Batch : publishSearchEvidence(b)

Spec == Init /\ [][Next]_vars

-----------------------------------------------------------------------------
(* Properties *)

RowsOfStore(i) ==
  {r \in RowsOf[active] :
     <<active, r.number>> \in DOMAIN link /\ link[<<active, r.number>>] = i}

(* Whatever publications raced: a published store is in the active         *)
(* snapshot, where its row is trading and on the map, and its bakery is    *)
(* published too.                                                          *)
PublicIsInActiveSnapshot ==
  \A i \in DOMAIN store : store[i].catalog = "published" =>
    /\ IsPublic(store, bakery, link, i, active)
    /\ \A r \in RowsOfStore(i) : /\ normalizeBusinessStatus(r) = "active"
                                 /\ normalizeCoordinates(r) # NoPosition

(* The evidence the search uses is that of one batch, made for the active  *)
(* publication, and about public stores only.                              *)
ActiveEvidenceFits ==
  /\ \A b, c \in DOMAIN batch :
       batch[b] = "ACTIVE" /\ batch[c] = "ACTIVE" => b = c
  /\ \A b \in DOMAIN batch : batch[b] = "ACTIVE" =>
       /\ b.publish = active
       /\ \A i \in b.stores : IsPublic(store, bakery, link, i, active)

(* 2026-07-26-store-normalization-eligibility.md: a changed snapshot with  *)
(* the same management lineage reuses the store id, that favorites,        *)
(* history, reviews and evidence refer to: a number is linked to one store *)
(* in all snapshots.                                                       *)
IdentityKept ==
  \A r, q \in DOMAIN link : r[2] = q[2] => link[r] = link[q]
=============================================================================
