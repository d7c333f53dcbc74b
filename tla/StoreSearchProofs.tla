-------------------------- MODULE StoreSearchProofs --------------------------
(* That the evidence in use fits the active catalog, that what is published  *)
(* is in it, and that a version stands for one answer, for every value of    *)
(* the constants: any snapshots, rows, evidence and batches, and any number  *)
(* of workers, publications and clients' requests.                           *)
EXTENDS StoreSearch, TLAPS

-----------------------------------------------------------------------------
(* The evidence in use *)

EvidenceInv == batch \in [Batch -> {"none", "ACTIVE", "SUPERSEDED"}]
               /\ ActiveEvidenceFits

LEMMA CommitFits ==
  ASSUME EvidenceInv, NEW p \in Process, Commit(p)
  PROVE  EvidenceInv'
<1> DEFINE s == proc[p].snapshot
           links == persistLinks(p)
           stores == demoteStoresOutsideSnapshot(persistStores(p), links, s)
           Bakeries(last) ==
             reconcileBakeryCatalogStatus(persistBakeries(p, last), stores)
<1>0. PICK last \in LastWritten(p) :
        /\ assertPublishableSnapshot(s) /\ store' = stores /\ link' = links
        /\ bakery' = Bakeries(last)
        /\ batch' = supersedeIncompatibleSearchEvidence(stores,
                                                Bakeries(last), links, s)
        /\ active' = IF s >= active THEN s ELSE active
  BY Zenon DEF Commit
<1> DEFINE bakeries == Bakeries(last)
<1>1. /\ s >= active /\ store' = stores /\ link' = links
      /\ bakery' = bakeries
      /\ batch' = supersedeIncompatibleSearchEvidence(stores, bakeries,
                                                      links, s)
      /\ active' = IF s >= active THEN s ELSE active
  BY <1>0, Zenon DEF assertPublishableSnapshot
<1> HIDE DEF links, stores, bakeries, s
<1>2. active' = s
  BY <1>1
<1>3. \A b \in Batch :
        batch'[b] = IF /\ batch[b] = "ACTIVE"
                       /\ \/ b.publish # s
                          \/ \E i \in b.stores :
                               ~IsPublic(stores, bakeries, links, i, s)
                    THEN "SUPERSEDED" ELSE batch[b]
  BY <1>1 DEF supersedeIncompatibleSearchEvidence
<1>4. batch' \in [Batch -> {"none", "ACTIVE", "SUPERSEDED"}]
  BY <1>1 DEF EvidenceInv, supersedeIncompatibleSearchEvidence
<1>5. \A b \in Batch : batch'[b] = "ACTIVE" =>
        /\ batch[b] = "ACTIVE" /\ b.publish = s
        /\ \A i \in b.stores : IsPublic(stores, bakeries, links, i, s)
  BY <1>3
<1>6. ActiveEvidenceFits'
  BY <1>1, <1>2, <1>4, <1>5, Zenon DEF EvidenceInv, ActiveEvidenceFits
<1> QED  BY <1>4, <1>6 DEF EvidenceInv

LEMMA EvidencePublishedFits ==
  ASSUME EvidenceInv, NEW b \in Batch, publishSearchEvidence(b)
  PROVE  EvidenceInv'
<1>1. /\ UNCHANGED <<active, store, bakery, link>>
      /\ b.publish = active
      /\ \A i \in b.stores : IsPublic(store, bakery, link, i, active)
      /\ batch' = activatePublish(b)
  BY DEF publishSearchEvidence, assertCatalogAndStores
<1>2. batch' \in [Batch -> {"none", "ACTIVE", "SUPERSEDED"}]
  BY <1>1 DEF activatePublish, EvidenceInv
<1>3. \A c \in Batch : batch'[c] = "ACTIVE" => c = b
  BY <1>1 DEF activatePublish
<1>4. ActiveEvidenceFits'
  BY <1>1, <1>2, <1>3, Zenon DEF EvidenceInv, ActiveEvidenceFits
<1> QED  BY <1>2, <1>4 DEF EvidenceInv

LEMMA EvidenceStep ==
  ASSUME EvidenceInv, [Next]_vars
  PROVE  EvidenceInv'
<1>1. CASE UNCHANGED <<active, store, bakery, link, batch>>
  BY <1>1, Zenon DEF EvidenceInv, ActiveEvidenceFits
<1>2. ASSUME NEW s \in Snapshot, Ingest(s) \/ Retry(s) PROVE EvidenceInv'
  BY <1>1, <1>2 DEF Ingest, Retry
<1>3. ASSUME NEW p \in Process, NEW s, NEW e, Prepare(p, s, e)
      PROVE  EvidenceInv'
  BY <1>1, <1>3 DEF Prepare
<1>4. ASSUME NEW p \in Process, Abandon(p) PROVE EvidenceInv'
  BY <1>1, <1>4 DEF Abandon
<1>5. CASE UNCHANGED vars
  BY <1>1, <1>5 DEF vars
<1> QED
  BY <1>2, <1>3, <1>4, <1>5, CommitFits, EvidencePublishedFits DEF Next

LEMMA InitEvidence == Init => EvidenceInv
BY DEF Init, EvidenceInv, ActiveEvidenceFits

\* For any snapshots, batches and number of workers: whatever was ingested
\* again, published, overtaken or rolled back in between, at most one batch of
\* search evidence is in use, and it was made for the active publication and
\* is about stores that the search may show.
THEOREM EvidenceInUseFits == Spec => []ActiveEvidenceFits
<1>1. EvidenceInv => ActiveEvidenceFits
  BY DEF EvidenceInv
<1> QED  BY <1>1, InitEvidence, EvidenceStep, PTL DEF Spec

-----------------------------------------------------------------------------
(* What is public *)

\* The rows of the register have no phone (publish-catalog.ts:178): what is
\* left of the score, 4000 + 2500 + 1500, does not merge two of them.
NoMerge == AutoMerge > 8000

\* The operator's evidence has one item for a brand, under a key of its own;
\* publishCatalog does not check it.
OneKeyPerBrand ==
  \A evidence \in EvidenceSets : \A e, f \in evidence :
    /\ e.key = f.key => e = f
    /\ e.key \notin StoreId

LEMMA NoneToJoin ==
  ASSUME NEW base PROVE FoldSet(union, base, {}) = base
<1> DEFINE Iter(f) == [s \in SUBSET {} |->
             IF s = {} THEN base
             ELSE union((CHOOSE x \in s : TRUE),
                        f[s \ {CHOOSE x \in s : TRUE}])]
           iter == CHOOSE f : f = Iter(f)
<1>1. \E f : f = Iter(f)
  <2>1. [s \in SUBSET {} |-> base] = Iter([s \in SUBSET {} |-> base])
    OBVIOUS
  <2> QED  BY <2>1
<1>2. iter = Iter(iter)
  BY <1>1, Zenon
<1>3. iter[{}] = base
  BY <1>2
<1> QED  BY <1>3 DEF FoldSet, MapThenFoldSet

\* Two rows of a snapshot are never one store by themselves.
LEMMA RowsStayApart ==
  ASSUME NoMerge, NEW s \in Snapshot, NEW r \in RowsOf[s], NEW q \in RowsOf[s]
  PROVE  MatchOf(normalizeStore(r), normalizeStore(q)) # "auto_merge"
<1> DEFINE l == normalizeStore(r)
           m == normalizeStore(q)
           similar == nameSimilarityBasisPoints(l, m)
<1>1. /\ l.phone = NoPhone /\ m.phone = NoPhone
      /\ l.brand = r.brand /\ m.brand = q.brand
  BY DEF normalizeStore
<1> HIDE DEF l, m
<1>2. similar \in Nat /\ similar <= 10000
  <2>1. CASE r.brand = q.brand
    BY <1>1, <2>1 DEF nameSimilarityBasisPoints
  <2>2. CASE r.brand # q.brand
    <3>1. <<r.brand, q.brand>> \in DOMAIN Similarity
      BY <2>2, PublishAssumption DEF PublishAssumption
    <3>2. /\ Similarity[<<r.brand, q.brand>>] \in Nat
          /\ Similarity[<<r.brand, q.brand>>] <= 10000
      BY <3>1, PublishAssumption
      DEF PublishAssumption, EligibilityAssumption
    <3> QED  BY <1>1, <3>2 DEF nameSimilarityBasisPoints
  <2> QED  BY <2>1, <2>2
<1>3. ~PhoneMatched(l, m)
  BY <1>1 DEF PhoneMatched
<1> HIDE DEF similar
<1>4. scoreEvidence(l, m) =
        (IF AddressMatched(l, m) THEN 4000 ELSE 0)
        + (IF CoordinateMatched(l, m) THEN 2500 ELSE 0) + 0
        + (similar * 1500 + 5000) \div 10000
  BY <1>3 DEF scoreEvidence, similar
<1>5. scoreEvidence(l, m) <= 8000
  BY <1>2, <1>4
<1>6. AutoMerge \in Int
  BY PublishAssumption DEF PublishAssumption, EligibilityAssumption
<1>7. ~(scoreEvidence(l, m) >= AutoMerge)
  BY <1>2, <1>4, <1>5, <1>6 DEF NoMerge
<1>8. classifyMatch(l, m) # "auto_merge"
  BY <1>7 DEF classifyMatch
<1> QED  BY <1>8 DEF MatchOf, l, m

\* t is what became of the row r: the store made of it, under a first id or
\* under one that its number was linked to.
StoreOfRow(t, r) ==
  /\ t = [id |-> t.id, numbers |-> t.numbers, name |-> t.name,
          brand |-> t.brand, at |-> t.at, status |-> t.status,
          merge |-> t.merge]
  /\ t.numbers = {r.number} /\ t.id \in Snapshot \X {{r.number}}
  /\ t.status = normalizeBusinessStatus(r) /\ t.at = normalizeCoordinates(r)

OneStorePerRow(stores, s) ==
  /\ \A t \in stores : \E r \in RowsOf[s] : StoreOfRow(t, r)
  /\ \A r \in RowsOf[s] : \E t \in stores : t.numbers = {r.number}
  /\ \A t, u \in stores : t.numbers = u.numbers => t = u

LEMMA RegisterStores ==
  ASSUME NoMerge, NEW s \in Snapshot
  PROVE  OneStorePerRow(Candidates(s), s)
<1> DEFINE rows == {normalizeStore(r) : r \in RowsOf[s]}
           Store(c) == buildCanonicalStore({c}, rows)
<1>1. MergedPairs(rows) = {}
  BY RowsStayApart DEF MergedPairs
<1>2. Groups(rows) = {{c} : c \in rows}
  BY <1>1, NoneToJoin DEF Groups
<1>3. deduplicateStores(rows) = {Store(c) : c \in rows}
  BY <1>2 DEF deduplicateStores
<1>4. ASSUME NEW r \in RowsOf[s]
      PROVE  /\ Store(normalizeStore(r)).numbers = {r.number}
             /\ Store(normalizeStore(r)).status = normalizeBusinessStatus(r)
             /\ Store(normalizeStore(r)).at = normalizeCoordinates(r)
  <2> DEFINE c == normalizeStore(r)
  <2>1. /\ c.number = r.number /\ c.status = normalizeBusinessStatus(r)
        /\ c.at = normalizeCoordinates(r)
    BY DEF normalizeStore
  <2> HIDE DEF c
  <2>2. Numbers({c}) = {r.number}
    BY <2>1 DEF Numbers
  <2>3. Min(Numbers({c})) = r.number
    <3>1. r.number \in Nat
      BY PublishAssumption DEF PublishAssumption
    <3>2. \A n \in Nat : Min({n}) = n
      BY DEF Min
    <3> QED  BY <2>2, <3>1, <3>2
  <2>4. (CHOOSE d \in {c} : d.number = Min(Numbers({c}))) = c
    BY <2>1, <2>3
  <2> QED  BY <2>1, <2>2, <2>4 DEF buildCanonicalStore, c
<1>5. Candidates(s) =
        {[Store(c) EXCEPT !.id = <<s, Store(c).numbers>>] : c \in rows}
  BY <1>3 DEF Candidates
<1> DEFINE Cand(r) ==
             [Store(normalizeStore(r)) EXCEPT
                !.id = <<s, Store(normalizeStore(r)).numbers>>]
<1>6. Candidates(s) = {Cand(r) : r \in RowsOf[s]}
  BY <1>5
<1>7. ASSUME NEW r \in RowsOf[s]
      PROVE  StoreOfRow(Cand(r), r)
  <2>1. \A c : Store(c) = [id |-> Store(c).id, numbers |-> Store(c).numbers,
                           name |-> Store(c).name, brand |-> Store(c).brand,
                           at |-> Store(c).at, status |-> Store(c).status,
                           merge |-> Store(c).merge]
    BY DEF buildCanonicalStore
  <2> HIDE DEF Store
  <2> QED  BY <1>4, <2>1 DEF StoreOfRow
<1> HIDE DEF Cand, Store, rows
<1>8. \A t \in Candidates(s) : \E r \in RowsOf[s] :
        t = Cand(r) /\ StoreOfRow(t, r)
  BY <1>6, <1>7
<1>9. \A r \in RowsOf[s] : \E t \in Candidates(s) : t.numbers = {r.number}
  BY <1>6, <1>7 DEF StoreOfRow
<1>10. ASSUME NEW t \in Candidates(s), NEW u \in Candidates(s),
              t.numbers = u.numbers
       PROVE  t = u
  <2>1. PICK r \in RowsOf[s] : t = Cand(r) /\ t.numbers = {r.number}
    BY <1>8 DEF StoreOfRow
  <2>2. PICK q \in RowsOf[s] : u = Cand(q) /\ u.numbers = {q.number}
    BY <1>8 DEF StoreOfRow
  <2>3. r = q
    BY <1>10, <2>1, <2>2, PublishAssumption DEF PublishAssumption
  <2> QED  BY <2>1, <2>2, <2>3
<1> QED  BY <1>8, <1>9, <1>10 DEF OneStorePerRow

LinksOfRows ==
  \A q \in DOMAIN link :
    /\ q[1] \in Snapshot /\ q = <<q[1], q[2]>>
    /\ \E r \in RowsOf[q[1]] : r.number = q[2]
    /\ link[q] \in Snapshot \X {{q[2]}}

LEMMA ReconciledStores ==
  ASSUME NEW s \in Snapshot, NEW found, OneStorePerRow(found, s), LinksOfRows
  PROVE  OneStorePerRow(reconcileExistingStoreIds(found), s)
<1> DEFINE New(t) == IF ExistingIds(t) = {} THEN t
                     ELSE IF Undisputed(t, found)
                     THEN [t EXCEPT !.id = CHOOSE i \in ExistingIds(t) : TRUE]
                     ELSE [t EXCEPT !.merge = "admin_review"]
<1>1. reconcileExistingStoreIds(found) = {New(t) : t \in found}
  BY DEF reconcileExistingStoreIds
<1>2. ASSUME NEW t \in found, NEW r \in RowsOf[s], StoreOfRow(t, r)
      PROVE  StoreOfRow(New(t), r)
  <2>1. \A i \in ExistingIds(t) : i \in Snapshot \X {{r.number}}
    BY <1>2 DEF ExistingIds, LinksOfRows, StoreOfRow
  <2> QED  BY <1>2, <2>1 DEF StoreOfRow
<1>3. \A t \in found : New(t).numbers = t.numbers
  OBVIOUS
<1> HIDE DEF New
<1>4. \A t \in reconcileExistingStoreIds(found) :
        \E r \in RowsOf[s] : StoreOfRow(t, r)
  BY <1>1, <1>2 DEF OneStorePerRow
<1>5. \A r \in RowsOf[s] :
        \E t \in reconcileExistingStoreIds(found) : t.numbers = {r.number}
  BY <1>1, <1>3 DEF OneStorePerRow
<1>6. \A t, u \in reconcileExistingStoreIds(found) :
        t.numbers = u.numbers => t = u
  BY <1>1, <1>3 DEF OneStorePerRow
<1> QED  BY <1>4, <1>5, <1>6 DEF OneStorePerRow

DecidedBy(brands) == UNION {b.stores : b \in brands}

\* The brands of a snapshot share out its stores and have keys of their own;
\* the stores of one that is eligible are trading and on the map.
BrandsOf(brands, s) ==
  /\ OneStorePerRow(DecidedBy(brands), s)
  /\ \A b, c \in brands : b.key = c.key => b = c
  /\ \A b, c \in brands : \A t \in b.stores : t \in c.stores => b = c
  /\ \A b \in brands :
       /\ b.status \in {"eligible", "excluded", "admin_review"}
       /\ b.status = "eligible" =>
            \A t \in b.stores : t.status = "active" /\ t.at # NoPosition

LEMMA EligibleTrades ==
  ASSUME NEW s \in Snapshot, NEW stores, NEW e,
         \A t \in stores : \E r \in RowsOf[s] : StoreOfRow(t, r)
  PROVE  /\ classifyEligibility(stores, e)
              \in {"eligible", "excluded", "admin_review"}
         /\ classifyEligibility(stores, e) = "eligible" =>
              \A t \in stores : t.status = "active" /\ t.at # NoPosition
<1>1. \A t \in stores : t.status \in {"active", "inactive", "unknown"}
  BY DEF StoreOfRow, normalizeBusinessStatus
<1> QED  BY <1>1 DEF classifyEligibility, Excluded, InDoubt, Unresolved

LEMMA ClassifiedBrands ==
  ASSUME OneKeyPerBrand, NEW s \in Snapshot, NEW stores,
         OneStorePerRow(stores, s),
         NEW evidence \in EvidenceSets, EvidenceAccepted(stores, evidence)
  PROVE  BrandsOf(classifyBrands(stores, evidence), s)
<1> DEFINE rest == stores \ Assigned(stores, evidence)
           Given(e) == Brand(BrandStores(stores, e), e)
           Alone(t) == Brand({t}, evidenceForUnassignedStore(t))
           brands == classifyBrands(stores, evidence)
<1>1. brands = {Given(e) : e \in evidence} \cup {Alone(t) : t \in rest}
  BY DEF classifyBrands
<1>2. \A e \in evidence :
        /\ Given(e).key = e.key /\ Given(e).stores = BrandStores(stores, e)
        /\ Given(e).status = classifyEligibility(BrandStores(stores, e), e)
        /\ BrandStores(stores, e) \subseteq stores
        /\ BrandStores(stores, e) \subseteq Assigned(stores, evidence)
  BY DEF Brand, BrandStores, Assigned
<1>3. \A t \in rest :
        /\ Alone(t).key = t.id /\ Alone(t).stores = {t}
        /\ Alone(t).status =
             classifyEligibility({t}, evidenceForUnassignedStore(t))
  BY DEF Brand, evidenceForUnassignedStore
<1> HIDE DEF Given, Alone, brands
<1>4. /\ \A e \in evidence : Given(e) \in brands
      /\ \A t \in rest : Alone(t) \in brands
      /\ \A b \in brands : \/ \E e \in evidence : b = Given(e)
                          \/ \E t \in rest : b = Alone(t)
  BY <1>1
<1>5. DecidedBy(brands) = stores
  <2>1. ASSUME NEW b \in brands PROVE b.stores \subseteq stores
    <3>1. CASE \E e \in evidence : b = Given(e)
      BY <1>2, <3>1
    <3>2. CASE \E t \in rest : b = Alone(t)
      BY <1>3, <3>2
    <3> QED  BY <1>4, <3>1, <3>2
  <2>2. ASSUME NEW t \in stores PROVE \E b \in brands : t \in b.stores
    <3>1. CASE t \in rest
      BY <1>3, <1>4, <3>1
    <3>2. CASE t \in Assigned(stores, evidence)
      <4>1. PICK e \in evidence : t \in BrandStores(stores, e)
        BY <3>2 DEF Assigned
      <4> QED  BY <1>2, <1>4, <4>1
    <3> QED  BY <3>1, <3>2
  <2> QED  BY <2>1, <2>2 DEF DecidedBy
<1>6. \A t, u \in stores : t.id = u.id => t = u
  BY DEF OneStorePerRow, StoreOfRow
<1>7. \A t \in stores : t.id \in StoreId
  <2>1. \A r \in RowsOf[s] : r.number \in Number
    BY DEF Number
  <2>2. ASSUME NEW t \in stores PROVE t.id \in StoreId
    <3>1. PICK r \in RowsOf[s] : t.id \in Snapshot \X {{r.number}}
      BY DEF OneStorePerRow, StoreOfRow
    <3>2. {r.number} \in (SUBSET Number) \ {{}}
      BY <2>1
    <3> QED  BY <3>1, <3>2 DEF StoreId
  <2> QED  BY <2>2
<1>8. /\ \A e \in evidence : e.key \notin StoreId
      /\ \A e, f \in evidence : e.key = f.key => e = f
  BY DEF OneKeyPerBrand
<1>9. ASSUME NEW b \in brands, NEW c \in brands, b.key = c.key
      PROVE  b = c
  <2>1. ASSUME NEW e \in evidence, b = Given(e) PROVE b = c
    <3>1. b.key = e.key /\ b.key \notin StoreId
      BY <1>2, <1>8, <2>1, Zenon
    <3>2. ASSUME NEW t \in rest, c = Alone(t) PROVE FALSE
      BY <1>3, <1>7, <1>9, <3>1, <3>2
    <3>3. ASSUME NEW f \in evidence, c = Given(f) PROVE b = c
      BY <1>2, <1>8, <1>9, <2>1, <3>1, <3>3
    <3> QED  BY <1>4, <3>2, <3>3
  <2>2. ASSUME NEW t \in rest, b = Alone(t) PROVE b = c
    <3>1. b.key = t.id /\ b.key \in StoreId
      BY <1>3, <1>7, <2>2
    <3>2. ASSUME NEW e \in evidence, c = Given(e) PROVE FALSE
      <4>1. c.key = e.key /\ c.key \notin StoreId
        BY <1>2, <1>8, <3>2, Zenon
      <4> QED  BY <1>9, <3>1, <4>1
    <3>3. ASSUME NEW u \in rest, c = Alone(u) PROVE b = c
      BY <1>3, <1>6, <1>9, <2>2, <3>1, <3>3
    <3> QED  BY <1>4, <3>2, <3>3
  <2> QED  BY <1>4, <2>1, <2>2
<1>10. ASSUME NEW b \in brands, NEW c \in brands,
              NEW t, t \in b.stores, t \in c.stores
       PROVE  b = c
  <2>1. ASSUME NEW e \in evidence, NEW f \in evidence,
               t \in BrandStores(stores, e), t \in BrandStores(stores, f)
        PROVE  e = f
    BY <2>1 DEF EvidenceAccepted
  <2>2. CASE t \in rest
    <3>1. \A e \in evidence : t \notin Given(e).stores
      BY <1>2, <2>2
    <3>2. PICK u \in rest : b = Alone(u)
      BY <1>4, <1>10, <3>1
    <3>3. PICK v \in rest : c = Alone(v)
      BY <1>4, <1>10, <3>1
    <3> QED  BY <1>3, <1>10, <3>2, <3>3
  <2>3. CASE t \notin rest
    <3>1. \A u \in rest : t \notin Alone(u).stores
      BY <1>3, <2>3
    <3>2. PICK e \in evidence : b = Given(e)
      BY <1>4, <1>10, <3>1
    <3>3. PICK f \in evidence : c = Given(f)
      BY <1>4, <1>10, <3>1
    <3> QED  BY <1>2, <1>10, <2>1, <3>2, <3>3
  <2> QED  BY <2>2, <2>3
<1>11. ASSUME NEW b \in brands
       PROVE  /\ b.status \in {"eligible", "excluded", "admin_review"}
              /\ b.status = "eligible" =>
                   \A t \in b.stores : t.status = "active"
                                      /\ t.at # NoPosition
  <2>1. \A t \in stores : \E r \in RowsOf[s] : StoreOfRow(t, r)
    BY DEF OneStorePerRow
  <2>2. \E e : b.status = classifyEligibility(b.stores, e)
    <3>1. CASE \E e \in evidence : b = Given(e)
      BY <1>2, <3>1
    <3>2. CASE \E t \in rest : b = Alone(t)
      BY <1>3, <3>2
    <3> QED  BY <1>4, <3>1, <3>2
  <2>3. b.stores \subseteq stores
    BY <1>5 DEF DecidedBy
  <2> QED  BY <2>1, <2>2, <2>3, EligibleTrades
<1> QED  BY <1>5, <1>9, <1>10, <1>11 DEF BrandsOf, brands

PublicInv ==
  /\ DOMAIN proc = Process /\ LinksOfRows
  /\ \A p \in Process : proc[p].pc = "commit" =>
       /\ proc[p].snapshot \in Snapshot
       /\ BrandsOf(proc[p].brands, proc[p].snapshot)
  /\ PublicIsInActiveSnapshot

LEMMA PrepareKeepsPublic ==
  ASSUME NoMerge, OneKeyPerBrand, PublicInv, NEW p \in Process,
         NEW s \in Snapshot, NEW evidence \in EvidenceSets,
         Prepare(p, s, evidence)
  PROVE  PublicInv'
<1> DEFINE stores == reconcileExistingStoreIds(Candidates(s))
<1>1. /\ EvidenceAccepted(stores, evidence)
      /\ proc' = [proc EXCEPT ![p] =
           [pc |-> "commit", snapshot |-> s,
            brands |-> classifyBrands(stores, evidence),
            conflicts |-> ConflictingIds(Candidates(s))]]
      /\ UNCHANGED <<active, store, bakery, link>>
  BY DEF Prepare
<1>2. OneStorePerRow(stores, s)
  BY RegisterStores, ReconciledStores DEF PublicInv
<1> HIDE DEF stores
<1>3. BrandsOf(classifyBrands(stores, evidence), s)
  BY <1>1, <1>2, ClassifiedBrands
<1>4. /\ DOMAIN proc' = Process
      /\ \A q \in Process : proc'[q].pc = "commit" =>
           /\ proc'[q].snapshot \in Snapshot
           /\ BrandsOf(proc'[q].brands, proc'[q].snapshot)
  BY <1>1, <1>3 DEF PublicInv
<1>5. LinksOfRows'
  BY <1>1 DEF PublicInv, LinksOfRows
<1>6. PublicIsInActiveSnapshot'
  BY <1>1, Zenon DEF PublicInv, PublicIsInActiveSnapshot, RowsOfStore
<1> QED  BY <1>4, <1>5, <1>6 DEF PublicInv

\* The links that a publication leaves for its snapshot are those of the
\* stores it decided on.
LEMMA LinksOfDecided ==
  ASSUME PublicInv, NEW p \in Process, proc[p].pc = "commit"
  PROVE  /\ \A q \in DOMAIN persistLinks(p) :
              q[1] = proc[p].snapshot =>
                \E t \in Decided(p) : /\ t.numbers = {q[2]}
                                      /\ persistLinks(p)[q] = t.id
         /\ \A q \in DOMAIN persistLinks(p) :
              /\ q[1] \in Snapshot /\ q = <<q[1], q[2]>>
              /\ \E r \in RowsOf[q[1]] : r.number = q[2]
              /\ persistLinks(p)[q] \in Snapshot \X {{q[2]}}
<1> DEFINE s == proc[p].snapshot
           D == Decided(p)
           New == {s} \X StoreNumbers(D)
           links == persistLinks(p)
<1>1. s \in Snapshot /\ OneStorePerRow(D, s)
  BY DEF PublicInv, BrandsOf, DecidedBy, Decided
<1>2. \A q : q \in DOMAIN links <=> q \in DOMAIN link \/ q \in New
  BY DEF persistLinks, Over
<1>3. \A q \in New :
        links[q] = (CHOOSE t \in D : q[2] \in t.numbers).id
  BY DEF persistLinks, Over
<1>4. \A q \in DOMAIN link : q \notin New => links[q] = link[q]
  BY DEF persistLinks, Over
<1> HIDE DEF s, D, links
<1>5. \A r \in RowsOf[s] : r.number \in StoreNumbers(D)
  BY <1>1 DEF OneStorePerRow, StoreNumbers
<1>6. ASSUME NEW q \in New
      PROVE  /\ q = <<q[1], q[2]>> /\ q[1] = s
             /\ \E r \in RowsOf[s] : r.number = q[2]
             /\ links[q] \in Snapshot \X {{q[2]}}
             /\ \E t \in D : t.numbers = {q[2]} /\ links[q] = t.id
  <2>1. PICK t \in D : q[2] \in t.numbers
    BY DEF StoreNumbers
  <2> DEFINE u == CHOOSE t1 \in D : q[2] \in t1.numbers
  <2>2. u \in D /\ q[2] \in u.numbers
    BY <2>1
  <2> HIDE DEF u
  <2>3. PICK r \in RowsOf[s] : StoreOfRow(u, r)
    BY <1>1, <2>2 DEF OneStorePerRow
  <2>4. r.number = q[2] /\ u.numbers = {q[2]}
    BY <2>2, <2>3 DEF StoreOfRow
  <2>5. links[q] = u.id
    BY <1>3 DEF u
  <2>6. u.id \in Snapshot \X {{q[2]}}
    BY <2>3, <2>4 DEF StoreOfRow
  <2> QED  BY <2>2, <2>4, <2>5, <2>6
<1>7. ASSUME NEW q \in DOMAIN link
      PROVE  /\ q[1] \in Snapshot /\ q = <<q[1], q[2]>>
             /\ \E r \in RowsOf[q[1]] : r.number = q[2]
             /\ link[q] \in Snapshot \X {{q[2]}}
             /\ q[1] = s => q \in New
  <2>1. /\ q[1] \in Snapshot /\ q = <<q[1], q[2]>>
        /\ \E r \in RowsOf[q[1]] : r.number = q[2]
        /\ link[q] \in Snapshot \X {{q[2]}}
    BY DEF PublicInv, LinksOfRows
  <2>2. ASSUME q[1] = s PROVE q \in New
    <3>1. q[2] \in StoreNumbers(D)
      BY <1>5, <2>1, <2>2
    <3>2. <<s, q[2]>> \in New
      BY <3>1
    <3> QED  BY <2>1, <2>2, <3>2
  <2> QED  BY <2>1, <2>2
<1>8. ASSUME NEW q \in DOMAIN links, q[1] = s
      PROVE  \E t \in D : t.numbers = {q[2]} /\ links[q] = t.id
  BY <1>2, <1>6, <1>7, <1>8
<1>9. ASSUME NEW q \in DOMAIN links
      PROVE  /\ q[1] \in Snapshot /\ q = <<q[1], q[2]>>
             /\ \E r \in RowsOf[q[1]] : r.number = q[2]
             /\ links[q] \in Snapshot \X {{q[2]}}
  <2>1. CASE q \in New
    BY <1>1, <1>6, <2>1
  <2>2. CASE q \notin New
    <3>1. q \in DOMAIN link /\ links[q] = link[q]
      BY <1>2, <1>4, <2>2
    <3> QED  BY <1>7, <3>1
  <2> QED  BY <2>1, <2>2
<1> QED  BY <1>8, <1>9 DEF D, s, links

\* What it writes of a store and of the brand it belongs to.
LEMMA DecidedIsWritten ==
  ASSUME PublicInv, NEW p \in Process, proc[p].pc = "commit",
         NEW last \in LastWritten(p), NEW t \in Decided(p)
  PROVE  \E b \in proc[p].brands :
           /\ t \in b.stores
           /\ t.id \in DOMAIN persistStores(p)
           /\ persistStores(p)[t.id] =
                [bakery |-> b.key,
                 catalog |-> catalogStatusForDecision(b.status),
                 business |-> t.status, located |-> t.at # NoPosition]
           /\ b.key \in DOMAIN persistBakeries(p, last)
           /\ persistBakeries(p, last)[b.key] =
                catalogStatusForDecision(b.status)
<1>1. BrandsOf(proc[p].brands, proc[p].snapshot)
  BY DEF PublicInv
<1>2. PICK b \in proc[p].brands : t \in b.stores
  BY DEF Decided
<1>3. BrandOf(p, t) = b
  BY <1>1, <1>2 DEF BrandsOf, BrandOf
<1>4. \A u \in Decided(p) : u.id = t.id => u = t
  <2>1. OneStorePerRow(Decided(p), proc[p].snapshot)
    BY <1>1 DEF BrandsOf, DecidedBy, Decided
  <2>2. \A u \in Decided(p) : \E r : /\ u.numbers = {r.number}
                                   /\ u.id \in Snapshot \X {{r.number}}
    BY <2>1 DEF OneStorePerRow, StoreOfRow
  <2>3. \A u \in Decided(p) : u.id[2] = u.numbers
    BY <2>2
  <2> QED  BY <2>1, <2>3 DEF OneStorePerRow
<1>5. (CHOOSE u \in Decided(p) : u.id = t.id) = t
  BY <1>4
<1>6. /\ t.id \in DOMAIN persistStores(p)
      /\ persistStores(p)[t.id] =
           [bakery |-> BrandOf(p, t).key,
            catalog |-> catalogStatusForDecision(BrandOf(p, t).status),
            business |-> t.status, located |-> t.at # NoPosition]
  BY <1>5 DEF persistStores, Over
<1>7. b.key \in DOMAIN last /\ last[b.key] = b
  <2>1. /\ b.key \in DOMAIN last /\ last[b.key] \in proc[p].brands
        /\ last[b.key].key = b.key
    BY <1>2 DEF LastWritten
  <2> QED  BY <1>1, <1>2, <2>1 DEF BrandsOf
<1>8. /\ b.key \in DOMAIN persistBakeries(p, last)
      /\ persistBakeries(p, last)[b.key] = catalogStatusForDecision(b.status)
  BY <1>7 DEF persistBakeries, Over
<1> QED  BY <1>2, <1>3, <1>6, <1>8

LEMMA CommitKeepsPublic ==
  ASSUME PublicInv, NEW p \in Process, Commit(p)
  PROVE  PublicInv'
<1> DEFINE s == proc[p].snapshot
           D == Decided(p)
           links == persistLinks(p)
           kept == persistStores(p)
           stores == demoteStoresOutsideSnapshot(kept, links, s)
           Bakeries(last) ==
             reconcileBakeryCatalogStatus(persistBakeries(p, last), stores)
<1>0. PICK last \in LastWritten(p) :
        /\ proc[p].pc = "commit" /\ assertPublishableSnapshot(s)
        /\ store' = stores /\ link' = links /\ bakery' = Bakeries(last)
        /\ active' = IF s >= active THEN s ELSE active
        /\ proc' = [proc EXCEPT ![p] = Idle]
  BY Zenon DEF Commit
<1> DEFINE saved == persistBakeries(p, last)
           bakeries == reconcileBakeryCatalogStatus(saved, stores)
<1>1. /\ proc[p].pc = "commit" /\ s >= active
      /\ store' = stores /\ link' = links /\ bakery' = bakeries
      /\ active' = IF s >= active THEN s ELSE active
      /\ proc' = [proc EXCEPT ![p] = Idle]
  BY <1>0, Zenon DEF assertPublishableSnapshot
<1>2. active' = s
  BY <1>1
<1>3. OneStorePerRow(D, s) /\ BrandsOf(proc[p].brands, s)
  BY <1>1 DEF PublicInv, BrandsOf, DecidedBy, Decided
<1>4. /\ \A q \in DOMAIN links : q[1] = s =>
           \E t \in D : t.numbers = {q[2]} /\ links[q] = t.id
      /\ LinksOfRows'
  BY <1>1, LinksOfDecided DEF LinksOfRows
<1>5. \A t \in D : \E b \in proc[p].brands :
        /\ t \in b.stores /\ t.id \in DOMAIN kept
        /\ kept[t.id] =
             [bakery |-> b.key,
              catalog |-> catalogStatusForDecision(b.status),
              business |-> t.status, located |-> t.at # NoPosition]
        /\ b.key \in DOMAIN saved
        /\ saved[b.key] = catalogStatusForDecision(b.status)
  BY <1>0, <1>1, DecidedIsWritten
<1> HIDE DEF links, kept, saved, s, D
<1>6. /\ DOMAIN stores = DOMAIN kept
      /\ \A i \in DOMAIN stores : stores[i].catalog = "published" =>
           stores[i] = kept[i] /\ LinkedIn(links, i, s)
  <2>1. \A i \in DOMAIN kept :
          stores[i] = IF kept[i].catalog = "published"
                         /\ ~LinkedIn(links, i, s)
                      THEN [kept[i] EXCEPT !.catalog = "excluded"]
                      ELSE kept[i]
    BY DEF demoteStoresOutsideSnapshot
  <2>2. DOMAIN stores = DOMAIN kept
    BY DEF demoteStoresOutsideSnapshot
  <2>3. ASSUME NEW i \in DOMAIN kept, kept[i].catalog = "published",
               ~LinkedIn(links, i, s)
        PROVE  stores[i].catalog # "published"
    <3>1. stores[i] = [kept[i] EXCEPT !.catalog = "excluded"]
      BY <2>1, <2>3
    <3>2. "catalog" \in DOMAIN kept[i] => stores[i].catalog = "excluded"
      BY <3>1
    <3> QED  BY <3>1, <3>2
  <2> QED  BY <2>1, <2>2, <2>3
<1> HIDE DEF stores
<1>7. ASSUME NEW i \in DOMAIN stores, stores[i].catalog = "published"
      PROVE  /\ IsPublic(stores, bakeries, links, i, s)
             /\ \A r \in RowsOf[s] :
                  /\ <<s, r.number>> \in DOMAIN links
                  /\ links[<<s, r.number>>] = i
                  => /\ normalizeBusinessStatus(r) = "active"
                     /\ normalizeCoordinates(r) # NoPosition
  <2>1. stores[i] = kept[i] /\ LinkedIn(links, i, s)
    BY <1>6, <1>7
  <2>2. PICK t \in D : t.id = i
    BY <1>4, <2>1 DEF LinkedIn
  <2>3. PICK b \in proc[p].brands :
          /\ t \in b.stores
          /\ kept[i] = [bakery |-> b.key,
                        catalog |-> catalogStatusForDecision(b.status),
                        business |-> t.status,
                        located |-> t.at # NoPosition]
          /\ b.key \in DOMAIN saved
          /\ saved[b.key] = catalogStatusForDecision(b.status)
    BY <1>5, <2>2
  <2>4. b.status = "eligible" /\ saved[b.key] = "published"
    BY <1>3, <1>7, <2>1, <2>3 DEF BrandsOf, catalogStatusForDecision
  <2>5. t.status = "active" /\ t.at # NoPosition
    BY <1>3, <2>3, <2>4 DEF BrandsOf
  <2>6. /\ stores[i].bakery = b.key /\ stores[i].business = "active"
        /\ stores[i].located
    <3>1. /\ stores[i].bakery = b.key /\ stores[i].business = "active"
          /\ stores[i].located = (t.at # NoPosition)
      BY <2>1, <2>3, <2>5
    <3> QED  BY <2>5, <3>1, Zenon
  <2>7. bakeries[b.key] = "published"
    BY <1>7, <2>3, <2>4, <2>6 DEF reconcileBakeryCatalogStatus
  <2>8. IsPublic(stores, bakeries, links, i, s)
    BY <1>7, <2>1, <2>6, <2>7 DEF IsPublic
  <2>9. ASSUME NEW r \in RowsOf[s], <<s, r.number>> \in DOMAIN links,
               links[<<s, r.number>>] = i
        PROVE  /\ normalizeBusinessStatus(r) = "active"
               /\ normalizeCoordinates(r) # NoPosition
    <3>1. PICK u \in D : u.numbers = {r.number} /\ u.id = i
      BY <1>4, <2>9
    <3>2. PICK q \in RowsOf[s] : StoreOfRow(t, q)
      BY <1>3 DEF OneStorePerRow
    <3>3. PICK v \in RowsOf[s] : StoreOfRow(u, v)
      BY <1>3 DEF OneStorePerRow
    <3>4. q.number = r.number
      BY <2>2, <3>1, <3>2, <3>3 DEF StoreOfRow
    <3>5. s \in Snapshot
      BY <1>1 DEF PublicInv, s
    <3>6. q = r
      BY <3>4, <3>5, PublishAssumption DEF PublishAssumption
    <3> QED  BY <2>5, <3>2, <3>6 DEF StoreOfRow
  <2> QED  BY <2>8, <2>9
<1>8. PublicIsInActiveSnapshot'
  BY <1>1, <1>2, <1>7, Zenon DEF PublicIsInActiveSnapshot, RowsOfStore
<1>9. /\ DOMAIN proc' = Process
      /\ \A q \in Process : proc'[q].pc = "commit" =>
           /\ proc'[q].snapshot \in Snapshot
           /\ BrandsOf(proc'[q].brands, proc'[q].snapshot)
  BY <1>1 DEF PublicInv, Idle
<1> QED  BY <1>4, <1>8, <1>9 DEF PublicInv

LEMMA PublicStep ==
  ASSUME NoMerge, OneKeyPerBrand, PublicInv, [Next]_vars
  PROVE  PublicInv'
<1>1. CASE UNCHANGED <<active, store, bakery, link, proc>>
  BY <1>1, Zenon
  DEF PublicInv, LinksOfRows, PublicIsInActiveSnapshot, RowsOfStore
<1>2. ASSUME NEW s \in Snapshot, Ingest(s) \/ Retry(s) PROVE PublicInv'
  BY <1>1, <1>2 DEF Ingest, Retry
<1>3. ASSUME NEW p \in Process, Abandon(p) PROVE PublicInv'
  <2>1. /\ proc' = [proc EXCEPT ![p] = Idle]
        /\ UNCHANGED <<active, store, bakery, link>>
    BY <1>3 DEF Abandon
  <2>2. /\ DOMAIN proc' = Process
        /\ \A q \in Process : proc'[q].pc = "commit" =>
             /\ proc'[q].snapshot \in Snapshot
             /\ BrandsOf(proc'[q].brands, proc'[q].snapshot)
    BY <2>1 DEF PublicInv, Idle
  <2>3. LinksOfRows' /\ PublicIsInActiveSnapshot'
    BY <2>1, Zenon
    DEF PublicInv, LinksOfRows, PublicIsInActiveSnapshot, RowsOfStore
  <2> QED  BY <2>2, <2>3 DEF PublicInv
<1>4. ASSUME NEW b \in Batch, publishSearchEvidence(b) PROVE PublicInv'
  BY <1>1, <1>4 DEF publishSearchEvidence
<1>5. CASE UNCHANGED vars
  BY <1>1, <1>5 DEF vars
<1> QED
  BY <1>2, <1>3, <1>4, <1>5, PrepareKeepsPublic, CommitKeepsPublic DEF Next

LEMMA InitPublic == Init => PublicInv
BY DEF Init, PublicInv, LinksOfRows, PublicIsInActiveSnapshot, Idle

\* For any register, evidence and number of workers: whatever publications
\* overtook one another or started from what had changed since, a published
\* store is in the active snapshot, its row there is trading and on the map,
\* and its bakery is published too.
THEOREM PublishedIsInSnapshot ==
  ASSUME NoMerge, OneKeyPerBrand PROVE Spec => []PublicIsInActiveSnapshot
<1>1. PublicInv => PublicIsInActiveSnapshot
  BY DEF PublicInv
<1>2. PublicInv /\ [Next]_vars => PublicInv'
  BY PublicStep
<1> QED  BY <1>1, <1>2, InitPublic, PTL DEF Spec

-----------------------------------------------------------------------------
(* What a version stands for *)

EvidenceOf(version) ==
  IF version.evidence = None THEN {} ELSE version.evidence.stores

\* The answer made from the components a version names, and the stores of its
\* publication of reviews.
AnswerOf(version, reviewed, query) ==
  [status |-> IF query = "menu" /\ ~version.fts THEN "PARTIAL" ELSE "COMPLETE",
   items |-> IF query = "all" THEN DOMAIN version.catalog
             ELSE DOMAIN version.catalog
                    \cap (EvidenceOf(version)
                            \cup (IF version.fts THEN reviewed ELSE {}))]

DetailOf(version, reviewed, i) ==
  [id |-> i, menu |-> i \in EvidenceOf(version),
   reviewed |-> IF version.review = 0 THEN "UNAVAILABLE"
                ELSE IF i \in reviewed THEN "AVAILABLE" ELSE "NONE"]

ClientRecord(c) ==
  c = [version |-> c.version, query |-> c.query, answer |-> c.answer,
       opened |-> c.opened]

\* The map that is shown was made from its version; the stores of a
\* publication of reviews are known as long as there is no newer one.
MapOfVersion ==
  client # None =>
    /\ ClientRecord(client)
    /\ client.version.review \in 0..review.version
    /\ client.version.review = review.version =>
         /\ client.answer =
              AnswerOf(client.version, review.stores, client.query)
         /\ client.opened # None =>
              client.opened =
                DetailOf(client.version, review.stores, client.opened.id)

SearchInv == EvidenceInv /\ review.version \in Nat /\ MapOfVersion

\* The answers of the server depend on nothing else.
LEMMA AnswerFromVersion ==
  /\ DOMAIN dataVersion.catalog = PublicStores
  /\ EvidenceOf(dataVersion) = EvidenceStores
  /\ dataVersion.review = review.version
  /\ dataVersion.fts = hasConsistentFts
  /\ \A query : executeStoreSearch(query) =
                  AnswerOf(dataVersion, review.stores, query)
  /\ \A i : readStoreDetail(i) = DetailOf(dataVersion, review.stores, i)
<1>1. /\ DOMAIN dataVersion.catalog = PublicStores
      /\ dataVersion.evidence = evidencePublish
      /\ dataVersion.review = review.version
      /\ dataVersion.fts = hasConsistentFts
  BY DEF dataVersion, catalogChecksum
<1>2. EvidenceOf(dataVersion) = EvidenceStores
  BY <1>1 DEF EvidenceOf, EvidenceStores
<1>3. \A query : executeStoreSearch(query) =
                   AnswerOf(dataVersion, review.stores, query)
  BY <1>1, <1>2, Zenon DEF executeStoreSearch, AnswerOf, searchStoreEvidence
<1>4. \A i : readStoreDetail(i) = DetailOf(dataVersion, review.stores, i)
  BY <1>1, <1>2, Zenon DEF readStoreDetail, DetailOf
<1> QED  BY <1>1, <1>2, <1>3, <1>4

LEMMA AnsweredKeeps ==
  ASSUME SearchInv, UNCHANGED <<vars, review>>, NEW kind, NEW version,
         NEW query, Answered(kind, version, query)
  PROVE  SearchInv'
<1>1. EvidenceInv' /\ review.version \in Nat
  BY DEF SearchInv, EvidenceInv, ActiveEvidenceFits, vars
<1>2. MapOfVersion'
  <2>1. CASE client' = client
    BY <2>1 DEF SearchInv, MapOfVersion
  <2>2. CASE /\ version = dataVersion
             /\ client' = [version |-> version, query |-> query,
                           answer |-> executeStoreSearch(query),
                           opened |-> None]
    <3>1. /\ client'.version = dataVersion /\ client'.query = query
          /\ client'.answer = executeStoreSearch(query)
          /\ client'.opened = None /\ ClientRecord(client')
      BY <2>2 DEF ClientRecord
    <3>2. client'.version.review = review.version
      BY <3>1, AnswerFromVersion
    <3>3. client'.answer =
            AnswerOf(client'.version, review.stores, client'.query)
      BY <3>1, AnswerFromVersion, Zenon
    <3>4. review.version \in 0..review.version
      BY <1>1
    <3> QED  BY <3>1, <3>2, <3>3, <3>4 DEF MapOfVersion
  <2>3. loadSnapshot(version) = "OK" => version = dataVersion
    BY DEF loadSnapshot
  <2> QED  BY <2>1, <2>2, <2>3 DEF Answered
<1> QED  BY <1>1, <1>2 DEF SearchInv

LEMMA DetailKeeps ==
  ASSUME SearchInv, NEW i, Detail(i)
  PROVE  SearchInv'
<1>1. EvidenceInv' /\ review.version \in Nat /\ review' = review
  BY DEF SearchInv, EvidenceInv, ActiveEvidenceFits, vars, Detail
<1>2. MapOfVersion'
  <2>1. CASE client' = client
    BY <1>1, <2>1 DEF SearchInv, MapOfVersion
  <2>2. CASE /\ client # None /\ client.version = dataVersion
             /\ client' = [client EXCEPT !.opened = readStoreDetail(i)]
    <3>1. /\ ClientRecord(client)
          /\ client.version.review \in 0..review.version
          /\ client.version.review = review.version =>
               client.answer =
                 AnswerOf(client.version, review.stores, client.query)
      BY <2>2 DEF SearchInv, MapOfVersion
    <3>2. client' = [version |-> client.version, query |-> client.query,
                     answer |-> client.answer, opened |-> readStoreDetail(i)]
      BY <2>2, <3>1 DEF ClientRecord
    <3>3. /\ client'.version = client.version /\ client'.query = client.query
          /\ client'.answer = client.answer
          /\ client'.opened = readStoreDetail(i) /\ ClientRecord(client')
      BY <3>2 DEF ClientRecord
    <3>4. readStoreDetail(i).id = i
      BY DEF readStoreDetail
    <3>5. client'.opened =
            DetailOf(client'.version, review.stores, client'.opened.id)
      BY <2>2, <3>3, <3>4, AnswerFromVersion, Zenon
    <3> QED  BY <1>1, <3>1, <3>3, <3>5 DEF MapOfVersion
  <2>3. loadSnapshot(client.version) = "OK" => client.version = dataVersion
    BY DEF loadSnapshot
  <2>4. Detail(i) => \/ client' = client
                     \/ /\ loadSnapshot(client.version) = "OK" /\ client # None
                        /\ client' =
                             [client EXCEPT !.opened = readStoreDetail(i)]
    BY DEF Detail
  <2> QED  BY <2>1, <2>2, <2>3, <2>4
<1> QED  BY <1>1, <1>2 DEF SearchInv

LEMMA ReviewsKeep ==
  ASSUME SearchInv, NEW ids, PublishReviews(ids)
  PROVE  SearchInv'
<1>1. /\ EvidenceInv' /\ review.version \in Nat /\ client' = client
      /\ review'.version = review.version + 1
  BY DEF SearchInv, EvidenceInv, ActiveEvidenceFits, vars, PublishReviews
<1>2. MapOfVersion'
  BY <1>1 DEF SearchInv, MapOfVersion
<1> QED  BY <1>1, <1>2 DEF SearchInv

LEMMA SearchStep ==
  ASSUME SearchInv, [SearchNext]_<<vars, searchVars>>
  PROVE  SearchInv'
<1>1. ASSUME EvidenceInv', UNCHANGED <<review, client>> PROVE SearchInv'
  BY <1>1 DEF SearchInv, MapOfVersion
<1>2. UNCHANGED vars => EvidenceInv'
  BY DEF SearchInv, EvidenceInv, ActiveEvidenceFits, vars
<1>3. CASE Publication
  BY <1>1, <1>3, EvidenceStep DEF Publication, SearchInv
<1>4. CASE resolveCurrentDataVersion \/ NextDay
  BY <1>1, <1>2, <1>4 DEF resolveCurrentDataVersion, NextDay
<1>5. ASSUME NEW q \in Query, Bootstrap(q) \/ Search(q) PROVE SearchInv'
  BY <1>5, AnsweredKeeps DEF Bootstrap, Search
<1>6. CASE UNCHANGED <<vars, searchVars>>
  BY <1>1, <1>2, <1>6 DEF searchVars
<1> QED
  BY <1>3, <1>4, <1>5, <1>6, DetailKeeps, ReviewsKeep DEF SearchNext

LEMMA SearchInvariant == SearchSpec => []SearchInv
<1>1. SearchInit => SearchInv
  BY InitEvidence DEF SearchInit, SearchInv, MapOfVersion
<1> QED  BY <1>1, SearchStep, PTL DEF SearchSpec

\* For any register, evidence, reviews and number of workers: as long as the
\* version of the map that a client shows is the current one, the same search
\* gives the same answer, what is on the map can be opened, and the store that
\* is open is still shown as it is.
THEOREM VersionIsOneAnswer == SearchSpec => []SameVersionSameAnswer
<1>1. SearchInv => SameVersionSameAnswer
  <2> SUFFICES ASSUME SearchInv, client # None, client.version = dataVersion
               PROVE  /\ client.answer = executeStoreSearch(client.query)
                      /\ client.answer.items
                           \subseteq executeStoreSearch("all").items
                      /\ client.opened # None =>
                           client.opened = readStoreDetail(client.opened.id)
    BY DEF SameVersionSameAnswer
  <2>1. client.version.review = review.version
    BY AnswerFromVersion
  <2>2. client.answer = executeStoreSearch(client.query)
    BY <2>1, AnswerFromVersion, Zenon DEF SearchInv, MapOfVersion
  <2>3. client.opened # None =>
          client.opened = readStoreDetail(client.opened.id)
    BY <2>1, AnswerFromVersion, Zenon DEF SearchInv, MapOfVersion
  <2>4. executeStoreSearch(client.query).items
          \subseteq executeStoreSearch("all").items
    BY DEF executeStoreSearch
  <2> QED  BY <2>2, <2>3, <2>4
<1> QED  BY <1>1, SearchInvariant, PTL

\* No order of publications makes a fresh catalog unavailable: the evidence in
\* use is always about stores that the search may show.
THEOREM FreshCatalogAnswers == SearchSpec => []SearchAnswers
<1>1. SearchInv => SearchAnswers
  <2> SUFFICES ASSUME SearchInv PROVE EvidenceStores \subseteq PublicStores
    BY DEF SearchAnswers, loadSnapshot, loadComponents, loadCandidates
  <2>1. CASE \E b \in Batch : batch[b] = "ACTIVE" /\ b.publish = active
    <3>1. /\ evidencePublish \in Batch /\ batch[evidencePublish] = "ACTIVE"
      BY <2>1 DEF evidencePublish
    <3>2. \A i \in evidencePublish.stores :
            IsPublic(store, bakery, link, i, active)
      BY <3>1 DEF SearchInv, EvidenceInv, ActiveEvidenceFits
    <3>3. \A i \in evidencePublish.stores : i \in DOMAIN store
      BY <3>2 DEF IsPublic
    <3> QED  BY <3>2, <3>3 DEF EvidenceStores, PublicStores
  <2>2. CASE ~\E b \in Batch : batch[b] = "ACTIVE" /\ b.publish = active
    BY <2>2 DEF EvidenceStores, evidencePublish
  <2> QED  BY <2>1, <2>2
<1> QED  BY <1>1, SearchInvariant, PTL

\* An answer that is said to be complete misses no public store that has the
\* menu on its list or in a published review.
THEOREM CompleteIsComplete == SearchSpec => []CompleteMissesNothing
<1>1. SearchInv => CompleteMissesNothing
  <2> SUFFICES ASSUME SearchInv, client # None,
                      client.version = dataVersion, client.query = "menu",
                      client.answer.status = "COMPLETE"
               PROVE  PublicStores \cap (EvidenceStores \cup review.stores)
                        \subseteq client.answer.items
    BY DEF CompleteMissesNothing
  <2>1. client.version.review = review.version
    BY AnswerFromVersion
  <2>2. client.answer = executeStoreSearch("menu")
    BY <2>1, AnswerFromVersion, Zenon DEF SearchInv, MapOfVersion
  <2>3. hasConsistentFts
    BY <2>2 DEF executeStoreSearch
  <2> QED  BY <2>2, <2>3 DEF executeStoreSearch, searchStoreEvidence
<1> QED  BY <1>1, SearchInvariant, PTL
=============================================================================
