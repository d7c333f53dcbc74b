------------------------ MODULE ReviewPublishProofs -------------------------
(* Retention: it deletes what it counted, no more and nothing before its     *)
(* day, for any number of runs, discoveries, stores and reviews, and any two *)
(* retention times.                                                          *)
(*                                                                           *)
(* Publication: the published corpus is one dated corpus of public stores,   *)
(* for any number of publishers, runs and reviews, whatever the catalog      *)
(* hides, the collector writes and the purge deletes meanwhile.              *)
EXTENDS ReviewPublish, FiniteSetTheorems, TLAPS

-----------------------------------------------------------------------------
(* Retention *)

\* How to reach a place is never kept longer than the place itself.
LocatorsHeld == \A p \in Place : locator[p] <= observation[p]

\* What was counted covers what the transaction will find.
CountCovers ==
  purge.pc = "counted" =>
    purge.at <= now /\ CandidateCount(purge.at) <= purge.attempted

PurgeInv == TypeOK /\ LocatorsHeld /\ CountCovers

-----------------------------------------------------------------------------
(* Types *)

LEMMA ConstantsTyped ==
  ASSUME PurgeAssumption
  PROVE  /\ LastDay \in Nat \ {0} /\ AuditDays \in Nat /\ RawDays \in Nat
         /\ 1 <= RawDays /\ RawDays <= AuditDays
         /\ NoRow \in Expiry /\ NoRow = 0
         /\ \A t \in 0..LastDay : t + AuditDays \in Expiry
         /\ \A t \in 0..LastDay : t + RawDays \in Expiry
         /\ Expiry \subseteq Nat
BY DEF PurgeAssumption, NoRow, Expiry

LEMMA RowsTyped ==
  ASSUME PurgeAssumption
  PROVE  NoRunRow \in RunRow /\ NoRaw \in RawRow /\ NoAudit \in AuditRow
BY ConstantsTyped DEF NoRunRow, RunRow, Statuses, NoRaw, RawRow, NoAudit, AuditRow

LEMMA InitPurgeTyped ==
  ASSUME PurgeAssumption, RawInit
  PROVE  TypeOK
<1>1. now \in 0..LastDay
  BY ConstantsTyped DEF RawInit
<1>2. purge \in Purger
  BY ConstantsTyped DEF RawInit, Purger
<1> QED
  BY <1>1, <1>2, ConstantsTyped, RowsTyped DEF RawInit, TypeOK, Empty

LEMMA WithoutTyped ==
  ASSUME PurgeAssumption, NEW Key, NEW Table \in [Key -> Expiry], NEW Ks
  PROVE  /\ Without(Table, Ks) \in [Key -> Expiry]
         /\ \A k \in Key : Without(Table, Ks)[k]
                             = IF k \in Ks THEN NoRow ELSE Table[k]
BY ConstantsTyped DEF Without

LEMMA NextDayTyped ==
  ASSUME PurgeAssumption, TypeOK, NextDay
  PROVE  TypeOK'
<1>1. now' \in 0..LastDay
  BY ConstantsTyped DEF TypeOK, NextDay
<1> QED  BY <1>1 DEF TypeOK, NextDay, tables

LEMMA DiscoverTyped ==
  ASSUME PurgeAssumption, TypeOK, NEW d \in Discovery, NEW s \in Store,
         Discover(d, s)
  PROVE  TypeOK'
<1>1. now + AuditDays \in Expiry /\ now + RawDays \in Expiry
  BY ConstantsTyped DEF TypeOK
<1>2. <<d, s>> \in Place
  BY DEF Place
<1>3. /\ discovery' \in [Discovery -> Expiry]
      /\ observation' \in [Place -> Expiry] /\ locator' \in [Place -> Expiry]
  BY <1>1, <1>2 DEF TypeOK, Discover
<1> QED  BY <1>3 DEF TypeOK, Discover

LEMMA RunTyped ==
  ASSUME PurgeAssumption, TypeOK, NEW r \in Run,
         \/ StartRun(r) \/ FinishRun(r)
         \/ \E v \in Review : Collect(r, v)
         \/ \E s \in Store : Reject(r, s)
  PROVE  TypeOK'
<1>1. now + AuditDays \in Expiry /\ now + RawDays \in Expiry
  BY ConstantsTyped DEF TypeOK
<1>2. CASE StartRun(r)
  <2>1. [status |-> "RUNNING", asOf |-> now, counted |-> {},
         until |-> now + AuditDays] \in RunRow
    BY <1>1 DEF RunRow, Statuses, TypeOK
  <2>2. run' \in [Run -> RunRow]
    BY <1>2, <2>1 DEF TypeOK, StartRun
  <2>3. checkpoint' \in [Step -> Expiry]
    BY <1>1, <1>2 DEF TypeOK, StartRun
  <2> QED  BY <1>2, <2>2, <2>3 DEF TypeOK, StartRun
<1>3. CASE FinishRun(r)
  <2>1. PICK st \in {"SUCCEEDED", "PARTIAL"} : run' = [run EXCEPT ![r].status = st]
    BY <1>3 DEF FinishRun
  <2>2. run' \in [Run -> RunRow]
    BY <2>1 DEF TypeOK, RunRow, Statuses
  <2>3. sync' \in [Store -> Expiry]
    BY <1>1, <1>3 DEF TypeOK, FinishRun
  <2>4. locator' \in [Place -> Expiry]
    BY <1>3, WithoutTyped DEF TypeOK, FinishRun
  <2> QED  BY <1>3, <2>2, <2>3, <2>4 DEF TypeOK, FinishRun
<1>4. ASSUME NEW v \in Review, Collect(r, v) PROVE TypeOK'
  <2>1. PICK counts \in BOOLEAN :
          run' = [run EXCEPT ![r].counted = IF counts THEN @ \cup {v} ELSE @]
    BY <1>4 DEF Collect
  <2>2. run' \in [Run -> RunRow]
    BY <2>1 DEF TypeOK, RunRow
  <2>3. [run |-> r, until |-> now + RawDays] \in RawRow
    BY <1>1 DEF RawRow
  <2>4. raw' \in [Review -> RawRow]
    BY <1>4, <2>3 DEF TypeOK, Collect
  <2>5. <<r, StoreOf[v]>> \in Step
    BY DEF PurgeAssumption, Step
  <2>6. seen' \in [Review -> Expiry] /\ checkpoint' \in [Step -> Expiry]
    BY <1>1, <1>4, <2>5 DEF TypeOK, Collect
  <2> QED  BY <1>4, <2>2, <2>4, <2>6 DEF TypeOK, Collect
<1>5. ASSUME NEW s \in Store, Reject(r, s) PROVE TypeOK'
  <2>1. <<r, s>> \in Step
    BY DEF Step
  <2>2. failure' \in [Step -> Expiry]
    BY <1>1, <1>5, <2>1 DEF TypeOK, Reject
  <2> QED  BY <1>5, <2>2 DEF TypeOK, Reject
<1> QED  BY <1>2, <1>3, <1>4, <1>5

LEMMA WritersTyped ==
  ASSUME PurgeAssumption, TypeOK, Writers
  PROVE  TypeOK'
BY NextDayTyped, DiscoverTyped, RunTyped DEF Writers

-----------------------------------------------------------------------------
(* Counts *)

LEMMA KeysFinite ==
  ASSUME PurgeAssumption
  PROVE  /\ IsFiniteSet(Review) /\ IsFiniteSet(Store) /\ IsFiniteSet(Run)
         /\ IsFiniteSet(Discovery) /\ IsFiniteSet(DeleteRun)
         /\ IsFiniteSet(Place) /\ IsFiniteSet(Step)
<1>1. /\ IsFiniteSet(Review) /\ IsFiniteSet(Store) /\ IsFiniteSet(Run)
      /\ IsFiniteSet(Discovery) /\ IsFiniteSet(DeleteRun)
  BY DEF PurgeAssumption
<1>2. IsFiniteSet(Discovery \X Store) /\ IsFiniteSet(Run \X Store)
  BY <1>1, FS_Product
<1> QED  BY <1>1, <1>2 DEF Place, Step

\* Of a table with finitely many keys, what is past its day can be counted.
LEMMA PastFinite ==
  ASSUME NEW Table, IsFiniteSet(DOMAIN Table), NEW t, NEW S,
         S \subseteq Past(Table, t)
  PROVE  /\ IsFiniteSet(S) /\ IsFiniteSet(Past(Table, t))
         /\ Cardinality(S) \in Nat /\ Cardinality(Past(Table, t)) \in Nat
         /\ Cardinality(S) <= Cardinality(Past(Table, t))
<1>1. Past(Table, t) \subseteq DOMAIN Table
  BY DEF Past, Live
<1>2. IsFiniteSet(Past(Table, t))
  BY <1>1, FS_Subset
<1> QED  BY <1>2, FS_Subset, FS_CardinalityType

LEMMA TablesFinite ==
  ASSUME PurgeAssumption, TypeOK
  PROVE  /\ IsFiniteSet(DOMAIN RawUntil) /\ IsFiniteSet(DOMAIN RunUntil)
         /\ IsFiniteSet(DOMAIN AuditUntil) /\ IsFiniteSet(DOMAIN locator)
         /\ IsFiniteSet(DOMAIN seen) /\ IsFiniteSet(DOMAIN sync)
         /\ IsFiniteSet(DOMAIN failure) /\ IsFiniteSet(DOMAIN checkpoint)
         /\ IsFiniteSet(DOMAIN observation)
         /\ IsFiniteSet(DOMAIN discovery)
<1>1. /\ DOMAIN RawUntil = Review /\ DOMAIN RunUntil = Run
      /\ DOMAIN AuditUntil = DeleteRun
  BY DEF RawUntil, RunUntil, AuditUntil
<1>2. /\ DOMAIN locator = Place /\ DOMAIN observation = Place
      /\ DOMAIN seen = Review /\ DOMAIN sync = Store
      /\ DOMAIN failure = Step /\ DOMAIN checkpoint = Step
      /\ DOMAIN discovery = Discovery
  BY DEF TypeOK
<1> QED  BY <1>1, <1>2, KeysFinite

LEMMA ChildrenCounted ==
  ASSUME PurgeAssumption, TypeOK, NEW t
  PROVE  Size(Children(t)) \in Nat
<1>1. /\ Cardinality(Past(RawUntil, t)) \in Nat
      /\ Cardinality(Past(locator, t)) \in Nat
      /\ Cardinality(Past(seen, t)) \in Nat
      /\ Cardinality(Past(sync, t)) \in Nat
      /\ Cardinality(Past(failure, t)) \in Nat
      /\ Cardinality(Past(checkpoint, t)) \in Nat
  BY TablesFinite, PastFinite
<1> QED  BY <1>1 DEF Size, Children

\* The statements take at most what was counted for them.
LEMMA DeletesWhatCounts ==
  ASSUME PurgeAssumption, TypeOK, NEW t, NEW x
  PROVE  /\ CandidateCount(t) \in Nat /\ DeletedCount(t, x) \in Nat
         /\ DeletedCount(t, x) <= CandidateCount(t)
<1> DEFINE og == Cardinality(ObservationGone(t))
           rp == Cardinality(Past(RunUntil, t))
           rg == Cardinality(RunGone(t))
           dp == Cardinality(Past(discovery, t))
           dg == Cardinality(DiscoveryGone(t))
           ap == Cardinality(Past(AuditUntil, t))
           ag == Cardinality(AuditGone(t, x))
           n == Size(Children(t))
<1>1. n \in Nat
  BY ChildrenCounted
<1>2. og \in Nat
  BY TablesFinite, PastFinite DEF ObservationGone
<1>3. rp \in Nat /\ rg \in Nat /\ rg <= rp
  BY TablesFinite, PastFinite DEF RunGone
<1>4. dp \in Nat /\ dg \in Nat /\ dg <= dp
  BY TablesFinite, PastFinite DEF DiscoveryGone
<1>5. ap \in Nat /\ ag \in Nat /\ ag <= ap
  BY TablesFinite, PastFinite DEF AuditGone
<1>6. /\ CandidateCount(t) = n + og + rp + dp + ap
      /\ DeletedCount(t, x) = n + og + rg + dg + ag
  BY DEF CandidateCount, DeletedCount
<1> HIDE DEF n, og, rp, rg, dp, dg, ap, ag
<1> QED  BY <1>1, <1>2, <1>3, <1>4, <1>5, <1>6

LEMMA PurgeTyped ==
  ASSUME PurgeAssumption, PurgeInv, Purging
  PROVE  TypeOK'
<1> USE DEF tables
<1>1. TypeOK
  BY DEF PurgeInv
<1>2. ASSUME NEW x \in DeleteRun, PurgeCount(x) PROVE TypeOK'
  <2>1. CandidateCount(now) \in Nat
    BY <1>1, DeletesWhatCounts
  <2>2. purge' \in Purger
    BY <1>1, <1>2, <2>1 DEF PurgeCount, TypeOK, Purger
  <2> QED  BY <1>1, <1>2, <2>2 DEF PurgeCount, TypeOK
<1>3. purge.id \in DeleteRun /\ purge.attempted \in Nat
      /\ purge.at \in 0..LastDay /\ purge \in Purger
  BY <1>1 DEF TypeOK, Purger
<1>4. purge.at + AuditDays \in Expiry
  BY <1>3, ConstantsTyped
<1>5. [purge EXCEPT !.pc = "idle"] \in Purger
  BY <1>3 DEF Purger
<1>6. CASE PurgeDelete
  <2> DEFINE t == purge.at
             x == purge.id
             c == Children(t)
             dead == ObservationGone(t) \cup (DiscoveryGone(t) \X Store)
             done == [status |-> "SUCCEEDED", attempted |-> purge.attempted,
                      deleted |-> DeletedCount(t, x), failed |-> 0,
                      until |-> t + AuditDays]
  <2>1. raw' \in [Review -> RawRow] /\ run' \in [Run -> RunRow]
    BY <1>1, <1>6, RowsTyped DEF PurgeDelete, TypeOK
  <2>2. /\ locator' = Without(locator, c.locator \cup dead)
        /\ seen' = Without(seen, c.seen) /\ sync' = Without(sync, c.sync)
        /\ failure' = Without(failure, c.failure \cup (RunGone(t) \X Store))
        /\ checkpoint' = Without(checkpoint,
                                 c.checkpoint \cup (RunGone(t) \X Store))
        /\ observation' = Without(observation, dead)
        /\ discovery' = Without(discovery, DiscoveryGone(t))
    BY <1>6 DEF PurgeDelete
  <2> HIDE DEF dead, c
  <2>3. /\ locator' \in [Place -> Expiry] /\ observation' \in [Place -> Expiry]
        /\ discovery' \in [Discovery -> Expiry]
    BY <1>1, <2>2, WithoutTyped DEF TypeOK
  <2>4. /\ seen' \in [Review -> Expiry] /\ sync' \in [Store -> Expiry]
        /\ failure' \in [Step -> Expiry] /\ checkpoint' \in [Step -> Expiry]
    BY <1>1, <2>2, WithoutTyped DEF TypeOK
  <2>5. done \in AuditRow
    BY <1>1, <1>3, <1>4, DeletesWhatCounts DEF AuditRow
  <2>6. audit' = [y \in DeleteRun |-> CASE y = x -> done
                                        [] y \in AuditGone(t, x) -> NoAudit
                                        [] OTHER -> audit[y]]
    BY <1>6 DEF PurgeDelete
  <2> HIDE DEF done, t, x
  <2>7. audit' \in [DeleteRun -> AuditRow]
    <3>1. \A y \in DeleteRun : audit[y] \in AuditRow
      BY <1>1 DEF TypeOK
    <3>2. \A y \in DeleteRun : (CASE y = x -> done
                                  [] y \in AuditGone(t, x) -> NoAudit
                                  [] OTHER -> audit[y]) \in AuditRow
      BY <2>5, <3>1, RowsTyped
    <3> QED  BY <2>6, <3>2
  <2>8. /\ now' = now /\ killSwitch' = killSwitch /\ purge' \in Purger
    BY <1>5, <1>6 DEF PurgeDelete
  <2> QED  BY <1>1, <2>1, <2>3, <2>4, <2>7, <2>8 DEF TypeOK
<1>7. CASE PurgeFails
  <2> DEFINE x == purge.id
             failed == [status |-> "FAILED", attempted |-> purge.attempted,
                        deleted |-> 0, failed |-> purge.attempted,
                        until |-> purge.at + AuditDays]
  <2>1. failed \in AuditRow
    BY <1>3, <1>4 DEF AuditRow
  <2>2. audit' \in {audit, [audit EXCEPT ![x] = failed]}
    BY <1>7 DEF PurgeFails
  <2>3. audit' \in [DeleteRun -> AuditRow]
    BY <1>1, <1>3, <2>1, <2>2 DEF TypeOK
  <2> QED  BY <1>1, <1>5, <1>7, <2>3 DEF PurgeFails, TypeOK
<1> QED  BY <1>2, <1>6, <1>7 DEF Purging

-----------------------------------------------------------------------------
(* While the purge waits between its count and its transaction, the others   *)
(* write rows that expire later, and so only take away from what it counted. *)

\* Nobody who writes a row lets it expire on the day it is written.
LEMMA LaterDays ==
  ASSUME PurgeAssumption, TypeOK, NEW t \in 0..LastDay, t <= now
  PROVE  /\ now + AuditDays # NoRow /\ ~(now + AuditDays <= t)
         /\ now + RawDays # NoRow /\ ~(now + RawDays <= t)
BY ConstantsTyped DEF TypeOK, NoRow

\* In every table a writer keeps a row as it is, gives it a later day or
\* takes it away.
Older(Key, Before, After, t) ==
  \A k \in Key : After[k] \in {Before[k], NoRow} \/ ~(After[k] <= t)

LEMMA OlderPast ==
  ASSUME NEW Key, NEW Before, NEW After, DOMAIN Before = Key,
         DOMAIN After = Key, NEW t, Older(Key, Before, After, t)
  PROVE  Past(After, t) \subseteq Past(Before, t)
BY DEF Past, Live, Older

LEMMA WritersOlder ==
  ASSUME PurgeAssumption, TypeOK, Writers, NEW t \in 0..LastDay, t <= now
  PROVE  /\ Older(Review, RawUntil, RawUntil', t)
         /\ Older(Run, RunUntil, RunUntil', t)
         /\ Older(Place, locator, locator', t)
         /\ Older(Place, observation, observation', t)
         /\ Older(Discovery, discovery, discovery', t)
         /\ Older(Review, seen, seen', t) /\ Older(Store, sync, sync', t)
         /\ Older(Step, failure, failure', t)
         /\ Older(Step, checkpoint, checkpoint', t)
<1> USE DEF Older, RawUntil, RunUntil
<1>1. CASE NextDay
  BY <1>1 DEF NextDay, tables
<1>2. ASSUME NEW d \in Discovery, NEW s \in Store, Discover(d, s)
      PROVE  /\ Older(Place, locator, locator', t)
             /\ Older(Place, observation, observation', t)
             /\ Older(Discovery, discovery, discovery', t)
             /\ UNCHANGED <<raw, run, seen, sync, failure, checkpoint>>
  BY <1>2, LaterDays DEF Discover, TypeOK
<1>3. ASSUME NEW r \in Run, StartRun(r)
      PROVE  /\ Older(Run, RunUntil, RunUntil', t)
             /\ Older(Step, checkpoint, checkpoint', t)
             /\ UNCHANGED <<raw, locator, observation, discovery, seen, sync,
                            failure>>
  <2>1. Older(Step, checkpoint, checkpoint', t)
    BY <1>3, LaterDays DEF StartRun, TypeOK
  <2>2. \A q \in Run : run'[q].until \in {run[q].until, now + AuditDays}
    BY <1>3 DEF StartRun, TypeOK
  <2> QED  BY <1>3, <2>1, <2>2, LaterDays DEF StartRun
<1>4. ASSUME NEW r \in Run, FinishRun(r)
      PROVE  /\ Older(Run, RunUntil, RunUntil', t)
             /\ Older(Store, sync, sync', t)
             /\ Older(Place, locator, locator', t)
             /\ UNCHANGED <<raw, observation, discovery, seen, failure,
                            checkpoint>>
  <2>1. PICK st \in {"SUCCEEDED", "PARTIAL"} :
          run' = [run EXCEPT ![r].status = st]
    BY <1>4 DEF FinishRun
  <2>2. \A q \in Run : run'[q].until = run[q].until
    BY <2>1 DEF TypeOK, RunRow
  <2>3. Older(Store, sync, sync', t)
    BY <1>4, LaterDays DEF FinishRun, TypeOK
  <2>4. Older(Place, locator, locator', t)
    BY <1>4, WithoutTyped DEF FinishRun, TypeOK
  <2> QED  BY <1>4, <2>2, <2>3, <2>4 DEF FinishRun
<1>5. ASSUME NEW r \in Run, NEW v \in Review, Collect(r, v)
      PROVE  /\ Older(Review, RawUntil, RawUntil', t)
             /\ Older(Run, RunUntil, RunUntil', t)
             /\ Older(Review, seen, seen', t)
             /\ Older(Step, checkpoint, checkpoint', t)
             /\ UNCHANGED <<locator, observation, discovery, sync, failure>>
  <2>1. PICK counts \in BOOLEAN :
          run' = [run EXCEPT ![r].counted = IF counts THEN @ \cup {v} ELSE @]
    BY <1>5 DEF Collect
  <2>2. \A q \in Run : run'[q].until = run[q].until
    BY <2>1 DEF TypeOK, RunRow
  <2>3. \A x \in Review : raw'[x].until \in {raw[x].until, now + RawDays}
    BY <1>5 DEF Collect, TypeOK
  <2>4. Older(Review, seen, seen', t) /\ Older(Step, checkpoint, checkpoint', t)
    BY <1>5, LaterDays DEF Collect, TypeOK
  <2> QED  BY <1>5, <2>2, <2>3, <2>4, LaterDays DEF Collect
<1>6. ASSUME NEW r \in Run, NEW s \in Store, Reject(r, s)
      PROVE  /\ Older(Step, failure, failure', t)
             /\ UNCHANGED <<raw, run, locator, observation, discovery, seen,
                            sync, checkpoint>>
  BY <1>6, LaterDays DEF Reject, TypeOK
<1> QED
  BY <1>1, <1>2, <1>3, <1>4, <1>5, <1>6 DEF Writers

\* A row that is not past its day is not taken away, but for locators.
LEMMA WritersKeep ==
  ASSUME PurgeAssumption, TypeOK, Writers, NEW t \in 0..LastDay, t <= now
  PROVE  /\ \A v \in RawLeft(t) : v \in RawLeft(t)' /\ raw'[v] = raw[v]
         /\ CheckpointLeft(t) \subseteq CheckpointLeft(t)'
         /\ FailureLeft(t) \subseteq FailureLeft(t)'
<1> USE DEF Live, Past
<1>1. /\ DOMAIN checkpoint = Step /\ DOMAIN checkpoint' = Step
      /\ DOMAIN failure = Step /\ DOMAIN failure' = Step
  BY WritersTyped DEF TypeOK
<1>2. \A v \in Review : raw[v] # NoRaw => raw'[v] = raw[v]
  BY DEF Writers, NextDay, tables, Discover, StartRun, FinishRun, Collect,
         Reject, TypeOK
<1>3. \A v \in RawLeft(t) : v \in RawLeft(t)' /\ raw'[v] = raw[v]
  BY <1>2 DEF RawLeft, RawUntil, NoRaw
<1>4. \A k \in Step : checkpoint'[k] \in {checkpoint[k], now + AuditDays}
  BY DEF Writers, NextDay, tables, Discover, StartRun, FinishRun, Collect,
         Reject, TypeOK
<1>5. CheckpointLeft(t) \subseteq CheckpointLeft(t)'
  BY <1>1, <1>4, LaterDays DEF CheckpointLeft
<1>6. \A k \in Step : failure'[k] \in {failure[k], now + AuditDays}
  BY DEF Writers, NextDay, tables, Discover, StartRun, FinishRun, Collect,
         Reject, TypeOK
<1>7. FailureLeft(t) \subseteq FailureLeft(t)'
  BY <1>1, <1>6, LaterDays DEF FailureLeft
<1> QED  BY <1>3, <1>5, <1>7

\* A place that nothing held is held by nothing the writers left or added: a
\* locator that a finished run drops held no place that was past its day.
LEMMA WritersFreeNoPlace ==
  ASSUME PurgeAssumption, PurgeInv, Writers, NEW t \in 0..LastDay, t <= now
  PROVE  ObservationGone(t)' \subseteq ObservationGone(t)
<1> SUFFICES ASSUME NEW p \in ObservationGone(t)'
             PROVE  p \in ObservationGone(t)
  OBVIOUS
<1>1. TypeOK
  BY DEF PurgeInv
<1>2. p \in Past(observation, t)
  <2>1. DOMAIN observation = Place /\ DOMAIN observation' = Place
    BY <1>1, WritersTyped DEF TypeOK
  <2>2. Past(observation', t) \subseteq Past(observation, t)
    BY <1>1, <2>1, WritersOlder, OlderPast
  <2> QED  BY <2>2 DEF ObservationGone
<1>3. \A v \in RawLeft(t) : PlaceOfRaw(v) # p
  BY <1>1, WritersKeep DEF ObservationGone, NeededPlaces, PlaceOfRaw
<1>4. \A k \in CheckpointLeft(t) \cup FailureLeft(t) : PlaceOfStep(k) # p
  BY <1>1, WritersKeep DEF ObservationGone, NeededPlaces, PlaceOfStep
<1>5. p \notin LocatorLeft(t)
  <2>1. /\ p \in Place /\ observation[p] <= t /\ locator[p] <= observation[p]
        /\ locator[p] \in Nat /\ observation[p] \in Nat
    BY <1>1, <1>2, ConstantsTyped
    DEF PurgeInv, LocatorsHeld, TypeOK, Past, Live
  <2>2. locator[p] <= t
    BY <2>1
  <2> QED  BY <2>2 DEF LocatorLeft, Past
<1> QED  BY <1>2, <1>3, <1>4, <1>5 DEF ObservationGone, NeededPlaces

LEMMA WritersCountLess ==
  ASSUME PurgeAssumption, PurgeInv, Writers, NEW t \in 0..LastDay, t <= now
  PROVE  /\ CandidateCount(t)' \in Nat
         /\ CandidateCount(t)' <= CandidateCount(t)
<1>1. TypeOK /\ TypeOK'
  BY WritersTyped DEF PurgeInv
<1>2. /\ DOMAIN RawUntil = Review /\ DOMAIN RawUntil' = Review
      /\ DOMAIN RunUntil = Run /\ DOMAIN RunUntil' = Run
      /\ DOMAIN locator = Place /\ DOMAIN locator' = Place
      /\ DOMAIN seen = Review /\ DOMAIN seen' = Review
      /\ DOMAIN sync = Store /\ DOMAIN sync' = Store
      /\ DOMAIN failure = Step /\ DOMAIN failure' = Step
      /\ DOMAIN checkpoint = Step /\ DOMAIN checkpoint' = Step
      /\ DOMAIN discovery = Discovery /\ DOMAIN discovery' = Discovery
  BY <1>1 DEF RawUntil, RunUntil, TypeOK
<1>3. /\ Past(RawUntil', t) \subseteq Past(RawUntil, t)
      /\ Past(RunUntil', t) \subseteq Past(RunUntil, t)
      /\ Past(locator', t) \subseteq Past(locator, t)
      /\ Past(seen', t) \subseteq Past(seen, t)
      /\ Past(sync', t) \subseteq Past(sync, t)
      /\ Past(failure', t) \subseteq Past(failure, t)
      /\ Past(checkpoint', t) \subseteq Past(checkpoint, t)
      /\ Past(discovery', t) \subseteq Past(discovery, t)
  BY <1>1, <1>2, WritersOlder, OlderPast
<1>4. AuditUntil' = AuditUntil
  BY DEF Writers, NextDay, Discover, StartRun, FinishRun, Collect, Reject,
         AuditUntil
<1>5. Size(Children(t))' <= Size(Children(t))
  <2>1. /\ IsFiniteSet(DOMAIN RawUntil) /\ IsFiniteSet(DOMAIN locator)
        /\ IsFiniteSet(DOMAIN seen) /\ IsFiniteSet(DOMAIN sync)
        /\ IsFiniteSet(DOMAIN failure) /\ IsFiniteSet(DOMAIN checkpoint)
    BY <1>1, TablesFinite
  <2> DEFINE a == Cardinality(Past(RawUntil, t))
             a1 == Cardinality(Past(RawUntil', t))
             b == Cardinality(Past(locator, t))
             b1 == Cardinality(Past(locator', t))
             c == Cardinality(Past(seen, t))
             c1 == Cardinality(Past(seen', t))
             d == Cardinality(Past(sync, t))
             d1 == Cardinality(Past(sync', t))
             e == Cardinality(Past(failure, t))
             e1 == Cardinality(Past(failure', t))
             f == Cardinality(Past(checkpoint, t))
             f1 == Cardinality(Past(checkpoint', t))
  <2>2. a \in Nat /\ a1 \in Nat /\ a1 <= a
    BY <1>3, <2>1, PastFinite
  <2>3. b \in Nat /\ b1 \in Nat /\ b1 <= b
    BY <1>3, <2>1, PastFinite
  <2>4. c \in Nat /\ c1 \in Nat /\ c1 <= c
    BY <1>3, <2>1, PastFinite
  <2>5. d \in Nat /\ d1 \in Nat /\ d1 <= d
    BY <1>3, <2>1, PastFinite
  <2>6. e \in Nat /\ e1 \in Nat /\ e1 <= e
    BY <1>3, <2>1, PastFinite
  <2>7. f \in Nat /\ f1 \in Nat /\ f1 <= f
    BY <1>3, <2>1, PastFinite
  <2>8. /\ Size(Children(t)) = a + b + c + d + e + f
        /\ Size(Children(t))' = a1 + b1 + c1 + d1 + e1 + f1
    BY DEF Size, Children
  <2> HIDE DEF a, b, c, d, e, f, a1, b1, c1, d1, e1, f1
  <2> QED  BY <2>2, <2>3, <2>4, <2>5, <2>6, <2>7, <2>8
<1>6. /\ IsFiniteSet(DOMAIN observation) /\ IsFiniteSet(DOMAIN RunUntil)
      /\ IsFiniteSet(DOMAIN discovery) /\ IsFiniteSet(DOMAIN AuditUntil)
  BY <1>1, TablesFinite
<1> DEFINE n == Size(Children(t))
           n1 == Size(Children(t))'
           g == Cardinality(ObservationGone(t))
           g1 == Cardinality(ObservationGone(t)')
           h == Cardinality(Past(RunUntil, t))
           h1 == Cardinality(Past(RunUntil', t))
           i == Cardinality(Past(discovery, t))
           i1 == Cardinality(Past(discovery', t))
           j == Cardinality(Past(AuditUntil, t))
<1>7. n \in Nat /\ n1 \in Nat /\ n1 <= n
  <2>1. n \in Nat
    BY <1>1, ChildrenCounted
  <2>2. n1 \in Nat
    <3>1. /\ IsFiniteSet(DOMAIN RawUntil') /\ IsFiniteSet(DOMAIN locator')
          /\ IsFiniteSet(DOMAIN seen') /\ IsFiniteSet(DOMAIN sync')
          /\ IsFiniteSet(DOMAIN failure') /\ IsFiniteSet(DOMAIN checkpoint')
      BY <1>2, KeysFinite
    <3>2. /\ Cardinality(Past(RawUntil', t)) \in Nat
          /\ Cardinality(Past(locator', t)) \in Nat
          /\ Cardinality(Past(seen', t)) \in Nat
          /\ Cardinality(Past(sync', t)) \in Nat
          /\ Cardinality(Past(failure', t)) \in Nat
          /\ Cardinality(Past(checkpoint', t)) \in Nat
      BY <3>1, PastFinite
    <3> QED  BY <3>2 DEF Size, Children
  <2> QED  BY <1>5, <2>1, <2>2
<1>8. g \in Nat /\ g1 \in Nat /\ g1 <= g
  <2>1. IsFiniteSet(ObservationGone(t)) /\ g \in Nat
    BY <1>6, PastFinite DEF ObservationGone
  <2>2. ObservationGone(t)' \subseteq ObservationGone(t)
    BY WritersFreeNoPlace
  <2> QED  BY <2>1, <2>2, FS_Subset, FS_CardinalityType
<1>9. h \in Nat /\ h1 \in Nat /\ h1 <= h
  BY <1>3, <1>6, PastFinite
<1>10. i \in Nat /\ i1 \in Nat /\ i1 <= i
  BY <1>3, <1>6, PastFinite
<1>11. j \in Nat
  BY <1>6, PastFinite
<1>12. /\ CandidateCount(t) = n + g + h + i + j
       /\ CandidateCount(t)' = n1 + g1 + h1 + i1 + j
  BY <1>4 DEF CandidateCount
<1> HIDE DEF n, g, h, i, j, n1, g1, h1, i1
<1> QED  BY <1>7, <1>8, <1>9, <1>10, <1>11, <1>12

-----------------------------------------------------------------------------
(* The invariant *)

LEMMA InitPurgeInv ==
  ASSUME PurgeAssumption, RawInit
  PROVE  PurgeInv
<1>1. TypeOK
  BY InitPurgeTyped
<1>2. LocatorsHeld
  BY DEF RawInit, Empty, NoRow, LocatorsHeld
<1>3. CountCovers
  BY DEF RawInit, CountCovers
<1> QED  BY <1>1, <1>2, <1>3 DEF PurgeInv

LEMMA WritersHeld ==
  ASSUME PurgeAssumption, PurgeInv, Writers
  PROVE  LocatorsHeld'
<1>1. TypeOK /\ LocatorsHeld
  BY DEF PurgeInv
<1>2. \A p \in Place : locator[p] \in Nat /\ observation[p] \in Nat
  BY <1>1, ConstantsTyped DEF TypeOK
<1>3. ASSUME NEW d \in Discovery, NEW s \in Store, Discover(d, s)
      PROVE  LocatorsHeld'
  <2>1. now + RawDays <= now + AuditDays
    BY <1>1, ConstantsTyped DEF TypeOK
  <2> QED  BY <1>1, <1>3, <2>1 DEF Discover, LocatorsHeld, TypeOK
<1>4. ASSUME NEW r \in Run, FinishRun(r)
      PROVE  LocatorsHeld'
  <2>1. \A p \in Place : locator'[p] \in {locator[p], NoRow}
    BY <1>1, <1>4, WithoutTyped DEF FinishRun, TypeOK
  <2>2. observation' = observation
    BY <1>4 DEF FinishRun
  <2>3. \A p \in Place : 0 <= observation[p] /\ locator[p] <= observation[p]
    BY <1>1, <1>2 DEF LocatorsHeld
  <2> QED  BY <2>1, <2>2, <2>3 DEF LocatorsHeld, NoRow
<1>5. UNCHANGED <<locator, observation>> => LocatorsHeld'
  BY <1>1 DEF LocatorsHeld
<1>6. NextDay => LocatorsHeld'
  BY <1>5 DEF NextDay, tables
<1>7. \A r \in Run : StartRun(r) => LocatorsHeld'
  BY <1>5 DEF StartRun
<1>8. \A r \in Run, v \in Review : Collect(r, v) => LocatorsHeld'
  BY <1>5 DEF Collect
<1>9. \A r \in Run, s \in Store : Reject(r, s) => LocatorsHeld'
  BY <1>5 DEF Reject
<1> QED
  BY <1>3, <1>4, <1>6, <1>7, <1>8, <1>9 DEF Writers

LEMMA PurgingHeld ==
  ASSUME PurgeAssumption, PurgeInv, Purging
  PROVE  LocatorsHeld'
<1>1. TypeOK /\ LocatorsHeld
  BY DEF PurgeInv
<1>2. \A p \in Place : locator[p] \in Nat /\ observation[p] \in Nat
  BY <1>1, ConstantsTyped DEF TypeOK
<1>3. CASE PurgeDelete
  <2> DEFINE dead == ObservationGone(purge.at)
                       \cup (DiscoveryGone(purge.at) \X Store)
             past == Children(purge.at).locator
  <2>1. /\ locator' = Without(locator, past \cup dead)
        /\ observation' = Without(observation, dead)
    BY <1>3 DEF PurgeDelete
  <2> HIDE DEF dead, past
  <2>2. \A p \in Place :
          /\ locator'[p] = IF p \in past \cup dead THEN NoRow ELSE locator[p]
          /\ observation'[p] = IF p \in dead THEN NoRow ELSE observation[p]
    BY <1>1, <2>1, WithoutTyped DEF TypeOK
  <2> QED  BY <1>1, <1>2, <2>2 DEF LocatorsHeld, NoRow
<1>4. UNCHANGED <<locator, observation>> => LocatorsHeld'
  BY <1>1 DEF LocatorsHeld
<1> QED  BY <1>3, <1>4 DEF Purging, PurgeCount, PurgeFails, tables

LEMMA NextPurgeInv ==
  ASSUME PurgeAssumption, PurgeInv, [RawNext]_rawVars
  PROVE  PurgeInv'
<1> USE DEF PurgeInv
<1>1. CASE Writers
  <2>1. purge' = purge /\ now <= now'
    <3>1. now \in Nat
      BY ConstantsTyped DEF TypeOK
    <3>2. purge' = purge /\ (now' = now \/ now' = now + 1)
      BY <1>1 DEF Writers, NextDay, Discover, StartRun, FinishRun, Collect,
                  Reject
    <3> QED  BY <3>1, <3>2
  <2>2. CountCovers'
    <3> SUFFICES ASSUME purge.pc = "counted"
                 PROVE  /\ purge.at <= now'
                        /\ CandidateCount(purge.at)' <= purge.attempted
      BY <2>1 DEF CountCovers
    <3> DEFINE t == purge.at
               n == CandidateCount(t)
               n1 == CandidateCount(t)'
    <3>1. t \in 0..LastDay /\ t <= now /\ n <= purge.attempted
      BY DEF CountCovers, TypeOK, Purger
    <3>2. n1 \in Nat /\ n1 <= n
      <4> HIDE DEF t
      <4>1. ASSUME NEW u, u = t
            PROVE  /\ CandidateCount(u)' \in Nat
                   /\ CandidateCount(u)' <= CandidateCount(u)
        BY <1>1, <3>1, <4>1, WritersCountLess
      <4> QED  BY <2>1, <4>1 DEF t
    <3>3. n \in Nat /\ purge.attempted \in Nat
      BY DeletesWhatCounts DEF TypeOK, Purger
    <3>4. now \in Nat /\ now' \in Nat /\ t \in Nat
      BY <1>1, <3>1, WritersTyped, ConstantsTyped DEF TypeOK
    <3> HIDE DEF n, n1, t
    <3>5. n1 <= purge.attempted /\ t <= now'
      BY <2>1, <3>1, <3>2, <3>3, <3>4
    <3> QED  BY <3>5, <2>1 DEF n1, t
  <2> QED  BY <1>1, <2>2, WritersTyped, WritersHeld
<1>2. CASE Purging
  <2>1. ASSUME NEW x \in DeleteRun, PurgeCount(x) PROVE CountCovers'
    <3>1. /\ now' = now
          /\ purge' = [pc |-> "counted", id |-> x, at |-> now,
                       attempted |-> CandidateCount(now)]
      BY <2>1 DEF PurgeCount
    <3>2. purge'.at = now /\ purge'.attempted = CandidateCount(now)
      BY <3>1
    <3>3. CandidateCount(purge.at)' = CandidateCount(now)
      BY <2>1, <3>2 DEF PurgeCount, tables, CandidateCount, Size, Children,
           RawUntil, RunUntil, AuditUntil, ObservationGone, NeededPlaces,
           RawLeft, LocatorLeft, CheckpointLeft, FailureLeft, PlaceOfRaw,
           PlaceOfStep, Past, Live
    <3>4. now <= now /\ CandidateCount(now) <= CandidateCount(now)
      <4>1. CandidateCount(now) \in Nat
        BY DeletesWhatCounts
      <4>2. now \in Nat
        BY ConstantsTyped DEF TypeOK
      <4> QED  BY <4>1, <4>2
    <3> HIDE DEF PurgeInv
    <3> QED  BY <3>1, <3>2, <3>3, <3>4 DEF CountCovers
  <2>2. PurgeDelete \/ PurgeFails => CountCovers'
    BY DEF PurgeDelete, PurgeFails, TypeOK, Purger, CountCovers
  <2>3. CountCovers'
    BY <1>2, <2>1, <2>2 DEF Purging
  <2> QED  BY <1>2, <2>3, PurgeTyped, PurgingHeld
<1>3. CASE UNCHANGED rawVars
  <2>1. TypeOK' /\ LocatorsHeld'
    BY <1>3 DEF rawVars, tables, TypeOK, LocatorsHeld
  <2>2. CountCovers'
    BY <1>3 DEF rawVars, tables, CountCovers, CandidateCount, Size,
         Children, RawUntil, RunUntil, AuditUntil, ObservationGone,
         NeededPlaces, RawLeft, LocatorLeft, CheckpointLeft, FailureLeft,
         PlaceOfRaw, PlaceOfStep, Past, Live
  <2> QED  BY <2>1, <2>2
<1> QED  BY <1>1, <1>2, <1>3 DEF RawNext

LEMMA PurgeInvariant == RawSpec => []PurgeInv
<1>1. RawInit => PurgeInv
  BY PurgeAssumption, InitPurgeInv
<1>2. PurgeInv /\ [RawNext]_rawVars => PurgeInv'
  BY PurgeAssumption, NextPurgeInv
<1> QED  BY <1>1, <1>2, PTL DEF RawSpec

\* The rows keep their types: the days of the bound, and no others, are days
\* a row can expire on.
THEOREM PurgeTypeCorrect == RawSpec => []TypeOK
<1>1. PurgeInv => TypeOK
  BY DEF PurgeInv
<1> QED  BY <1>1, PurgeInvariant, PTL

-----------------------------------------------------------------------------
(* Restrictions and counts *)

\* However the writers ran between the count and the transaction, no foreign
\* key and no CHECK of the audit makes purgeExpiredReviewData fail.
THEOREM PurgeIsNeverBlocked == RawSpec => []PurgeNeverBlocked
<1>1. ASSUME NEW t PROVE ~Restricted(t)
  BY DEF Restricted, ObservationGone, NeededPlaces, DiscoveryGone,
         NeededDiscoveries
<1>2. PurgeInv => PurgeNeverBlocked
  <2> SUFFICES ASSUME PurgeInv, purge.pc = "counted"
               PROVE  DeletedCount(purge.at, purge.id) <= purge.attempted
    BY <1>1 DEF PurgeNeverBlocked
  <2> DEFINE n == CandidateCount(purge.at)
             m == DeletedCount(purge.at, purge.id)
  <2>1. n \in Nat /\ m \in Nat /\ m <= n
    BY PurgeAssumption, DeletesWhatCounts DEF PurgeInv
  <2>2. n <= purge.attempted /\ purge.attempted \in Nat
    BY DEF PurgeInv, CountCovers, TypeOK, Purger
  <2> HIDE DEF n, m
  <2>3. m <= purge.attempted
    BY <2>1, <2>2
  <2> QED  BY <2>3 DEF m
<1> QED  BY <1>2, PurgeInvariant, PTL

-----------------------------------------------------------------------------
(* What the transaction leaves *)

\* Without takes what it is told to and nothing else.
LEMMA WithoutKeeps ==
  ASSUME NEW Table, NEW Ks, NEW k \in DOMAIN Table, k \notin Ks
  PROVE  Without(Table, Ks)[k] = Table[k]
BY DEF Without

\* What a statement leaves, no cascade of a later one takes.
LEMMA LeftStays ==
  ASSUME PurgeAssumption, PurgeInv, PurgeDelete, NEW t, t = purge.at
  PROVE  /\ \A v \in RawLeft(t) : raw'[v] = raw[v]
         /\ \A k \in CheckpointLeft(t) : checkpoint'[k] = checkpoint[k]
         /\ \A k \in FailureLeft(t) : failure'[k] = failure[k]
         /\ \A p \in LocatorLeft(t) : locator'[p] = locator[p]
         /\ \A v \in Live(seen) \ Past(seen, t) : seen'[v] = seen[v]
         /\ \A p \in Live(observation) \ ObservationGone(t) :
              observation'[p] = observation[p]
         /\ \A r \in Live(RunUntil) \ RunGone(t) : run'[r] = run[r]
<1> DEFINE dead == ObservationGone(t) \cup (DiscoveryGone(t) \X Store)
<1>1. /\ DOMAIN locator = Place /\ DOMAIN observation = Place
      /\ DOMAIN checkpoint = Step /\ DOMAIN failure = Step
      /\ DOMAIN seen = Review
      /\ \A p \in Place : locator[p] \in Nat /\ observation[p] \in Nat
      /\ \A p \in Place : locator[p] <= observation[p]
  BY ConstantsTyped DEF PurgeInv, TypeOK, LocatorsHeld
<1>2. /\ raw' = [v \in Review |-> IF \/ v \in Past(RawUntil, t)
                                     \/ raw[v].run \in RunGone(t)
                                  THEN NoRaw ELSE raw[v]]
      /\ locator' = Without(locator, Past(locator, t) \cup dead)
      /\ seen' = Without(seen, Past(seen, t))
      /\ failure' = Without(failure,
                            Past(failure, t) \cup (RunGone(t) \X Store))
      /\ checkpoint' = Without(checkpoint,
                               Past(checkpoint, t) \cup (RunGone(t) \X Store))
      /\ observation' = Without(observation, dead)
      /\ run' = [r \in Run |-> IF r \in RunGone(t) THEN NoRunRow ELSE run[r]]
  BY DEF PurgeDelete, Children
<1>3. \A v \in RawLeft(t) : raw'[v] = raw[v]
  <2>1. \A v \in RawLeft(t) : /\ v \in Review /\ v \notin Past(RawUntil, t)
                              /\ raw[v].run \notin RunGone(t)
    BY DEF RawLeft, Live, RawUntil, RunGone, NeededRuns
  <2> QED  BY <1>2, <2>1
<1>4. \A k \in CheckpointLeft(t) : checkpoint'[k] = checkpoint[k]
  <2>1. \A k \in CheckpointLeft(t) :
          /\ k \in Step /\ k \notin Past(checkpoint, t)
          /\ k \notin RunGone(t) \X Store
    BY <1>1 DEF CheckpointLeft, Live, RunGone, NeededRuns
  <2> QED  BY <1>1, <1>2, <2>1, WithoutKeeps
<1>5. \A k \in FailureLeft(t) : failure'[k] = failure[k]
  <2>1. \A k \in FailureLeft(t) :
          /\ k \in Step /\ k \notin Past(failure, t)
          /\ k \notin RunGone(t) \X Store
    BY <1>1 DEF FailureLeft, Live, RunGone, NeededRuns
  <2> QED  BY <1>1, <1>2, <2>1, WithoutKeeps
<1>6. \A p \in Live(observation) \ ObservationGone(t) : p \notin dead
  BY DEF DiscoveryGone, NeededDiscoveries
<1>7. \A p \in LocatorLeft(t) : p \in Place /\ p \notin Past(locator, t)
                                  /\ p \notin dead
  <2>1. \A p \in LocatorLeft(t) : p \in Place /\ p \in Live(observation)
    BY <1>1 DEF LocatorLeft, Live, NoRow
  <2>2. \A p \in LocatorLeft(t) : p \notin ObservationGone(t)
    BY DEF ObservationGone, NeededPlaces
  <2> QED  BY <1>6, <2>1, <2>2 DEF LocatorLeft
<1>8. \A p \in Live(observation) : p \in Place
  BY <1>1 DEF Live
<1> HIDE DEF dead
<1>9. \A p \in Live(observation) \ ObservationGone(t) :
        observation'[p] = observation[p]
  BY <1>1, <1>2, <1>6, <1>8, WithoutKeeps
<1>10. \A p \in LocatorLeft(t) : locator'[p] = locator[p]
  BY <1>1, <1>2, <1>7, WithoutKeeps
<1>11. \A v \in Live(seen) \ Past(seen, t) : seen'[v] = seen[v]
  BY <1>1, <1>2, WithoutKeeps DEF Live
<1>12. \A r \in Live(RunUntil) \ RunGone(t) : run'[r] = run[r]
  BY <1>2 DEF Live, RunUntil
<1> QED  BY <1>3, <1>4, <1>5, <1>9, <1>10, <1>11, <1>12

\* Only the transaction and its failure end a purge, and a failure rolls
\* everything back.
LEMMA DeletesIsDelete ==
  ASSUME [RawNext]_rawVars, Deletes
  PROVE  \/ PurgeDelete /\ killSwitch' = killSwitch
         \/ UNCHANGED tables /\ killSwitch' = TRUE
<1>1. purge' # purge
  BY DEF Deletes
<1>2. ~Writers
  BY <1>1 DEF Writers, NextDay, Discover, StartRun, FinishRun, Collect,
              Reject
<1>3. \A x \in DeleteRun : ~PurgeCount(x)
  BY DEF Deletes, PurgeCount
<1>4. PurgeDelete \/ PurgeFails
  BY <1>1, <1>2, <1>3 DEF RawNext, Purging, rawVars
<1> QED  BY <1>4 DEF PurgeDelete, PurgeFails

\* A row still to be kept survives every purge: no cascade reaches it, the
\* run or the place it belongs to being held by it.
THEOREM RetainedIsSpared == RawSpec => PurgeSparesRetained
<1> DEFINE Spared ==
      Deletes =>
       /\ \A v \in Vanished(RawUntil, RawUntil') : RawUntil[v] <= purge.at
       /\ \A k \in Vanished(checkpoint, checkpoint') :
            checkpoint[k] <= purge.at
       /\ \A k \in Vanished(failure, failure') : failure[k] <= purge.at
       /\ \A p \in Vanished(locator, locator') : locator[p] <= purge.at
       /\ \A v \in Vanished(seen, seen') : seen[v] <= purge.at
<1>1. ASSUME PurgeInv, [RawNext]_rawVars, Deletes
      PROVE  Spared
  <2>1. CASE UNCHANGED tables
    BY <2>1 DEF tables, Vanished, Live, RawUntil
  <2>2. CASE PurgeDelete
    <3> DEFINE t == purge.at
    <3>1. /\ \A v \in RawLeft(t) : raw'[v] = raw[v]
          /\ \A k \in CheckpointLeft(t) : checkpoint'[k] = checkpoint[k]
          /\ \A k \in FailureLeft(t) : failure'[k] = failure[k]
          /\ \A p \in LocatorLeft(t) : locator'[p] = locator[p]
          /\ \A v \in Live(seen) \ Past(seen, t) : seen'[v] = seen[v]
      BY <1>1, <2>2, PurgeAssumption, LeftStays
    <3> HIDE DEF t
    <3>2. \A v \in Vanished(RawUntil, RawUntil') : RawUntil[v] <= t
      BY <3>1 DEF Vanished, RawLeft, Past, Live, RawUntil
    <3>3. \A k \in Vanished(checkpoint, checkpoint') : checkpoint[k] <= t
      BY <3>1 DEF Vanished, CheckpointLeft, Past, Live
    <3>4. \A k \in Vanished(failure, failure') : failure[k] <= t
      BY <3>1 DEF Vanished, FailureLeft, Past, Live
    <3>5. \A p \in Vanished(locator, locator') : locator[p] <= t
      BY <3>1 DEF Vanished, LocatorLeft, Past, Live
    <3>6. \A v \in Vanished(seen, seen') : seen[v] <= t
      BY <3>1 DEF Vanished, Past, Live
    <3> QED  BY <3>2, <3>3, <3>4, <3>5, <3>6 DEF t
  <2> QED  BY <1>1, <2>1, <2>2, DeletesIsDelete
<1>2. PurgeInv /\ [RawNext]_rawVars => [Spared]_rawVars
  BY <1>1
<1> QED  BY <1>2, PurgeInvariant, PTL DEF RawSpec, PurgeSparesRetained

\* After a purge that succeeded nothing is left past its day but what a row
\* still to be kept holds.
THEOREM NothingStaysUnheld == RawSpec => NothingOutstays
<1> DEFINE Emptied ==
      Deletes /\ ~killSwitch' =>
       LET t == purge.at IN
       /\ Past(RawUntil', t) = {} /\ Past(locator', t) = {}
       /\ \A p \in Past(observation', t) : Held(p, t)'
       /\ \A r \in Past(RunUntil', t) : HeldRun(r, t)'
       /\ \A d \in Past(discovery', t) :
            \/ \E s \in Store : observation'[<<d, s>>] # NoRow
            \/ \E r \in Run : run'[r].until # NoRow /\ DiscoveryOf[r] = d
<1>1. ASSUME PurgeInv, [RawNext]_rawVars, Deletes, ~killSwitch',
             NEW t, t = purge.at
      PROVE  /\ Past(RawUntil', t) = {} /\ Past(locator', t) = {}
             /\ \A p \in Past(observation', t) : Held(p, t)'
             /\ \A r \in Past(RunUntil', t) : HeldRun(r, t)'
             /\ \A d \in Past(discovery', t) :
                  \/ \E s \in Store : observation'[<<d, s>>] # NoRow
                  \/ \E r \in Run : run'[r].until # NoRow /\ DiscoveryOf[r] = d
             /\ purge'.at = t
  <2> DEFINE dead == ObservationGone(t) \cup (DiscoveryGone(t) \X Store)
  <2>1. PurgeDelete
    BY <1>1, DeletesIsDelete
  <2>2. /\ \A v \in RawLeft(t) : raw'[v] = raw[v]
        /\ \A k \in CheckpointLeft(t) : checkpoint'[k] = checkpoint[k]
        /\ \A k \in FailureLeft(t) : failure'[k] = failure[k]
        /\ \A p \in LocatorLeft(t) : locator'[p] = locator[p]
        /\ \A p \in Live(observation) \ ObservationGone(t) :
             observation'[p] = observation[p]
        /\ \A r \in Live(RunUntil) \ RunGone(t) : run'[r] = run[r]
    BY <1>1, <2>1, PurgeAssumption, LeftStays
  <2>3. /\ DOMAIN locator = Place /\ DOMAIN observation = Place
        /\ DOMAIN checkpoint = Step /\ DOMAIN failure = Step
        /\ DOMAIN discovery = Discovery
        /\ t \in Nat
        /\ \A v \in Review : raw[v].until \in Nat
        /\ \A p \in Place : locator[p] \in Nat
        /\ \A k \in Step : checkpoint[k] \in Nat /\ failure[k] \in Nat
    BY <1>1, PurgeAssumption, ConstantsTyped
    DEF PurgeInv, TypeOK, RawRow, Purger
  <2>4. /\ raw' = [v \in Review |-> IF \/ v \in Past(RawUntil, t)
                                       \/ raw[v].run \in RunGone(t)
                                    THEN NoRaw ELSE raw[v]]
        /\ locator' = Without(locator, Past(locator, t) \cup dead)
        /\ observation' = Without(observation, dead)
        /\ run' = [r \in Run |-> IF r \in RunGone(t) THEN NoRunRow ELSE run[r]]
        /\ discovery' = Without(discovery, DiscoveryGone(t))
        /\ purge' = [purge EXCEPT !.pc = "idle"]
    BY <1>1, <2>1 DEF PurgeDelete, Children
  <2> HIDE DEF dead
  <2>5. Past(RawUntil', t) = {}
    BY <2>4 DEF Past, Live, RawUntil, NoRaw, NoRow
  <2>6. Past(locator', t) = {}
    BY <2>4 DEF Past, Live, Without
  <2>7. /\ \A v \in RawLeft(t) : v \in Review /\ raw'[v].until > t
        /\ \A k \in CheckpointLeft(t) : k \in Step /\ checkpoint'[k] > t
        /\ \A k \in FailureLeft(t) : k \in Step /\ failure'[k] > t
        /\ \A p \in LocatorLeft(t) : locator'[p] > t
    BY <2>2, <2>3 DEF RawLeft, CheckpointLeft, FailureLeft, LocatorLeft,
                      Past, Live, RawUntil
  <2>8. ASSUME NEW p \in Past(observation', t)
        PROVE  Held(p, t)'
    <3>1. p \in NeededPlaces(t)
      BY <2>4 DEF Past, Live, Without, dead, ObservationGone
    <3>2. ASSUME NEW v \in RawLeft(t), PlaceOfRaw(v) = p
          PROVE  Held(p, t)'
      BY <2>2, <2>7, <3>2 DEF Held, PlaceOfRaw
    <3>3. ASSUME NEW k \in CheckpointLeft(t) \cup FailureLeft(t),
                 PlaceOfStep(k) = p
          PROVE  Held(p, t)'
      BY <2>7, <3>3 DEF Held, PlaceOfStep
    <3>4. p \in LocatorLeft(t) => Held(p, t)'
      BY <2>7 DEF Held
    <3> QED  BY <3>1, <3>2, <3>3, <3>4 DEF NeededPlaces
  <2>9. ASSUME NEW r \in Past(RunUntil', t)
        PROVE  HeldRun(r, t)'
    <3>1. r \in NeededRuns(t)
      BY <2>4 DEF Past, Live, RunUntil, RunGone, NoRunRow, NoRow
    <3>2. ASSUME NEW v \in RawLeft(t), raw[v].run = r
          PROVE  HeldRun(r, t)'
      BY <2>2, <2>7, <3>2 DEF HeldRun
    <3>3. ASSUME NEW k \in CheckpointLeft(t) \cup FailureLeft(t), k[1] = r
          PROVE  HeldRun(r, t)'
      <4>1. PICK s \in Store : k = <<r, s>>
        BY <2>7, <3>3 DEF Step
      <4> QED  BY <2>7, <3>3, <4>1 DEF HeldRun
    <3> QED  BY <3>1, <3>2, <3>3 DEF NeededRuns
  <2>10. ASSUME NEW d \in Past(discovery', t)
         PROVE  \/ \E s \in Store : observation'[<<d, s>>] # NoRow
                \/ \E r \in Run : run'[r].until # NoRow /\ DiscoveryOf[r] = d
    <3>1. d \in NeededDiscoveries(t)
      BY <2>4 DEF Past, Live, Without, DiscoveryGone
    <3>2. ASSUME NEW p \in Live(observation) \ ObservationGone(t), p[1] = d
          PROVE  \E s \in Store : observation'[<<d, s>>] # NoRow
      <4>1. PICK s \in Store : p = <<d, s>>
        BY <2>3, <3>2 DEF Live, Place
      <4> QED  BY <2>2, <4>1, <3>2 DEF Live
    <3>3. ASSUME NEW r \in Live(RunUntil) \ RunGone(t), DiscoveryOf[r] = d
          PROVE  \E q \in Run : run'[q].until # NoRow /\ DiscoveryOf[q] = d
      BY <2>2, <3>3 DEF Live, RunUntil
    <3> QED  BY <3>1, <3>2, <3>3 DEF NeededDiscoveries
  <2>11. purge'.at = t
    BY <1>1, <2>4 DEF PurgeInv, TypeOK, Purger
  <2> QED  BY <2>5, <2>6, <2>8, <2>9, <2>10, <2>11
<1>2. PurgeInv /\ [RawNext]_rawVars => [Emptied]_rawVars
  BY <1>1
<1> QED  BY <1>2, PurgeInvariant, PTL DEF RawSpec, NothingOutstays

-----------------------------------------------------------------------------
(* Publication *)

\* A publisher that is not at rest holds a run.
HoldsRun == \A p \in Publisher : pub[p].pc # "idle" => pub[p].run \in Run

\* The index describes the active version, whichever that is, and hiding
\* stores only takes away from what the version described.
IndexDescribesActive ==
  \A r \in Active : /\ index = [run |-> r, corpus |-> version[r].corpus]
                    /\ Documents \subseteq version[r].corpus

PublishInv ==
  /\ PublishTypeOK /\ PurgeInv
  /\ HoldsRun
  /\ OnlyPublicDocuments
  /\ IndexDescribesActive

-----------------------------------------------------------------------------
(* The raw database under publication *)

LEMMA RawStepIsRaw == [Next]_vars => [RawNext]_rawVars
<1>1. CollectorWrites => Writers
  BY DEF CollectorWrites, Writers
<1>2. RawStep => RawNext
  BY <1>1 DEF RawStep, RawNext
<1> QED
  BY <1>2 DEF Next, vars, HideStore, ShowStore, LoadSourceRun, LoadRows,
              PersistPublish, PublishStops

\* What is proved of retention holds of the composition: every run of the
\* publishers and the catalog is a run of the raw database by itself.
THEOREM PublishKeepsRaw == Spec => RawSpec
<1>1. Init => RawInit
  BY DEF Init
<1> QED  BY <1>1, RawStepIsRaw, PTL DEF Spec, RawSpec

-----------------------------------------------------------------------------
(* Types *)

LEMMA InitPublishInv ==
  ASSUME PurgeAssumption, Init
  PROVE  PublishInv
<1>1. PurgeInv
  BY InitPurgeInv DEF Init
<1>2. /\ NoVersion \in VersionRow /\ Resting \in Publication
      /\ index \in IndexRow
  BY ConstantsTyped
  DEF Init, NoVersion, VersionRow, Resting, Publication, IndexRow
<1>3. Documents = {} /\ Active = {}
  BY DEF Init, Documents, Active, NoVersion
<1>4. PublishTypeOK
  BY <1>1, <1>2 DEF Init, PublishTypeOK, PurgeInv
<1>5. HoldsRun
  BY DEF Init, HoldsRun, Resting
<1> QED
  BY <1>1, <1>3, <1>4, <1>5
  DEF PublishInv, OnlyPublicDocuments, IndexDescribesActive, Init

\* Which documents a publication leaves: those in the window, of before and
\* of the run.
LEMMA PersistDocuments ==
  ASSUME PurgeAssumption, PublishInv, NEW p \in Publisher, PersistPublish(p),
         NEW left,
         left = {v \in Documents \cup pub[p].new : Kept(v, pub[p].asOf)}
  PROVE  /\ pub[p].run \in Run /\ pub[p].asOf \in 0..LastDay
         /\ pub[p].new \subseteq Review /\ left \subseteq Review
         /\ document' \in [Review -> Run \cup {NoRun}]
         /\ Documents' = left
<1>1. /\ pub[p].run \in Run /\ pub[p].asOf \in 0..LastDay
      /\ pub[p].new \subseteq Review
  BY DEF PersistPublish, PublishInv, HoldsRun, PublishTypeOK, Publication
<1>2. left \subseteq Review
  BY <1>1 DEF Documents
<1>3. document' = [v \in Review |->
                     CASE v \in left \cap pub[p].new -> pub[p].run
                       [] v \in left \ pub[p].new -> document[v]
                       [] OTHER -> NoRun]
  BY DEF PersistPublish
<1>4. \A v \in Review : /\ document[v] \in Run \cup {NoRun}
                        /\ v \in Documents <=> document[v] # NoRun
  BY DEF PublishInv, PublishTypeOK, Documents
<1>5. pub[p].run # NoRun
  BY <1>1 DEF PurgeAssumption
<1>6. document' \in [Review -> Run \cup {NoRun}]
  BY <1>1, <1>3, <1>4
<1>7. \A v \in Review : document'[v] # NoRun <=> v \in left
  <2> SUFFICES ASSUME NEW v \in Review
               PROVE  document'[v] # NoRun <=> v \in left
    OBVIOUS
  <2>1. CASE v \notin left
    <3>1. document'[v] = NoRun
      BY <1>3, <2>1
    <3> QED  BY <2>1, <3>1
  <2>2. CASE v \in left /\ v \in pub[p].new
    BY <1>3, <1>5, <2>2
  <2>3. CASE v \in left /\ v \notin pub[p].new
    <3>1. v \in Documents
      BY <2>3
    <3>2. document'[v] = document[v]
      BY <1>3, <2>3
    <3> QED  BY <1>4, <2>3, <3>1, <3>2
  <2> QED  BY <2>1, <2>2, <2>3
<1>8. Documents' = left
  BY <1>2, <1>7 DEF Documents
<1> QED  BY <1>1, <1>2, <1>6, <1>8

LEMMA PublisherTyped ==
  ASSUME PurgeAssumption, PublishInv, NEW p \in Publisher,
         \/ \E r \in Run : LoadSourceRun(p, r)
         \/ LoadRows(p) \/ PublishStops(p)
  PROVE  /\ pub' \in [Publisher -> Publication]
         /\ HoldsRun'
         /\ UNCHANGED <<rawVars, publicStores, version, document, fts, index>>
<1>1. pub \in [Publisher -> Publication] /\ HoldsRun /\ TypeOK
  BY DEF PublishInv, PublishTypeOK
<1>2. UNCHANGED <<rawVars, publicStores, version, document, fts, index>>
  BY DEF LoadSourceRun, LoadRows, PublishStops
<1>3. ASSUME NEW r \in Run, LoadSourceRun(p, r)
      PROVE  pub' \in [Publisher -> Publication] /\ HoldsRun'
  <2>1. run[r].asOf \in 0..LastDay /\ run[r].counted \subseteq Review
    BY <1>1 DEF TypeOK, RunRow
  <2>2. Cardinality(run[r].counted) \in Nat
    BY <2>1, KeysFinite, FS_Subset, FS_CardinalityType
  <2>3. [pc |-> "run", run |-> r, asOf |-> run[r].asOf,
         count |-> Cardinality(run[r].counted), new |-> {}] \in Publication
    BY <2>1, <2>2 DEF Publication
  <2> QED  BY <1>1, <1>3, <2>3 DEF LoadSourceRun, HoldsRun
<1>4. CASE LoadRows(p)
  <2>1. RowsOf(pub[p].run) \subseteq Review
    BY DEF RowsOf
  <2>2. [pub[p] EXCEPT !.pc = "documents", !.new = RowsOf(pub[p].run)]
          \in Publication
    BY <1>1, <2>1 DEF Publication
  <2>3. /\ pub' = [pub EXCEPT ![p] = [pub[p] EXCEPT !.pc = "documents",
                                        !.new = RowsOf(pub[p].run)]]
        /\ pub[p].pc # "idle"
    BY <1>1, <1>4 DEF LoadRows
  <2>4. pub' \in [Publisher -> Publication]
    BY <1>1, <2>2, <2>3
  <2>5. pub'[p].run = pub[p].run /\ \A q \in Publisher \ {p} : pub'[q] = pub[q]
    BY <1>1, <2>3 DEF Publication
  <2>6. pub[p].run \in Run
    BY <1>1, <2>3 DEF HoldsRun
  <2>7. ASSUME NEW q \in Publisher, pub'[q].pc # "idle"
        PROVE  pub'[q].run \in Run
    BY <1>1, <2>5, <2>6, <2>7 DEF HoldsRun
  <2>8. HoldsRun'
    BY <2>7 DEF HoldsRun
  <2> QED  BY <1>2, <2>4, <2>8
<1>5. CASE PublishStops(p)
  <2>1. Resting \in Publication
    BY ConstantsTyped DEF Resting, Publication
  <2> QED  BY <1>1, <1>2, <1>5, <2>1 DEF PublishStops, HoldsRun, Resting
<1> QED  BY <1>2, <1>3, <1>4, <1>5

-----------------------------------------------------------------------------
(* The invariant *)

\* Steps that leave the database alone, and hiding, keep what is published.
LEMMA HideKeeps ==
  ASSUME PublishInv, NEW s \in Store, HideStore(s)
  PROVE  /\ document' \in [Review -> Run \cup {NoRun}]
         /\ Documents' = {v \in Documents : StoreOf[v] # s}
         /\ Active' = Active
<1>1. document \in [Review -> Run \cup {NoRun}]
  BY DEF PublishInv, PublishTypeOK
<1>2. /\ document' = [v \in Review |-> IF StoreOf[v] = s THEN NoRun
                                                         ELSE document[v]]
      /\ version' = version
  BY DEF HideStore
<1>3. Documents' = {v \in Documents : StoreOf[v] # s}
  BY <1>2 DEF Documents
<1>4. Active' = Active
  BY <1>2 DEF Active
<1> QED  BY <1>1, <1>2, <1>3, <1>4

LEMMA PersistVersions ==
  ASSUME PurgeAssumption, PublishInv, NEW p \in Publisher, PersistPublish(p),
         NEW left,
         left = {v \in Documents \cup pub[p].new : Kept(v, pub[p].asOf)}
  PROVE  /\ version' \in [Run -> VersionRow]
         /\ Active' = {pub[p].run}
         /\ version'[pub[p].run] = ActiveVersion(pub[p].asOf, left)
<1> DEFINE r == pub[p].run
           row == ActiveVersion(pub[p].asOf, left)
<1>1. r \in Run /\ pub[p].asOf \in 0..LastDay /\ left \subseteq Review
  BY PersistDocuments
<1>2. row \in VersionRow /\ row.status = "ACTIVE"
  BY <1>1 DEF ActiveVersion, VersionRow
<1>3. /\ r \notin Active
      /\ version' = [q \in Run |->
           CASE q = r -> row
             [] q \in Active -> [version[q] EXCEPT !.status = "SUPERSEDED"]
             [] OTHER -> version[q]]
  BY DEF PersistPublish, Active
<1> HIDE DEF row, r
<1>4. version'[r] = row
  BY <1>1, <1>3
<1>5. ASSUME NEW q \in Run, q # r
      PROVE  version'[q] \in VersionRow /\ version'[q].status # "ACTIVE"
  <2>1. version[q] \in VersionRow
    BY DEF PublishInv, PublishTypeOK
  <2>2. CASE q \in Active
    <3>1. version'[q] = [version[q] EXCEPT !.status = "SUPERSEDED"]
      BY <1>3, <1>5, <2>2
    <3> QED  BY <2>1, <3>1 DEF VersionRow
  <2>3. CASE q \notin Active
    <3>1. version'[q] = version[q]
      BY <1>3, <1>5, <2>3
    <3> QED  BY <2>1, <2>3, <3>1 DEF Active
  <2> QED  BY <2>2, <2>3
<1>6. version' \in [Run -> VersionRow]
  <2>1. version' = [q \in Run |-> version'[q]]
    BY <1>3
  <2> QED  BY <1>2, <1>4, <1>5, <2>1
<1>7. Active' = {r}
  BY <1>1, <1>2, <1>4, <1>5 DEF Active
<1> QED  BY <1>4, <1>6, <1>7 DEF r, row

LEMMA NextPublishInv ==
  ASSUME PurgeAssumption, PublishInv, [Next]_vars
  PROVE  PublishInv'
<1>1. PurgeInv'
  BY RawStepIsRaw, NextPurgeInv DEF PublishInv
<1>2. TypeOK'
  BY <1>1 DEF PurgeInv
<1>3. ASSUME UNCHANGED <<publicStores, version, document, fts, index>>,
             pub' \in [Publisher -> Publication], HoldsRun'
      PROVE  PublishInv'
  <2>1. PublishTypeOK' /\ HoldsRun'
    BY <1>2, <1>3 DEF PublishInv, PublishTypeOK
  <2>2. Documents' = Documents /\ Active' = Active
    BY <1>3 DEF Documents, Active
  <2>3. OnlyPublicDocuments' /\ IndexDescribesActive'
    BY <1>3, <2>2
    DEF PublishInv, OnlyPublicDocuments, IndexDescribesActive
  <2> QED  BY <1>1, <2>1, <2>3 DEF PublishInv
<1>4. CASE UNCHANGED appVars
  BY <1>3, <1>4 DEF appVars, HoldsRun, PublishInv, PublishTypeOK
<1>5. ASSUME NEW p \in Publisher,
             \/ \E r \in Run : LoadSourceRun(p, r)
             \/ LoadRows(p) \/ PublishStops(p)
      PROVE  PublishInv'
  BY <1>3, <1>5, PublisherTyped
<1>6. ASSUME NEW s \in Store, HideStore(s)
      PROVE  PublishInv'
  <2>1. /\ document' \in [Review -> Run \cup {NoRun}]
        /\ Documents' = {v \in Documents : StoreOf[v] # s}
        /\ Active' = Active
    BY <1>6, HideKeeps
  <2>2. /\ publicStores' = publicStores \ {s}
        /\ fts' = {v \in fts : StoreOf[v] # s}
        /\ UNCHANGED <<version, index, pub>>
    BY <1>6 DEF HideStore
  <2>3. PublishTypeOK' /\ HoldsRun'
    BY <1>2, <2>1, <2>2 DEF PublishInv, PublishTypeOK, HoldsRun
  <2>4. OnlyPublicDocuments'
    BY <2>1, <2>2 DEF PublishInv, OnlyPublicDocuments
  <2>5. IndexDescribesActive'
    BY <2>1, <2>2 DEF PublishInv, IndexDescribesActive
  <2> QED  BY <1>1, <2>3, <2>4, <2>5 DEF PublishInv
<1>7. ASSUME NEW s \in Store, ShowStore(s)
      PROVE  PublishInv'
  <2>1. /\ publicStores' = publicStores \cup {s}
        /\ UNCHANGED <<version, document, fts, index, pub>>
    BY <1>7 DEF ShowStore
  <2>2. Documents' = Documents /\ Active' = Active
    BY <2>1 DEF Documents, Active
  <2>3. PublishTypeOK' /\ HoldsRun'
    BY <1>2, <2>1 DEF PublishInv, PublishTypeOK, HoldsRun
  <2>4. OnlyPublicDocuments' /\ IndexDescribesActive'
    BY <2>1, <2>2 DEF PublishInv, OnlyPublicDocuments, IndexDescribesActive
  <2> QED  BY <1>1, <2>3, <2>4 DEF PublishInv
<1>8. ASSUME NEW p \in Publisher, PersistPublish(p)
      PROVE  PublishInv'
  <2> DEFINE r == pub[p].run
             asOf == pub[p].asOf
             left == {v \in Documents \cup pub[p].new : Kept(v, asOf)}
  <2>1. /\ r \in Run /\ left \subseteq Review
        /\ document' \in [Review -> Run \cup {NoRun}]
        /\ Documents' = left
    BY <1>8, PersistDocuments
  <2>2. /\ version' \in [Run -> VersionRow]
        /\ Active' = {r} /\ version'[r] = ActiveVersion(asOf, left)
    BY <1>8, PersistVersions
  <2>3. /\ index' = [run |-> r, corpus |-> left] /\ fts' = left
        /\ publicStores' = publicStores
        /\ pub' = [pub EXCEPT ![p] = Resting]
        /\ \A v \in left : StoreOf[v] \in publicStores
    BY <1>8 DEF PersistPublish
  <2> HIDE DEF left, asOf, r
  <2>4. index' \in IndexRow
    BY <2>1, <2>3 DEF IndexRow
  <2>5. pub' \in [Publisher -> Publication] /\ HoldsRun'
    <3>1. Resting \in Publication
      BY ConstantsTyped DEF Resting, Publication
    <3>2. pub \in [Publisher -> Publication] /\ HoldsRun
      BY DEF PublishInv, PublishTypeOK
    <3> QED  BY <2>3, <3>1, <3>2 DEF HoldsRun, Resting
  <2>6. PublishTypeOK'
    BY <1>2, <2>1, <2>2, <2>3, <2>4, <2>5 DEF PublishInv, PublishTypeOK
  <2>7. OnlyPublicDocuments'
    BY <2>1, <2>3 DEF OnlyPublicDocuments
  <2>8. version'[r].corpus = left
    BY <2>2 DEF ActiveVersion
  <2>9. IndexDescribesActive'
    BY <2>1, <2>2, <2>3, <2>8 DEF IndexDescribesActive
  <2> QED  BY <1>1, <2>5, <2>6, <2>7, <2>9 DEF PublishInv
<1> QED
  BY <1>4, <1>5, <1>6, <1>7, <1>8 DEF Next, RawStep, vars, appVars

LEMMA PublishInvariant == Spec => []PublishInv
<1>1. Init => PublishInv
  BY PurgeAssumption, InitPublishInv
<1>2. PublishInv /\ [Next]_vars => PublishInv'
  BY PurgeAssumption, NextPublishInv
<1> QED  BY <1>1, <1>2, PTL DEF Spec

-----------------------------------------------------------------------------
(* What is published *)

\* At every moment, also between a publisher's checks and its transaction,
\* the documents and their index are of public stores and agree.
THEOREM DocumentsArePublic == Spec => []OnlyPublicDocuments
<1>1. PublishInv => OnlyPublicDocuments
  BY DEF PublishInv
<1> QED  BY <1>1, PublishInvariant, PTL

\* Comparing counts is enough for the search: the documents are among those
\* the active version described, so as many of them are the same ones.
THEOREM SearchedAsPublished == Spec => []SearchedIsPublished
<1>1. ASSUME PublishInv, HasConsistentActiveIndex
      PROVE  \E r \in Active : Replays(r)
  <2>1. PICK r \in ActiveIndexState : CountsAgree(r)
    BY <1>1 DEF HasConsistentActiveIndex
  <2>2. r \in Active /\ index = [run |-> r, corpus |-> version[r].corpus]
    BY DEF ActiveIndexState
  <2>3. version[r].corpus \subseteq Review /\ version[r].status = "ACTIVE"
    BY <1>1, <2>2 DEF Active, PublishInv, PublishTypeOK, VersionRow
  <2>4. IsFiniteSet(version[r].corpus)
    BY <2>3, PurgeAssumption, KeysFinite, FS_Subset
  <2>5. Documents \subseteq version[r].corpus
    BY <1>1, <2>2 DEF PublishInv, IndexDescribesActive
  <2>6. Documents = version[r].corpus
    BY <2>1, <2>4, <2>5, FS_Subset DEF CountsAgree
  <2>7. Replays(r)
    BY <1>1, <2>2, <2>3, <2>6 DEF Replays, PublishInv, OnlyPublicDocuments
  <2> QED  BY <2>2, <2>7
<1>2. PublishInv => SearchedIsPublished
  BY <1>1 DEF SearchedIsPublished
<1> QED  BY <1>2, PublishInvariant, PTL

-----------------------------------------------------------------------------
(* What a step does to the corpus *)

\* A document leaves with its store or behind the cutoff of a publication.
LEMMA CorpusSteps ==
  ASSUME PurgeAssumption, PublishInv, [Next]_vars
  PROVE  \/ Documents' = Documents /\ version' = version
         \/ \E s \in Store : /\ Documents' = {v \in Documents : StoreOf[v] # s}
                             /\ s \notin publicStores' /\ version' = version
         \/ \E p \in Publisher, left \in SUBSET Review :
              /\ PersistPublish(p) /\ pub[p].asOf \in 0..LastDay
              /\ left = {v \in Documents \cup pub[p].new :
                           Kept(v, pub[p].asOf)}
              /\ pub[p].new \subseteq Review /\ pub[p].run \in Run
              /\ Documents' = left /\ Active' = {pub[p].run}
              /\ version'[pub[p].run] = ActiveVersion(pub[p].asOf, left)
<1>1. UNCHANGED <<document, version>> =>
        Documents' = Documents /\ version' = version
  BY DEF Documents
<1>2. CASE RawStep \/ UNCHANGED vars
  BY <1>1, <1>2 DEF RawStep, appVars, vars
<1>3. ASSUME NEW s \in Store, HideStore(s)
      PROVE  /\ Documents' = {v \in Documents : StoreOf[v] # s}
             /\ s \notin publicStores' /\ version' = version
  BY <1>3, HideKeeps DEF HideStore
<1>4. \A s \in Store : ShowStore(s) => UNCHANGED <<document, version>>
  BY DEF ShowStore
<1>5. \A p \in Publisher :
        (\E r \in Run : LoadSourceRun(p, r)) \/ LoadRows(p) \/ PublishStops(p)
          => UNCHANGED <<document, version>>
  BY DEF LoadSourceRun, LoadRows, PublishStops
<1>6. ASSUME NEW p \in Publisher, PersistPublish(p), NEW left,
             left = {v \in Documents \cup pub[p].new : Kept(v, pub[p].asOf)}
      PROVE  /\ pub[p].asOf \in 0..LastDay /\ left \in SUBSET Review
             /\ pub[p].new \subseteq Review /\ pub[p].run \in Run
             /\ Documents' = left /\ Active' = {pub[p].run}
             /\ version'[pub[p].run] = ActiveVersion(pub[p].asOf, left)
  BY <1>6, PersistDocuments, PersistVersions
<1>7. ASSUME NEW p \in Publisher, PersistPublish(p)
      PROVE  \E left \in SUBSET Review :
               /\ left = {v \in Documents \cup pub[p].new :
                            Kept(v, pub[p].asOf)}
               /\ pub[p].asOf \in 0..LastDay
               /\ pub[p].new \subseteq Review /\ pub[p].run \in Run
               /\ Documents' = left /\ Active' = {pub[p].run}
               /\ version'[pub[p].run] = ActiveVersion(pub[p].asOf, left)
  BY <1>6, <1>7
<1> QED  BY <1>1, <1>2, <1>3, <1>4, <1>5, <1>7 DEF Next

\* An incremental or partial run publishes what it read and forgets nothing
\* that earlier runs published and the window still holds.
THEOREM NoReviewLost == Spec => NoPublishedReviewLost
<1> DEFINE NotLost ==
      \A v \in Documents :
        v \notin Documents' =>
          \/ StoreOf[v] \notin publicStores'
          \/ \E r \in Run : /\ version'[r].status = "ACTIVE"
                            /\ DayOf[v] < version'[r].asOf - Window
<1>1. ASSUME PublishInv, [Next]_vars, NEW v \in Documents, v \notin Documents'
      PROVE  \/ StoreOf[v] \notin publicStores'
             \/ \E r \in Run : /\ version'[r].status = "ACTIVE"
                               /\ DayOf[v] < version'[r].asOf - Window
  <2>1. CASE \E s \in Store :
               /\ Documents' = {x \in Documents : StoreOf[x] # s}
               /\ s \notin publicStores' /\ version' = version
    BY <1>1, <2>1
  <2>2. ASSUME NEW p \in Publisher, NEW left \in SUBSET Review,
               pub[p].asOf \in 0..LastDay,
               left = {x \in Documents \cup pub[p].new :
                         Kept(x, pub[p].asOf)},
               pub[p].run \in Run, Documents' = left,
               version'[pub[p].run] = ActiveVersion(pub[p].asOf, left)
        PROVE  \E r \in Run : /\ version'[r].status = "ACTIVE"
                              /\ DayOf[v] < version'[r].asOf - Window
    <3>1. DayOf[v] \in Int /\ Window \in Int /\ pub[p].asOf \in Int
      BY <2>2, PublishAssumption, ConstantsTyped, PurgeAssumption
      DEF Documents
    <3>2. ~(DayOf[v] >= pub[p].asOf - Window)
      BY <1>1, <2>2 DEF Kept, InWindow
    <3>3. /\ version'[pub[p].run].status = "ACTIVE"
          /\ version'[pub[p].run].asOf = pub[p].asOf
      BY <2>2 DEF ActiveVersion
    <3>4. DayOf[v] < pub[p].asOf - Window
      BY <3>1, <3>2
    <3> QED  BY <2>2, <3>3, <3>4
  <2> QED  BY <1>1, <2>1, <2>2, CorpusSteps, PurgeAssumption
<1>2. PublishInv /\ [Next]_vars => [NotLost]_vars
  BY <1>1
<1> QED  BY <1>2, PublishInvariant, PTL DEF Spec, NoPublishedReviewLost

-----------------------------------------------------------------------------
(* Refinement of ReviewCorpus *)

LEMMA CorpusInit ==
  ASSUME Init
  PROVE  Corpus!Init
<1>1. Documents = {} /\ Active = {}
  BY DEF Init, Documents, Active, NoVersion
<1> QED  BY <1>1 DEF Corpus!Init, ActiveDate

\* The publication that PersistPublish is a step of the corpus: its date is
\* not before the active one, which NotStale has asked inside the transaction.
LEMMA PersistIsPublish ==
  ASSUME PurgeAssumption, PublishAssumption, PublishInv,
         NEW p \in Publisher, PersistPublish(p),
         NEW left \in SUBSET Review, pub[p].asOf \in 0..LastDay,
         left = {v \in Documents \cup pub[p].new : Kept(v, pub[p].asOf)},
         pub[p].new \subseteq Review, pub[p].run \in Run,
         Documents' = left, Active' = {pub[p].run},
         version'[pub[p].run] = ActiveVersion(pub[p].asOf, left)
  PROVE  Corpus!Publish
<1>1. ActiveDate <= pub[p].asOf
  <2>1. CASE Active = {}
    BY <2>1 DEF ActiveDate
  <2>2. CASE Active # {}
    <3>1. (CHOOSE r \in Active : TRUE) \in Active
      BY <2>2
    <3> QED  BY <2>2, <3>1 DEF ActiveDate, PersistPublish, NotStale
  <2> QED  BY <2>1, <2>2
<1>2. ActiveDate' = pub[p].asOf
  <2>1. (CHOOSE r \in Active' : TRUE) = pub[p].run /\ Active' # {}
    BY DEF ActiveVersion
  <2>2. version'[pub[p].run].asOf = pub[p].asOf
    BY DEF ActiveVersion
  <2> QED  BY <2>1, <2>2 DEF ActiveDate
<1>3. left = {v \in Documents \cup pub[p].new :
                Corpus!InWindow(v, pub[p].asOf)}
  BY DEF Kept, InWindow, Corpus!InWindow
<1>4. pub[p].asOf >= ActiveDate
  <2>1. ActiveDate \in 0..LastDay
    <3>1. CASE Active = {}
      BY <3>1, ConstantsTyped DEF ActiveDate
    <3>2. CASE Active # {}
      <4>1. \A r \in Active : version[r].asOf \in 0..LastDay
        BY DEF Active, PublishInv, PublishTypeOK, VersionRow
      <4>2. (CHOOSE r \in Active : TRUE) \in Active
        BY <3>2
      <4> QED  BY <3>2, <4>1, <4>2 DEF ActiveDate
    <3> QED  BY <3>1, <3>2
  <2> QED  BY <1>1, <2>1, ConstantsTyped
<1> QED  BY <1>2, <1>3, <1>4 DEF Corpus!Publish

LEMMA CorpusNext ==
  ASSUME PurgeAssumption, PublishAssumption, PublishInv, [Next]_vars
  PROVE  [Corpus!Next]_<<ActiveDate, Documents>>
<1>1. version' = version => ActiveDate' = ActiveDate
  BY DEF ActiveDate, Active
<1>2. CASE Documents' = Documents /\ version' = version
  BY <1>1, <1>2
<1>3. CASE \E s \in Store : /\ Documents' = {v \in Documents : StoreOf[v] # s}
                            /\ s \notin publicStores' /\ version' = version
  BY <1>1, <1>3 DEF Corpus!Next, Corpus!Unpublish
<1>4. CASE \E p \in Publisher, left \in SUBSET Review :
             /\ PersistPublish(p) /\ pub[p].asOf \in 0..LastDay
             /\ left = {v \in Documents \cup pub[p].new :
                          Kept(v, pub[p].asOf)}
             /\ pub[p].new \subseteq Review /\ pub[p].run \in Run
             /\ Documents' = left /\ Active' = {pub[p].run}
             /\ version'[pub[p].run] = ActiveVersion(pub[p].asOf, left)
  BY <1>4, PersistIsPublish DEF Corpus!Next
<1> QED  BY <1>2, <1>3, <1>4, CorpusSteps

\* Publication implements one dated corpus whose date never goes back.
THEOREM PublicationImplementsCorpus == Spec => ImplementsCorpus
<1>1. Init => Corpus!Init
  BY CorpusInit
<1>2. PublishInv /\ [Next]_vars => [Corpus!Next]_<<ActiveDate, Documents>>
  BY PurgeAssumption, PublishAssumption, CorpusNext
<1> QED
  BY <1>1, <1>2, PublishInvariant, PTL DEF Spec, ImplementsCorpus, Corpus!Spec
=============================================================================
