---------------------------- MODULE ReviewPurge ----------------------------
(***************************************************************************)
(* Retention of raw.sqlite: purgeExpiredReviewData deletes what is past    *)
(* its day from ten tables in one transaction, children before parents.    *)
(*                                                                         *)
(* Discovery and collection are here only as the writers of the rows the   *)
(* purge deletes: who wrote a row, what it references and when it expires. *)
(* Time is counted in days; a table is a function from keys to the day its *)
(* row expires, NoRow where there is none.                                 *)
(***************************************************************************)
EXTENDS Integers, FiniteSets

CONSTANTS
  Store,        \* stores matched by a discovery
  Discovery,    \* discovery run ids
  Run,          \* review run ids
  Review,       \* reviews of the provider
  DeleteRun,    \* ids the operator gives to purges
  NoRun,        \* not a run
  DiscoveryOf,  \* the discovery each review run reads
  StoreOf,      \* the store of each review
  RawDays,      \* RAW_RETENTION_MS and LOCATOR_RETENTION_MS: 30 days
  AuditDays,    \* AUDIT_RETENTION_MS and its likes: 400 days
  LastDay       \* bound: the last day anything is written

ASSUME PurgeAssumption ==
  /\ NoRun \notin Run
  /\ DiscoveryOf \in [Run -> Discovery]
  /\ StoreOf \in [Review -> Store]
  /\ RawDays \in Nat \ {0}
  /\ AuditDays \in Nat /\ RawDays <= AuditDays
  /\ LastDay \in Nat \ {0}
  /\ DeleteRun # {}
  /\ \A Keys \in {Store, Discovery, Run, Review, DeleteRun} : IsFiniteSet(Keys)

VARIABLES
  now,          \* today
  discovery,    \* kakao_discovery_run
  observation,  \* kakao_place_observation, by discovery and store
  locator,      \* kakao_place_locator, one for an observation
  run,          \* review_collection_run
  checkpoint,   \* review_checkpoint, by run and store
  failure,      \* deidentification_failure, by run and store
  raw,          \* raw_review_ciphertext
  seen,         \* review_seen_fingerprint
  sync,         \* review_store_sync_state
  audit,        \* raw_delete_audit
  purge,        \* the process inside purgeExpiredReviewData
  killSwitch    \* onKillSwitch has been called

tables == <<discovery, observation, locator, run, checkpoint, failure, raw,
            seen, sync>>
rawVars == <<now, tables, audit, purge, killSwitch>>

NoRow   == 0
Expiry  == 0..(LastDay + AuditDays)
Place   == Discovery \X Store
Step    == Run \X Store
Statuses == {"none", "RUNNING", "SUCCEEDED", "PARTIAL", "STOPPED"}

(* as_of_date, and collected_count as the set of the rows it counts. *)
RunRow == [status : Statuses, asOf : 0..LastDay, counted : SUBSET Review,
           until : Expiry]
NoRunRow == [status |-> "none", asOf |-> 0, counted |-> {}, until |-> NoRow]

RawRow == [run : Run \cup {NoRun}, until : Expiry]
NoRaw  == [run |-> NoRun, until |-> NoRow]

AuditRow == [status : {"none", "SUCCEEDED", "FAILED"}, attempted : Nat,
             deleted : Nat, failed : Nat, until : Expiry]
NoAudit  == [status |-> "none", attempted |-> 0, deleted |-> 0,
             failed |-> 0, until |-> NoRow]

Purger == [pc : {"idle", "counted"}, id : DeleteRun, at : 0..LastDay,
           attempted : Nat]

TypeOK ==
  /\ now \in 0..LastDay
  /\ discovery \in [Discovery -> Expiry]
  /\ observation \in [Place -> Expiry] /\ locator \in [Place -> Expiry]
  /\ run \in [Run -> RunRow]
  /\ checkpoint \in [Step -> Expiry] /\ failure \in [Step -> Expiry]
  /\ raw \in [Review -> RawRow]
  /\ seen \in [Review -> Expiry] /\ sync \in [Store -> Expiry]
  /\ audit \in [DeleteRun -> AuditRow]
  /\ purge \in Purger
  /\ killSwitch \in BOOLEAN

Empty(Key) == [k \in Key |-> NoRow]

RawInit ==
  /\ now = 1
  /\ discovery = Empty(Discovery)
  /\ observation = Empty(Place) /\ locator = Empty(Place)
  /\ run = [r \in Run |-> NoRunRow]
  /\ checkpoint = Empty(Step) /\ failure = Empty(Step)
  /\ raw = [v \in Review |-> NoRaw]
  /\ seen = Empty(Review) /\ sync = Empty(Store)
  /\ audit = [x \in DeleteRun |-> NoAudit]
  /\ \E x \in DeleteRun :
       purge = [pc |-> "idle", id |-> x, at |-> 0, attempted |-> 0]
  /\ killSwitch = FALSE

Live(Table)        == {k \in DOMAIN Table : Table[k] # NoRow}
Past(Table, t)     == {k \in Live(Table) : Table[k] <= t}
Without(Table, Ks) == [k \in DOMAIN Table |-> IF k \in Ks THEN NoRow
                                                          ELSE Table[k]]

RawUntil == [v \in Review |-> raw[v].until]
RunUntil == [r \in Run |-> run[r].until]

(* The row a key references: foreign keys of raw.sqlite. *)
PlaceOfStep(k)  == <<DiscoveryOf[k[1]], k[2]>>
PlaceOfRaw(v)   == <<DiscoveryOf[raw[v].run], StoreOf[v]>>

-----------------------------------------------------------------------------
(* The writers. *)

NextDay ==
  /\ now < LastDay
  /\ now' = now + 1
  /\ UNCHANGED <<tables, audit, purge, killSwitch>>

(* A discovery run matches store s and keeps how to reach its page. *)
Discover(d, s) ==
  /\ discovery[d] \in {NoRow, now + AuditDays}
  /\ observation[<<d, s>>] = NoRow
  /\ discovery' = [discovery EXCEPT ![d] = now + AuditDays]
  /\ observation' = [observation EXCEPT ![<<d, s>>] = now + AuditDays]
  /\ locator' = [locator EXCEPT ![<<d, s>>] = now + RawDays]
  /\ UNCHANGED <<now, run, checkpoint, failure, raw, seen, sync, audit,
                 purge, killSwitch>>

Target(d) == {s \in Store : locator[<<d, s>>] # NoRow}

StartRun(r) ==
  /\ run[r].status = "none" /\ Target(DiscoveryOf[r]) # {}
  /\ \A q \in Run : run[q].status # "RUNNING"
  /\ run' = [run EXCEPT ![r] = [status |-> "RUNNING", asOf |-> now,
                                counted |-> {}, until |-> now + AuditDays]]
  /\ checkpoint' = [k \in Step |->
                      IF k[1] = r /\ k[2] \in Target(DiscoveryOf[r])
                      THEN now + AuditDays ELSE checkpoint[k]]
  /\ UNCHANGED <<now, discovery, observation, locator, failure, raw, seen,
                 sync, audit, purge, killSwitch>>

(* A review not seen before is stored.  collected_count is written after   *)
(* the store's pass: a crash in between keeps the row and loses the count. *)
Collect(r, v) ==
  /\ run[r].status = "RUNNING" /\ StoreOf[v] \in Target(DiscoveryOf[r])
  /\ seen[v] = NoRow /\ raw[v] = NoRaw
  /\ raw' = [raw EXCEPT ![v] = [run |-> r, until |-> now + RawDays]]
  /\ \E counts \in BOOLEAN :
       run' = [run EXCEPT ![r].counted = IF counts THEN @ \cup {v} ELSE @]
  /\ seen' = [seen EXCEPT ![v] = now + AuditDays]
  /\ checkpoint' = [checkpoint EXCEPT ![<<r, StoreOf[v]>>] = now + AuditDays]
  /\ UNCHANGED <<now, discovery, observation, locator, failure, sync, audit,
                 purge, killSwitch>>

(* deidentifyReview rejects a review of store s. *)
Reject(r, s) ==
  /\ run[r].status = "RUNNING" /\ s \in Target(DiscoveryOf[r])
  /\ failure[<<r, s>>] = NoRow
  /\ failure' = [failure EXCEPT ![<<r, s>>] = now + AuditDays]
  /\ UNCHANGED <<now, discovery, observation, locator, run, checkpoint, raw,
                 seen, sync, audit, purge, killSwitch>>

(* The run ends.  Success has moved the anchors and drops the locators. *)
FinishRun(r) ==
  /\ run[r].status = "RUNNING"
  /\ \E st \in {"SUCCEEDED", "PARTIAL"} :
       /\ run' = [run EXCEPT ![r].status = st]
       /\ LET Mine == Target(DiscoveryOf[r]) IN
          /\ sync' = [s \in Store |-> IF st = "SUCCEEDED" /\ s \in Mine
                                      THEN now + AuditDays ELSE sync[s]]
          /\ locator' = IF st = "SUCCEEDED"
                        THEN Without(locator, {DiscoveryOf[r]} \X Store)
                        ELSE locator
  /\ UNCHANGED <<now, discovery, observation, checkpoint, failure, raw, seen,
                 audit, purge, killSwitch>>

Writers ==
  \/ NextDay
  \/ \E d \in Discovery, s \in Store : Discover(d, s)
  \/ \E r \in Run : \/ StartRun(r) \/ FinishRun(r)
                    \/ \E v \in Review : Collect(r, v)
                    \/ \E s \in Store : Reject(r, s)

-----------------------------------------------------------------------------
(* The purge: what each DELETE takes, in the order of the code. *)

Children(t) ==
  [raw |-> Past(RawUntil, t), locator |-> Past(locator, t),
   seen |-> Past(seen, t), sync |-> Past(sync, t),
   failure |-> Past(failure, t), checkpoint |-> Past(checkpoint, t)]

(* What is left after the first six statements. *)
RawLeft(t)        == Live(RawUntil) \ Past(RawUntil, t)
LocatorLeft(t)    == Live(locator) \ Past(locator, t)
CheckpointLeft(t) == Live(checkpoint) \ Past(checkpoint, t)
FailureLeft(t)    == Live(failure) \ Past(failure, t)

(* Mutants: checkpoints are not looked at; rows are looked at before the   *)
(* statements that delete them.                                            *)
NeededPlacesNoSteps(t) ==
  {PlaceOfRaw(v) : v \in RawLeft(t)} \cup LocatorLeft(t)
NeededPlacesBefore(t) ==
  {PlaceOfRaw(v) : v \in Live(RawUntil)} \cup Live(locator)
    \cup {PlaceOfStep(k) : k \in Live(checkpoint) \cup Live(failure)}

NeededPlaces(t) ==
  {PlaceOfRaw(v) : v \in RawLeft(t)} \cup LocatorLeft(t)
    \cup {PlaceOfStep(k) : k \in CheckpointLeft(t) \cup FailureLeft(t)}
ObservationGone(t) == Past(observation, t) \ NeededPlaces(t)

(* Mutant: a run's checkpoints do not hold it. *)
NeededRunsNoSteps(t) ==
  {raw[v].run : v \in RawLeft(t)} \cup {k[1] : k \in FailureLeft(t)}

NeededRuns(t) ==
  {raw[v].run : v \in RawLeft(t)}
    \cup {k[1] : k \in CheckpointLeft(t) \cup FailureLeft(t)}
RunGone(t) == Past(RunUntil, t) \ NeededRuns(t)

NeededDiscoveries(t) ==
  {p[1] : p \in Live(observation) \ ObservationGone(t)}
    \cup {DiscoveryOf[r] : r \in Live(RunUntil) \ RunGone(t)}
DiscoveryGone(t) == Past(discovery, t) \ NeededDiscoveries(t)

AuditUntil == [x \in DeleteRun |-> audit[x].until]
AuditGone(t, x) == Past(AuditUntil, t) \ {x}

Size(c) == Cardinality(c.raw) + Cardinality(c.locator)
             + Cardinality(c.seen) + Cardinality(c.sync)
             + Cardinality(c.failure) + Cardinality(c.checkpoint)

(* candidateCount: an expired observation counts unless an unexpired child *)
(* holds it; expired runs and discoveries count whatever references them.  *)
CandidateCount(t) ==
  Size(Children(t)) + Cardinality(ObservationGone(t))
    + Cardinality(Past(RunUntil, t)) + Cardinality(Past(discovery, t))
    + Cardinality(Past(AuditUntil, t))

DeletedCount(t, x) ==
  Size(Children(t)) + Cardinality(ObservationGone(t))
    + Cardinality(RunGone(t)) + Cardinality(DiscoveryGone(t))
    + Cardinality(AuditGone(t, x))

(* ON DELETE RESTRICT: a row that stays references a row being deleted. *)
Restricted(t) ==
  \/ \E v \in RawLeft(t) : PlaceOfRaw(v) \in ObservationGone(t)
  \/ \E k \in CheckpointLeft(t) \cup FailureLeft(t) :
       PlaceOfStep(k) \in ObservationGone(t)
  \/ \E r \in Live(RunUntil) \ RunGone(t) :
       DiscoveryOf[r] \in DiscoveryGone(t)

(* raw_delete_audit_counts_valid and the primary key of the audit. *)
AuditRefused(t, x) ==
  \/ audit[x].status # "none"
  \/ DeletedCount(t, x) > purge.attempted

PurgeCount(x) ==
  /\ purge.pc = "idle"
  /\ purge' = [pc |-> "counted", id |-> x, at |-> now,
               attempted |-> CandidateCount(now)]
  /\ UNCHANGED <<now, tables, audit, killSwitch>>

(* ON DELETE CASCADE takes what still references a deleted row. *)
PurgeDelete ==
  LET t == purge.at
      x == purge.id
      c == Children(t)
      dead == ObservationGone(t) \cup (DiscoveryGone(t) \X Store)
  IN
  /\ purge.pc = "counted"
  /\ ~Restricted(t) /\ ~AuditRefused(t, x)
  /\ raw' = [v \in Review |-> IF v \in c.raw \/ raw[v].run \in RunGone(t)
                              THEN NoRaw ELSE raw[v]]
  /\ locator' = Without(locator, c.locator \cup dead)
  /\ seen' = Without(seen, c.seen)
  /\ sync' = Without(sync, c.sync)
  /\ failure' = Without(failure, c.failure \cup (RunGone(t) \X Store))
  /\ checkpoint' = Without(checkpoint,
                           c.checkpoint \cup (RunGone(t) \X Store))
  /\ observation' = Without(observation, dead)
  /\ run' = [r \in Run |-> IF r \in RunGone(t) THEN NoRunRow ELSE run[r]]
  /\ discovery' = Without(discovery, DiscoveryGone(t))
  /\ audit' = [y \in DeleteRun |->
                 CASE y = x -> [status |-> "SUCCEEDED",
                                attempted |-> purge.attempted,
                                deleted |-> DeletedCount(t, x),
                                failed |-> 0, until |-> t + AuditDays]
                   [] y \in AuditGone(t, x) -> NoAudit
                   [] OTHER -> audit[y]]
  /\ purge' = [purge EXCEPT !.pc = "idle"]
  /\ UNCHANGED <<now, killSwitch>>

PurgeFails ==
  LET x == purge.id
      failed == [status |-> "FAILED", attempted |-> purge.attempted,
                 deleted |-> 0, failed |-> purge.attempted,
                 until |-> purge.at + AuditDays]
  IN
  /\ purge.pc = "counted"
  /\ audit' \in {audit} \cup (IF audit[x].status = "none"
                              THEN {[audit EXCEPT ![x] = failed]} ELSE {})
  /\ killSwitch' = TRUE
  /\ purge' = [purge EXCEPT !.pc = "idle"]
  /\ UNCHANGED <<now, tables>>

Purging == (\E x \in DeleteRun : PurgeCount(x)) \/ PurgeDelete \/ PurgeFails

RawNext == Writers \/ Purging
RawSpec == RawInit /\ [][RawNext]_rawVars

-----------------------------------------------------------------------------
(* Properties *)

Deletes == purge.pc = "counted" /\ purge'.pc = "idle"

Vanished(Table, After) == {k \in Live(Table) : After[k] = NoRow}

(* A purge takes nothing before its day: not even a review, checkpoint or  *)
(* rejection whose run has expired, which the run would take along by      *)
(* ON DELETE CASCADE (a run resumed late keeps rows longer than itself).   *)
PurgeSparesRetained ==
  [][Deletes =>
       /\ \A v \in Vanished(RawUntil, RawUntil') : RawUntil[v] <= purge.at
       /\ \A k \in Vanished(checkpoint, checkpoint') :
            checkpoint[k] <= purge.at
       /\ \A k \in Vanished(failure, failure') : failure[k] <= purge.at
       /\ \A p \in Vanished(locator, locator') : locator[p] <= purge.at
       /\ \A v \in Vanished(seen, seen') : seen[v] <= purge.at
    ]_rawVars

(* Between the count and the transaction other processes may write; still  *)
(* no ON DELETE RESTRICT and no CHECK on the audit's counts can turn the   *)
(* purge into RAW_DELETE_FAILED.                                           *)
PurgeNeverBlocked ==
  purge.pc = "counted" =>
    /\ ~Restricted(purge.at)
    /\ DeletedCount(purge.at, purge.id) <= purge.attempted

(* What a successful purge leaves behind past its day is held by a row     *)
(* that is still to be kept: children go before the parents they hold.     *)
Held(p, t) ==
  \/ \E v \in Review : raw[v].until > t /\ PlaceOfRaw(v) = p
  \/ locator[p] > t
  \/ \E k \in Step :
       (checkpoint[k] > t \/ failure[k] > t) /\ PlaceOfStep(k) = p
HeldRun(r, t) ==
  \/ \E v \in Review : raw[v].until > t /\ raw[v].run = r
  \/ \E s \in Store : checkpoint[<<r, s>>] > t \/ failure[<<r, s>>] > t

NothingOutstays ==
  [][Deletes /\ ~killSwitch' =>
       LET t == purge.at IN
       /\ Past(RawUntil', t) = {} /\ Past(locator', t) = {}
       /\ \A p \in Past(observation', t) : Held(p, t)'
       /\ \A r \in Past(RunUntil', t) : HeldRun(r, t)'
       /\ \A d \in Past(discovery', t) :
            \/ \E s \in Store : observation'[<<d, s>>] # NoRow
            \/ \E r \in Run : run'[r].until # NoRow /\ DiscoveryOf[r] = d
    ]_rawVars

=============================================================================
