----------------------- MODULE ReviewCollectionProofs -----------------------
(* The types of the collection, that its ledger of known reviews can be      *)
(* trusted, and that it implements ReviewLedger, for every value of the      *)
(* constants.                                                                *)
EXTENDS ReviewCollection, FiniteSetTheorems, TLAPS

-----------------------------------------------------------------------------
(* Types *)

\* A process that was invoked knows its run, one inside collectStoreReviews its
\* store, and one that left it how it ended.
WorkerOK(w) ==
  /\ w.pc # "idle" => w.run \in Run
  /\ w.pc \in {"open", "read", "protect", "sealed", "closed", "settle"}
       => w.store \in Store
  /\ w.pc = "settle" => w.outcome # "none"

WorkOK == \A p \in Proc : WorkerOK(worker[p])

TypeInv == TypeOK /\ WorkOK

LEMMA FiniteTargets ==
  ASSUME CollectionAssumption, NEW S \in SUBSET Store
  PROVE  IsFiniteSet(S) /\ Cardinality(S) \in Nat
<1>1. IsFiniteSet(Store)
  BY FS_Interval DEF CollectionAssumption, Store
<1> QED
  BY <1>1, FS_Subset, FS_CardinalityType

LEMMA NoCountsTyped == NoCounts \in Counts
BY DEF NoCounts, Counts

LEMMA CountsUpdate ==
  ASSUME NEW c \in Counts, NEW i \in Nat, NEW j \in Nat
  PROVE  [c EXCEPT !.initial = i, !.incremental = j] \in Counts
<1> DEFINE b == [c EXCEPT !.initial = i]
<1>1. b \in Counts
  BY DEF Counts
<1> HIDE DEF b
<1>2. [b EXCEPT !.incremental = j] \in Counts
  BY <1>1 DEF Counts
<1>3. [c EXCEPT !.initial = i, !.incremental = j]
        = [b EXCEPT !.incremental = j]
  BY DEF b, Counts
<1> QED  BY <1>2, <1>3

LEMMA StepNames ==
  /\ "idle" \in Steps /\ "pending" \in Steps /\ "loop" \in Steps
  /\ "open" \in Steps /\ "read" \in Steps /\ "protect" \in Steps
  /\ "sealed" \in Steps /\ "closed" \in Steps /\ "settle" \in Steps
  /\ "account" \in Steps /\ "finish" \in Steps
BY DEF Steps

LEMMA OutcomeNames ==
  /\ "none" \in Outcomes /\ "done" \in Outcomes /\ "paused" \in Outcomes
  /\ "access" \in Outcomes /\ "dom" \in Outcomes /\ "failed" \in Outcomes
  /\ "fatal" \in Outcomes
BY DEF Outcomes

LEMMA ModeNames ==
  /\ "INITIAL_BACKFILL" \in Modes /\ "INCREMENTAL" \in Modes
  /\ "BACKFILL_FALLBACK" \in Modes
BY DEF Modes

LEMMA NoReviewIsAnchor == NoReview \in Anchor /\ Day \subseteq Anchor
BY DEF Anchor

LEMMA IdleTyped == Idle \in Worker /\ Idle.pc = "idle" /\ Idle.run = NoRun
<1>1. "SUCCEEDED" \in Finals /\ "MORE" \in Boundaries
  BY DEF Finals, Closed, Boundaries
<1> QED
  BY <1>1, StepNames, OutcomeNames, ModeNames, NoReviewIsAnchor, NoCountsTyped
     DEF Idle, Worker

LEMMA NoPageTyped ==
  NoPage \in PageRow /\ \A n \in Nat : PartialPage(n) \in PageRow
BY NoReviewIsAnchor DEF NoPage, PartialPage, PageRow, ModeOrNone

LEMMA InitTyped == ASSUME CollectionAssumption, Init PROVE TypeInv
<1>1. TypeOK
  <2>1. "NONE" \in Statuses /\ "NONE" \in StoreStates /\ "none" \in ModeOrNone
    BY DEF Statuses, StoreStates, ModeOrNone
  <2>2. 0 \in 0..LastDay /\ \A s \in Store : Listed[s] \subseteq Day
    BY DEF CollectionAssumption, Day
  <2>3. /\ run \in [Run -> RunRow]
        /\ storeCheckpoint \in [Run -> [Store -> StoreCheckpoint]]
        /\ sync \in [Store -> SyncState]
    BY <2>1, <2>2, NoCountsTyped, NoReviewIsAnchor
       DEF Init, RunRow, StoreCheckpoint, SyncState
  <2> QED
    BY <2>2, <2>3, IdleTyped DEF CollectionAssumption, Init, TypeOK
<1>2. WorkOK
  BY IdleTyped DEF Init, WorkOK, WorkerOK
<1> QED  BY <1>1, <1>2 DEF TypeInv

\* An action changes the memory of one process.
LEMMA WorkerUpdate ==
  ASSUME TypeInv, NEW p \in Proc, NEW v \in Worker, WorkerOK(v), Becomes(p, v)
  PROVE  worker' \in [Proc -> Worker] /\ WorkOK'
<1>1. worker \in [Proc -> Worker] /\ WorkOK
  BY DEF TypeInv, TypeOK
<1>2. worker' \in [Proc -> Worker]
  BY <1>1 DEF Becomes
<1>3. \A q \in Proc : worker'[q] = IF q = p THEN v ELSE worker[q]
  BY <1>1 DEF Becomes
<1> QED
  BY <1>1, <1>2, <1>3 DEF WorkOK

\* Steps that touch nothing but the memory of a process.
LEMMA OnlyWorker ==
  ASSUME TypeInv, NEW p \in Proc, NEW v \in Worker, WorkerOK(v), Becomes(p, v),
         UNCHANGED <<provider, database, invocations>>
  PROVE  TypeInv'
<1>1. worker' \in [Proc -> Worker] /\ WorkOK'
  BY WorkerUpdate
<1> QED
  BY <1>1 DEF TypeInv, TypeOK, provider, database

\* The memory a process works with.
LEMMA WorkerTyped ==
  ASSUME TypeInv, NEW p \in Proc
  PROVE  worker[p] \in Worker /\ WorkerOK(worker[p])
BY DEF TypeInv, TypeOK, WorkOK

LEMMA ProviderTyped ==
  ASSUME TypeInv, CollectionAssumption, Provider
  PROVE  TypeInv'
<1> USE DEF TypeInv, TypeOK, WorkOK, progress, reviews, CollectionAssumption,
            Day
<1>1. ASSUME NEW s \in Store, Post(s) PROVE TypeInv'
  BY <1>1 DEF Post
<1>2. ASSUME NEW s \in Store, NEW d \in Day, Hide(s, d) PROVE TypeInv'
  BY <1>2 DEF Hide
<1>3. ASSUME NEW s \in Store, NEW d \in Day, Reveal(s, d) PROVE TypeInv'
  BY <1>3 DEF Reveal
<1> QED
  BY <1>1, <1>2, <1>3 DEF Provider

LEMMA StartTyped ==
  ASSUME TypeInv, CollectionAssumption, NEW p \in Proc, NEW r \in Run,
         StartRun(p, r)
  PROVE  TypeInv'
<1> DEFINE T == Targets(r)
           ready == ReadyStores(T)
<1>1. T \in SUBSET Store /\ ready \in SUBSET Store
  BY DEF Targets, CollectionAssumption, TypeInv, TypeOK, ReadyStores
<1>2. /\ Cardinality(T) \in Nat /\ Cardinality(ready) \in Nat
      /\ Cardinality(T \ ready) \in Nat
  BY <1>1, FiniteTargets
<1>3. run \in [Run -> RunRow] /\ today \in 0..LastDay
  BY DEF TypeInv, TypeOK
<1> DEFINE c == [NoCounts EXCEPT !.initial = Cardinality(T \ ready),
                                 !.incremental = Cardinality(ready)]
           row == [status |-> "RUNNING", slot |-> TRUE, asOf |-> today,
                   stores |-> Cardinality(T), counts |-> c]
           v == [Idle EXCEPT !.pc = "pending", !.run = r, !.left = T,
                             !.pend = T, !.ready = ready]
<1>4. /\ Becomes(p, v) /\ run' = [run EXCEPT ![r] = row]
      /\ invocations' = [invocations EXCEPT ![r] = @ + 1]
      /\ UNCHANGED <<provider, progress, reviews, locators>>
  BY DEF StartRun
<1> HIDE DEF T, ready
<1>5. c \in Counts
  BY <1>2, NoCountsTyped, CountsUpdate
<1>6. row \in RunRow
  <2> HIDE DEF c
  <2>1. "RUNNING" \in Statuses
    BY DEF Statuses
  <2> QED  BY <1>2, <1>3, <1>5, <2>1 DEF RunRow
<1>7. v \in Worker /\ v.pc = "pending" /\ v.run = r
  BY <1>1, IdleTyped, StepNames DEF Worker
<1> HIDE DEF v, row
<1>8. WorkerOK(v)
  BY <1>7 DEF WorkerOK
<1>9. worker' \in [Proc -> Worker] /\ WorkOK'
  BY <1>4, <1>7, <1>8, WorkerUpdate
<1>10. run' \in [Run -> RunRow]
  BY <1>3, <1>4, <1>6
<1> QED
  BY <1>4, <1>9, <1>10 DEF TypeInv, TypeOK, provider, progress, reviews

LEMMA ResumeTyped ==
  ASSUME TypeInv, CollectionAssumption, NEW p \in Proc, NEW r \in Run,
         ResumeRun(p, r)
  PROVE  TypeInv'
<1> DEFINE T == Targets(r)
           row == [run[r] EXCEPT !.status = "RUNNING", !.slot = TRUE]
           v == [Idle EXCEPT !.pc = "loop", !.run = r, !.left = T,
                             !.counts = run[r].counts]
<1>1. T \in SUBSET Store
  BY DEF Targets, CollectionAssumption, TypeInv, TypeOK
<1>2. run \in [Run -> RunRow] /\ run[r] \in RunRow
  BY DEF TypeInv, TypeOK
<1>3. run[r].counts \in Counts
  BY <1>2 DEF RunRow
<1>4. /\ Becomes(p, v) /\ run' = [run EXCEPT ![r] = row]
      /\ invocations' = [invocations EXCEPT ![r] = @ + 1]
      /\ UNCHANGED <<provider, progress, reviews, locators>>
  BY DEF ResumeRun
<1> HIDE DEF T
<1>5. v \in Worker /\ v.pc = "loop" /\ v.run = r
  BY <1>1, <1>3, IdleTyped, StepNames DEF Worker
<1>6. row \in RunRow
  BY <1>2 DEF RunRow, Statuses
<1> HIDE DEF v, row
<1>7. worker' \in [Proc -> Worker] /\ WorkOK'
  BY <1>4, <1>5, WorkerUpdate DEF WorkerOK
<1>8. run' \in [Run -> RunRow]
  BY <1>2, <1>4, <1>6
<1> QED
  BY <1>4, <1>7, <1>8 DEF TypeInv, TypeOK, provider, progress, reviews

\* The loop of runReviewBatch before collectStoreReviews.
LEMMA LoopTyped ==
  ASSUME TypeInv, NEW p \in Proc, NEW s \in Store
  PROVE  /\ WritePending(p, s) => TypeInv'
         /\ SkipStore(p, s) => TypeInv'
         /\ PauseBefore(p, s) => TypeInv'
         /\ BeginStore(p, s) => TypeInv'
<1> DEFINE w == worker[p]
<1>1. w \in Worker /\ WorkerOK(w)
  BY WorkerTyped
<1>2. storeCheckpoint \in [Run -> [Store -> StoreCheckpoint]]
  BY DEF TypeInv, TypeOK
<1>3. w.pc # "idle" => w.run \in Run
  BY <1>1 DEF WorkerOK
<1> HIDE DEF w
<1>4. CASE WritePending(p, s)
  <2> DEFINE v == [w EXCEPT !.pend = @ \ {s}]
             c == [state |-> "PENDING",
                   mode |-> IF s \in w.ready THEN "INCREMENTAL"
                                             ELSE "INITIAL_BACKFILL"]
  <2>1. /\ Becomes(p, v) /\ w.pc = "pending"
        /\ storeCheckpoint' = [storeCheckpoint EXCEPT ![w.run][s] = c]
        /\ UNCHANGED <<provider, run, pageCheckpoint, sync, reviews, locators,
                       invocations>>
    BY <1>4 DEF WritePending, w
  <2>2. v \in Worker /\ v.pc = "pending" /\ v.run = w.run
    BY <1>1, <2>1 DEF Worker
  <2> HIDE DEF v
  <2>3. worker' \in [Proc -> Worker] /\ WorkOK'
    BY <1>3, <2>1, <2>2, WorkerUpdate DEF WorkerOK
  <2>4. c \in StoreCheckpoint
    BY ModeNames DEF StoreCheckpoint, StoreStates, ModeOrNone
  <2> HIDE DEF c
  <2>5. storeCheckpoint' \in [Run -> [Store -> StoreCheckpoint]]
    BY <1>2, <2>1, <2>4
  <2> QED
    BY <2>1, <2>3, <2>5 DEF TypeInv, TypeOK, provider, reviews
<1>5. CASE SkipStore(p, s)
  <2> DEFINE v == [w EXCEPT !.left = @ \ {s}]
  <2>1. Becomes(p, v) /\ w.pc = "loop"
    BY <1>5 DEF SkipStore, AtTarget, w
  <2>2. v \in Worker /\ v.pc = "loop" /\ v.run = w.run
    BY <1>1, <2>1 DEF Worker
  <2> HIDE DEF v
  <2> QED  BY <1>3, <1>5, <2>1, <2>2, OnlyWorker DEF SkipStore, WorkerOK
<1>6. CASE PauseBefore(p, s)
  <2>1. PICK f \in Paused : Pause(p, f) /\ w.pc = "loop"
    BY <1>6 DEF PauseBefore, ToCollect, AtTarget, w, Paused
  <2> DEFINE v == [w EXCEPT !.pc = "finish", !.final = f]
  <2>2. Becomes(p, v)
    BY <2>1 DEF Pause, w
  <2>3. v \in Worker /\ v.pc = "finish" /\ v.run = w.run
    BY <1>1, StepNames DEF Worker, Finals
  <2> HIDE DEF v
  <2> QED
    BY <1>3, <1>6, <2>1, <2>2, <2>3, OnlyWorker DEF PauseBefore, WorkerOK
<1>7. CASE BeginStore(p, s)
  <2> DEFINE m == TargetMode(RowOf(p, s))
             v == [w EXCEPT !.pc = "open", !.store = s, !.target = m,
                            !.left = w.left \ {s}]
             c == [state |-> "RUNNING", mode |-> m]
  <2>1. /\ Becomes(p, v) /\ w.pc = "loop"
        /\ storeCheckpoint' = [storeCheckpoint EXCEPT ![w.run][s] = c]
        /\ UNCHANGED <<provider, run, pageCheckpoint, sync, reviews, locators,
                       invocations>>
    BY <1>7 DEF BeginStore, ToCollect, AtTarget, w
  <2>2. m \in Modes
    BY <1>2, <1>3, <2>1, ModeNames
       DEF TargetMode, RowOf, StoreCheckpoint, ModeOrNone, w
  <2> HIDE DEF m
  <2>3. v \in Worker /\ v.pc = "open" /\ v.run = w.run /\ v.store = s
    BY <1>1, <2>2, StepNames DEF Worker
  <2> HIDE DEF v
  <2>4. worker' \in [Proc -> Worker] /\ WorkOK'
    BY <1>3, <2>1, <2>3, WorkerUpdate DEF WorkerOK
  <2>5. c \in StoreCheckpoint
    BY <2>2 DEF StoreCheckpoint, StoreStates, ModeOrNone
  <2> HIDE DEF c
  <2>6. storeCheckpoint' \in [Run -> [Store -> StoreCheckpoint]]
    BY <1>2, <2>1, <2>5
  <2> QED
    BY <2>1, <2>4, <2>6 DEF TypeInv, TypeOK, provider, reviews
<1> QED  BY <1>4, <1>5, <1>6, <1>7

LEMMA EnterTyped ==
  ASSUME TypeInv, NEW p \in Proc, EnterLoop(p)
  PROVE  TypeInv'
<1> DEFINE w == worker[p]
           c == run[w.run].counts
           v == [w EXCEPT !.pc = "loop", !.counts = c]
<1>1. w \in Worker /\ WorkerOK(w)
  BY WorkerTyped
<1>2. Becomes(p, v) /\ w.pc = "pending"
  BY DEF EnterLoop
<1>3. w.run \in Run
  BY <1>1, <1>2 DEF WorkerOK
<1>4. c \in Counts
  BY <1>3 DEF TypeInv, TypeOK, RunRow
<1> HIDE DEF c
<1>5. v \in Worker /\ v.pc = "loop" /\ v.run = w.run
  BY <1>1, <1>4, StepNames DEF Worker
<1> HIDE DEF v
<1> QED  BY <1>2, <1>3, <1>5, OnlyWorker DEF EnterLoop, WorkerOK

\* Leaving collectStoreReviews.
LEMMA LeaveTyped ==
  ASSUME TypeInv, NEW p \in Proc, NEW o \in Outcomes, o # "none",
         worker[p].pc \in {"read", "protect", "sealed", "closed"}, Leave(p, o)
  PROVE  TypeInv'
<1> DEFINE w == worker[p]
           v == [w EXCEPT !.pc = "settle", !.outcome = o]
<1>1. w \in Worker /\ WorkerOK(w)
  BY WorkerTyped
<1>2. Becomes(p, v) /\ UNCHANGED <<provider, database, invocations>>
  BY DEF Leave
<1>3. w.run \in Run /\ w.store \in Store
  BY <1>1 DEF WorkerOK
<1> HIDE DEF w
<1>4. /\ v \in Worker /\ v.pc = "settle" /\ v.run = w.run
      /\ v.store = w.store /\ v.outcome = o
  BY <1>1, StepNames DEF Worker
<1> HIDE DEF v
<1> QED  BY <1>2, <1>3, <1>4, OnlyWorker DEF WorkerOK

LEMMA LeavingTyped ==
  ASSUME TypeInv, NEW p \in Proc
  PROVE  /\ StopProvider(p) => TypeInv'
         /\ ReadFails(p) => TypeInv'
         /\ ReviewFails(p) => TypeInv'
         /\ PauseStore(p) => TypeInv'
<1>1. CASE StopProvider(p)
  <2>1. worker[p].pc = "read" /\ (Leave(p, "access") \/ Leave(p, "dom"))
    <3>1. PICK o \in {"access", "dom"} : Leave(p, o) /\ worker[p].pc = "read"
      BY <1>1 DEF StopProvider
    <3> QED  BY <3>1
  <2> QED  BY <2>1, LeaveTyped, OutcomeNames
<1>2. CASE ReadFails(p)
  BY <1>2, LeaveTyped, OutcomeNames DEF ReadFails
<1>3. CASE ReviewFails(p)
  <2>1. /\ worker[p].pc \in {"protect", "sealed"}
        /\ Leave(p, "failed") \/ Leave(p, "fatal")
    BY <1>3 DEF ReviewFails, Protecting
  <2> QED  BY <2>1, LeaveTyped, OutcomeNames
<1>4. CASE PauseStore(p)
  BY <1>4, LeaveTyped, OutcomeNames DEF PauseStore
<1> QED  BY <1>1, <1>2, <1>3, <1>4
\* Inside collectStoreReviews a process keeps its run and its store.
LEMMA SameStore ==
  ASSUME TypeInv, NEW p \in Proc, NEW v,
         worker[p].pc \in {"open", "read", "protect", "sealed", "closed"},
         v.run = worker[p].run, v.store = worker[p].store,
         v.pc = "settle" => v.outcome # "none"
  PROVE  /\ WorkerOK(v)
         /\ worker[p].run \in Run /\ worker[p].store \in Store
BY WorkerTyped DEF WorkerOK

LEMMA OpenTyped ==
  ASSUME TypeInv, NEW p \in Proc
  PROVE  /\ SkipCompleteStore(p) => TypeInv'
         /\ OpenStore(p) => TypeInv'
<1> DEFINE w == worker[p]
           prev == sync[w.store].anchor
           mode == InitialMode(prev)
<1>1. w \in Worker /\ WorkerOK(w)
  BY WorkerTyped
<1>2. mode \in Modes
  BY ModeNames DEF InitialMode
<1>3. w.pc = "open" => prev \in Anchor
  BY <1>1 DEF WorkerOK, TypeInv, TypeOK, SyncState
<1>4. CASE SkipCompleteStore(p)
  <2> DEFINE v == [w EXCEPT !.pc = "settle", !.outcome = "done", !.got = 0,
                            !.mode = mode]
  <2>1. Becomes(p, v) /\ w.pc = "open"
    BY <1>4 DEF SkipCompleteStore
  <2> HIDE DEF mode
  <2>2. /\ v \in Worker /\ v.run = w.run /\ v.store = w.store
        /\ v.outcome = "done"
    BY <1>1, <1>2, StepNames, OutcomeNames DEF Worker
  <2> HIDE DEF v
  <2> QED  BY <1>4, <2>1, <2>2, SameStore, OnlyWorker DEF SkipCompleteStore
<1>5. CASE OpenStore(p)
  <2> DEFINE rows == pageCheckpoint[w.run][w.store]
  <2>1. /\ w.pc = "open" /\ w.run \in Run /\ w.store \in Store
        /\ UNCHANGED <<provider, database, invocations>>
    BY <1>1, <1>5 DEF OpenStore, WorkerOK
  <2>2. rows \in SUBSET PageRow
    BY <2>1 DEF TypeInv, TypeOK
  <2>3. PICK l \in Latest(rows), c \in Latest({r \in rows : r.complete}) :
          Becomes(p, [w EXCEPT !.pc = "read",
                               !.previous = prev,
                               !.page = ResumePage(l),
                               !.mode = IF c.mode = "none"
                                        THEN mode ELSE c.mode,
                               !.anchorSeen = c.anchorSeen,
                               !.anchor = c.anchor,
                               !.got = 0, !.opened = FALSE, !.shown = {},
                               !.outcome = "none"])
    BY <1>5 DEF OpenStore
  <2> HIDE DEF rows
  <2>4. l \in PageRow /\ c \in PageRow
    BY <2>2, NoPageTyped DEF Latest
  <2> DEFINE n == ResumePage(l)
             m == IF c.mode = "none" THEN mode ELSE c.mode
             v == [w EXCEPT !.pc = "read", !.previous = prev, !.page = n,
                            !.mode = m, !.anchorSeen = c.anchorSeen,
                            !.anchor = c.anchor, !.got = 0, !.opened = FALSE,
                            !.shown = {}, !.outcome = "none"]
  <2>5. n \in Nat /\ c.anchorSeen \in BOOLEAN /\ c.anchor \in Anchor
    BY <2>4 DEF ResumePage, PageRow
  <2>6. m \in Modes
    BY <1>2, <2>4 DEF PageRow, ModeOrNone
  <2>7. Becomes(p, v)
    BY <2>3
  <2> HIDE DEF n, m, mode, prev
  <2>8. v \in Worker /\ v.run = w.run /\ v.store = w.store /\ v.pc = "read"
    BY <1>1, <1>3, <2>1, <2>5, <2>6, StepNames, OutcomeNames DEF Worker
  <2> HIDE DEF v
  <2>9. WorkerOK(v)
    BY <2>1, <2>8, SameStore
  <2> QED  BY <2>1, <2>7, <2>8, <2>9, OnlyWorker
<1> QED  BY <1>4, <1>5

LEMMA ReadTyped ==
  ASSUME TypeInv, NEW p \in Proc, ReadPage(p)
  PROVE  TypeInv'
<1> DEFINE w == worker[p]
           items == PageOf(w.store, w.page)
           recent == {d \in items : d >= run[w.run].asOf - Window}
           shown == IF recent = {} THEN w.shown ELSE recent
           end == BoundaryOf(w, items, recent)
           v == [w EXCEPT !.pc = "protect", !.todo = recent, !.opened = TRUE,
                          !.shown = shown, !.boundary = end]
<1>1. w \in Worker /\ WorkerOK(w)
  BY WorkerTyped
<1>2. Becomes(p, v) /\ w.pc = "read"
  BY DEF ReadPage
<1>3. w.run \in Run /\ w.store \in Store
  BY <1>1, <1>2 DEF WorkerOK
<1>4. recent \in SUBSET Day
  BY <1>3 DEF TypeInv, TypeOK, PageOf
<1>5. end \in Boundaries
  BY DEF BoundaryOf, Boundaries
<1> HIDE DEF items, recent, end
<1>6. v \in Worker /\ v.run = w.run /\ v.store = w.store /\ v.pc = "protect"
  BY <1>1, <1>4, <1>5, StepNames DEF Worker
<1> HIDE DEF v
<1> QED  BY <1>2, <1>6, SameStore, OnlyWorker DEF ReadPage

\* The page rows of a run and store stay page rows when one is put in.
LEMMA PutPageTyped ==
  ASSUME TypeInv, NEW w \in Worker, w.run \in Run, w.store \in Store,
         NEW row \in PageRow, PutPage(w, row)
  PROVE  pageCheckpoint' \in [Run -> [Store -> SUBSET PageRow]]
<1> DEFINE rows == pageCheckpoint[w.run][w.store]
           new == {c \in rows : c.page # row.page} \cup {row}
<1>1. pageCheckpoint \in [Run -> [Store -> SUBSET PageRow]]
  BY DEF TypeInv, TypeOK
<1>2. new \in SUBSET PageRow
  BY <1>1
<1>3. pageCheckpoint' = [pageCheckpoint EXCEPT ![w.run][w.store] = new]
  BY DEF PutPage
<1> HIDE DEF new
<1> QED  BY <1>1, <1>2, <1>3

\* What a handled review leaves in the memory of its process.
LEMMA AbsorbTyped ==
  ASSUME NEW w \in Worker, NEW d \in Day, NEW b \in BOOLEAN
  PROVE  /\ Absorb(w, d, b) \in Worker
         /\ Absorb(w, d, b).run = w.run /\ Absorb(w, d, b).store = w.store
         /\ Absorb(w, d, b).pc = "protect"
         /\ Absorb(w, d, b).got = w.got
         /\ Absorb(w, d, b).counts = w.counts
         /\ Absorb(w, d, b).anchor = IF w.anchor = NoReview THEN d ELSE w.anchor
<1> DEFINE a == IF w.anchor = NoReview THEN d ELSE w.anchor
           as == w.anchorSeen \/ (w.mode = "INCREMENTAL" /\ d = w.previous)
           m == IF HoleFound(w, d, b) THEN "BACKFILL_FALLBACK" ELSE w.mode
           v == [w EXCEPT !.pc = "protect", !.todo = @ \ {d}, !.anchor = a,
                          !.anchorSeen = as, !.mode = m]
<1>1. Absorb(w, d, b) = v
  BY DEF Absorb
<1>2. a \in Anchor
  BY NoReviewIsAnchor DEF Worker
<1>3. as \in BOOLEAN
  BY DEF Worker
<1>4. m \in Modes
  BY ModeNames DEF Worker
<1> HIDE DEF as, m
<1>5. /\ v \in Worker /\ v.run = w.run /\ v.store = w.store
      /\ v.pc = "protect" /\ v.got = w.got /\ v.counts = w.counts
      /\ v.anchor = a
  <2> HIDE DEF a
  <2> QED  BY <1>2, <1>3, <1>4, StepNames DEF Worker
<1> QED  BY <1>1, <1>5

LEMMA RejectTyped ==
  ASSUME TypeInv, NEW p \in Proc, NEW d \in Day, RejectReview(p, d)
  PROVE  TypeInv'
<1> DEFINE w == worker[p]
           v == [w EXCEPT !.todo = @ \ {d}]
<1>1. w \in Worker
  BY WorkerTyped
<1>2. Becomes(p, v) /\ w.pc = "protect"
  BY DEF RejectReview, Protecting
<1>3. v \in Worker /\ v.run = w.run /\ v.store = w.store /\ v.pc = w.pc
  BY <1>1 DEF Worker
<1> HIDE DEF v
<1> QED  BY <1>2, <1>3, SameStore, OnlyWorker DEF RejectReview

LEMMA DuplicateTyped ==
  ASSUME TypeInv, NEW p \in Proc, NEW d \in Day, DuplicateReview(p, d)
  PROVE  TypeInv'
<1> DEFINE w == worker[p]
           v == Absorb(w, d, TRUE)
<1>1. w \in Worker
  BY WorkerTyped
<1>2. /\ Becomes(p, v) /\ w.pc = "protect" /\ MarkPage(w)
      /\ UNCHANGED <<provider, run, storeCheckpoint, sync, reviews, locators,
                     invocations>>
  BY DEF DuplicateReview, Protecting
<1>3. v \in Worker /\ v.run = w.run /\ v.store = w.store /\ v.pc = "protect"
  BY <1>1, AbsorbTyped
<1> HIDE DEF v
<1>4. WorkerOK(v) /\ w.run \in Run /\ w.store \in Store
  BY <1>2, <1>3, SameStore
<1>5. worker' \in [Proc -> Worker] /\ WorkOK'
  BY <1>2, <1>3, <1>4, WorkerUpdate
<1>6. PartialPage(w.page) \in PageRow
  BY <1>1, NoPageTyped DEF Worker
<1>7. pageCheckpoint' \in [Run -> [Store -> SUBSET PageRow]]
  BY <1>1, <1>2, <1>4, <1>6, PutPageTyped DEF MarkPage
<1> QED
  BY <1>2, <1>5, <1>7 DEF TypeInv, TypeOK, provider, reviews

LEMMA EncryptTyped ==
  ASSUME TypeInv, NEW p \in Proc, NEW d \in Day, EncryptReview(p, d)
  PROVE  TypeInv'
<1> DEFINE w == worker[p]
           inserted == NotStored(w.store, d)
           r == IF inserted THEN w.run ELSE raw[w.store][d]
           got == IF inserted THEN w.got + 1 ELSE w.got
           v == [w EXCEPT !.pc = "sealed", !.got = got]
<1>1. w \in Worker /\ w.got \in Nat
  BY WorkerTyped DEF Worker
<1>2. /\ Becomes(p, v) /\ w.pc = "protect"
      /\ raw' = [raw EXCEPT ![w.store][d] = r]
      /\ UNCHANGED <<provider, run, progress, seen, locators, invocations>>
  BY DEF EncryptReview, Protecting
<1>3. got \in Nat
  BY <1>1
<1> HIDE DEF inserted, got
<1>4. v \in Worker /\ v.run = w.run /\ v.store = w.store /\ v.pc = "sealed"
  BY <1>1, <1>3, StepNames DEF Worker
<1> HIDE DEF v
<1>5. WorkerOK(v) /\ w.run \in Run /\ w.store \in Store
  BY <1>2, <1>4, SameStore
<1>6. worker' \in [Proc -> Worker] /\ WorkOK'
  BY <1>2, <1>4, <1>5, WorkerUpdate
<1>7. raw \in [Store -> [Day -> Run \cup {NoRun}]] /\ r \in Run \cup {NoRun}
  BY <1>5 DEF TypeInv, TypeOK
<1> HIDE DEF r
<1>8. raw' \in [Store -> [Day -> Run \cup {NoRun}]]
  BY <1>2, <1>5, <1>7
<1> QED
  BY <1>2, <1>6, <1>8 DEF TypeInv, TypeOK, provider, progress

LEMMA MarkTyped ==
  ASSUME TypeInv, NEW p \in Proc, NEW d \in Day, MarkSeen(p, d)
  PROVE  TypeInv'
<1> DEFINE w == worker[p]
           v == Absorb(w, d, FALSE)
<1>1. w \in Worker
  BY WorkerTyped
<1>2. /\ Becomes(p, v) /\ w.pc = "sealed" /\ MarkPage(w)
      /\ seen' = [seen EXCEPT ![w.store] = @ \cup {d}]
      /\ UNCHANGED <<provider, run, storeCheckpoint, sync, raw, locators,
                     invocations>>
  BY DEF MarkSeen
<1>3. v \in Worker /\ v.run = w.run /\ v.store = w.store /\ v.pc = "protect"
  BY <1>1, AbsorbTyped
<1> HIDE DEF v
<1>4. WorkerOK(v) /\ w.run \in Run /\ w.store \in Store
  BY <1>2, <1>3, SameStore
<1>5. worker' \in [Proc -> Worker] /\ WorkOK'
  BY <1>2, <1>3, <1>4, WorkerUpdate
<1>6. PartialPage(w.page) \in PageRow
  BY <1>1, NoPageTyped DEF Worker
<1>7. pageCheckpoint' \in [Run -> [Store -> SUBSET PageRow]]
  BY <1>1, <1>2, <1>4, <1>6, PutPageTyped DEF MarkPage
<1>8. seen' \in [Store -> SUBSET Day]
  BY <1>2, <1>4 DEF TypeInv, TypeOK
<1> QED
  BY <1>2, <1>5, <1>7, <1>8 DEF TypeInv, TypeOK, provider

LEMMA CompletePageTyped ==
  ASSUME TypeInv, NEW p \in Proc, NEW m \in Modes, worker[p].run \in Run,
         worker[p].store \in Store, CompletePage(worker[p], m)
  PROVE  pageCheckpoint' \in [Run -> [Store -> SUBSET PageRow]]
<1> DEFINE w == worker[p]
           row == [page |-> w.page, complete |-> TRUE, mode |-> m,
                   anchorSeen |-> w.anchorSeen, anchor |-> w.anchor]
<1>1. w \in Worker
  BY WorkerTyped
<1>2. row \in PageRow
  BY <1>1 DEF PageRow, Worker, ModeOrNone
<1>3. PutPage(w, row)
  BY DEF CompletePage
<1> HIDE DEF row
<1> QED  BY <1>1, <1>2, <1>3, PutPageTyped

LEMMA ClosePageTyped ==
  ASSUME TypeInv, NEW p \in Proc
  PROVE  /\ ClosePage(p) => TypeInv'
         /\ FallBack(p) => TypeInv'
         /\ NextPage(p) => TypeInv'
<1> DEFINE w == worker[p]
<1>1. w \in Worker /\ w.mode \in Modes /\ w.page \in Nat
  BY WorkerTyped DEF Worker
<1>2. CASE ClosePage(p)
  <2> DEFINE v == [w EXCEPT !.pc = "closed"]
  <2>1. /\ Becomes(p, v) /\ w.pc = "protect" /\ CompletePage(w, w.mode)
        /\ UNCHANGED <<provider, run, storeCheckpoint, sync, reviews, locators,
                       invocations>>
    BY <1>2 DEF ClosePage
  <2>2. v \in Worker /\ v.run = w.run /\ v.store = w.store /\ v.pc = "closed"
    BY <1>1, StepNames DEF Worker
  <2> HIDE DEF v
  <2>3. WorkerOK(v) /\ w.run \in Run /\ w.store \in Store
    BY <2>1, <2>2, SameStore
  <2>4. worker' \in [Proc -> Worker] /\ WorkOK'
    BY <2>1, <2>2, <2>3, WorkerUpdate
  <2>5. pageCheckpoint' \in [Run -> [Store -> SUBSET PageRow]]
    BY <1>1, <2>1, <2>3, CompletePageTyped
  <2> QED
    BY <2>1, <2>4, <2>5 DEF TypeInv, TypeOK, provider, reviews
<1>3. CASE FallBack(p)
  <2> DEFINE v == [w EXCEPT !.mode = "BACKFILL_FALLBACK"]
  <2>1. /\ Becomes(p, v) /\ w.pc = "closed"
        /\ CompletePage(w, "BACKFILL_FALLBACK")
        /\ UNCHANGED <<provider, run, storeCheckpoint, sync, reviews, locators,
                       invocations>>
    BY <1>3 DEF FallBack
  <2>2. v \in Worker /\ v.run = w.run /\ v.store = w.store /\ v.pc = "closed"
    BY <1>1, <2>1, ModeNames DEF Worker
  <2> HIDE DEF v
  <2>3. WorkerOK(v) /\ w.run \in Run /\ w.store \in Store
    BY <2>1, <2>2, SameStore
  <2>4. worker' \in [Proc -> Worker] /\ WorkOK'
    BY <2>1, <2>2, <2>3, WorkerUpdate
  <2>5. pageCheckpoint' \in [Run -> [Store -> SUBSET PageRow]]
    BY <2>1, <2>3, ModeNames, CompletePageTyped
  <2> QED
    BY <2>1, <2>4, <2>5 DEF TypeInv, TypeOK, provider, reviews
<1>4. CASE NextPage(p)
  <2> DEFINE n == PageAfter(w.page)
             v == [w EXCEPT !.pc = "read", !.page = n]
  <2>1. Becomes(p, v) /\ w.pc = "closed"
    BY <1>4 DEF NextPage
  <2>2. n \in Nat
    BY <1>1 DEF PageAfter
  <2> HIDE DEF n
  <2>3. v \in Worker /\ v.run = w.run /\ v.store = w.store /\ v.pc = "read"
    BY <1>1, <2>2, StepNames DEF Worker
  <2> HIDE DEF v
  <2> QED  BY <1>4, <2>1, <2>3, SameStore, OnlyWorker DEF NextPage
<1> QED  BY <1>2, <1>3, <1>4

LEMMA CompleteTyped ==
  ASSUME TypeInv, NEW p \in Proc, CompleteStore(p)
  PROVE  TypeInv'
<1> DEFINE w == worker[p]
           empty == w.anchor = NoReview /\ w.previous = NoReview
           c == [state |-> IF empty THEN "NO_REVIEWS" ELSE "COMPLETE",
                 mode |-> "none"]
           y == IF w.anchor = NoReview THEN sync[w.store]
                ELSE [anchor |-> w.anchor, mode |-> w.mode, run |-> w.run]
           v == [w EXCEPT !.pc = "settle", !.outcome = "done"]
<1>1. w \in Worker
  BY WorkerTyped
<1>2. /\ Becomes(p, v) /\ w.pc = "closed"
      /\ storeCheckpoint' = [storeCheckpoint EXCEPT ![w.run][w.store] = c]
      /\ sync' = [sync EXCEPT ![w.store] = y]
      /\ UNCHANGED <<provider, run, pageCheckpoint, reviews, locators,
                     invocations>>
  BY DEF CompleteStore
<1>3. /\ v \in Worker /\ v.run = w.run /\ v.store = w.store
      /\ v.outcome = "done"
  BY <1>1, StepNames, OutcomeNames DEF Worker
<1> HIDE DEF v
<1>4. WorkerOK(v) /\ w.run \in Run /\ w.store \in Store
  BY <1>2, <1>3, SameStore
<1>5. worker' \in [Proc -> Worker] /\ WorkOK'
  BY <1>2, <1>3, <1>4, WorkerUpdate
<1>6. c \in StoreCheckpoint
  BY DEF StoreCheckpoint, StoreStates, Done, ModeOrNone
<1>7. sync \in [Store -> SyncState] /\ y \in SyncState
  BY <1>1, <1>4 DEF TypeInv, TypeOK, SyncState, Worker, ModeOrNone
<1> HIDE DEF c, y
<1>8. storeCheckpoint' \in [Run -> [Store -> StoreCheckpoint]]
  BY <1>2, <1>4, <1>6 DEF TypeInv, TypeOK
<1>9. sync' \in [Store -> SyncState]
  BY <1>2, <1>4, <1>7
<1> QED
  BY <1>2, <1>5, <1>8, <1>9 DEF TypeInv, TypeOK, provider, reviews

LEMMA CountsAfterTyped ==
  ASSUME NEW w \in Worker
  PROVE  CountsAfter(w) \in Counts
<1> DEFINE c == w.counts
<1>1. /\ c \in Counts /\ w.got \in Nat
  BY DEF Worker
<1>2. /\ c.collected \in Nat /\ c.failed \in Nat
      /\ c.incremental \in Int /\ c.fallback \in Nat
  BY <1>1 DEF Counts
<1> DEFINE x == c.collected + w.got
           i == IF FellBack(w) THEN c.incremental - 1 ELSE c.incremental
           f == IF FellBack(w) THEN c.fallback + 1 ELSE c.fallback
           n == c.failed + 1
<1>3. x \in Nat /\ i \in Int /\ f \in Nat /\ n \in Nat
  BY <1>1, <1>2
<1>4. CountsAfter(w) \in {[c EXCEPT !.failed = n], c,
        [c EXCEPT !.collected = x, !.incremental = i, !.fallback = f]}
  BY DEF CountsAfter
<1> HIDE DEF c, x, i, f, n
<1>5. [c EXCEPT !.failed = n] \in Counts
  BY <1>1, <1>3 DEF Counts
<1>6. [c EXCEPT !.collected = x, !.incremental = i, !.fallback = f] \in Counts
  BY <1>1, <1>3 DEF Counts
<1> QED  BY <1>1, <1>4, <1>5, <1>6

LEMMA SettleTyped ==
  ASSUME TypeInv, NEW p \in Proc, SettleStore(p)
  PROVE  TypeInv'
<1> DEFINE w == worker[p]
           counts == CountsAfter(w)
           final == FinalOf(w.outcome)
           c == [state |-> StateOf(w.outcome),
                 mode |-> IF w.outcome = "failed" THEN w.target ELSE w.mode]
           v == [w EXCEPT !.pc = "account", !.counts = counts, !.got = 0,
                          !.final = final]
<1>1. w \in Worker /\ WorkerOK(w)
  BY WorkerTyped
<1>2. /\ Becomes(p, v) /\ w.pc = "settle"
      /\ storeCheckpoint' = IF w.outcome = "fatal" THEN storeCheckpoint
           ELSE [storeCheckpoint EXCEPT ![w.run][w.store] = c]
      /\ UNCHANGED <<provider, run, pageCheckpoint, sync, reviews, locators,
                     invocations>>
  BY DEF SettleStore
<1>3. w.run \in Run /\ w.store \in Store /\ w.outcome \in Outcomes \ {"none"}
  BY <1>1, <1>2 DEF WorkerOK, Worker
<1>4. counts \in Counts
  BY <1>1, CountsAfterTyped
<1>5. final \in Finals
  BY <1>3 DEF FinalOf, Finals, Paused, Closed, Stopped, Outcomes
<1> HIDE DEF counts, final
<1>6. v \in Worker /\ v.run = w.run /\ v.store = w.store /\ v.pc = "account"
  BY <1>1, <1>4, <1>5, StepNames DEF Worker
<1> HIDE DEF v
<1>7. worker' \in [Proc -> Worker] /\ WorkOK'
  BY <1>2, <1>3, <1>6, WorkerUpdate DEF WorkerOK
<1>8. w.outcome # "fatal" => c \in StoreCheckpoint
  <2>1. w.outcome # "fatal" => StateOf(w.outcome) \in StoreStates
    BY <1>3 DEF StateOf, StoreStates, Done, Outcomes
  <2> QED  BY <1>1, <2>1 DEF StoreCheckpoint, Worker, ModeOrNone
<1> HIDE DEF c
<1>9. storeCheckpoint' \in [Run -> [Store -> StoreCheckpoint]]
  BY <1>2, <1>3, <1>8 DEF TypeInv, TypeOK
<1> QED
  BY <1>2, <1>7, <1>9 DEF TypeInv, TypeOK, provider, reviews

LEMMA RowUpdate ==
  ASSUME NEW row \in RunRow, NEW st \in Statuses, NEW b \in BOOLEAN,
         NEW c \in Counts
  PROVE  [row EXCEPT !.status = st, !.slot = b, !.counts = c] \in RunRow
BY DEF RunRow

LEMMA AccountTyped ==
  ASSUME TypeInv, NEW p \in Proc, AccountStore(p)
  PROVE  TypeInv'
<1> DEFINE w == worker[p]
           on == w.final = "SUCCEEDED"
           st == IF on THEN "RUNNING" ELSE w.final
           row == [run[w.run] EXCEPT !.status = st, !.slot = on,
                                     !.counts = w.counts]
           pc == IF on THEN "loop" ELSE "finish"
           v == [w EXCEPT !.pc = pc]
<1>1. /\ w \in Worker /\ WorkerOK(w)
      /\ w.counts \in Counts /\ w.final \in Finals
  BY WorkerTyped DEF Worker
<1>2. /\ w.pc = "account"
      /\ \/ Becomes(p, Idle) /\ UNCHANGED run
         \/ Becomes(p, v) /\ run' = [run EXCEPT ![w.run] = row]
      /\ UNCHANGED <<provider, progress, reviews, locators, invocations>>
  BY DEF AccountStore
<1>3. w.run \in Run
  BY <1>1, <1>2 DEF WorkerOK
<1>4. st \in Statuses /\ on \in BOOLEAN /\ pc \in Steps \ {"settle", "open"}
  BY <1>1, StepNames DEF Statuses
<1>5. pc \in {"loop", "finish"}
  OBVIOUS
<1> HIDE DEF st, on, pc
<1>6. row \in RunRow
  BY <1>1, <1>3, <1>4, RowUpdate DEF TypeInv, TypeOK
<1>7. v \in Worker /\ v.run = w.run /\ v.pc = pc
  BY <1>1, <1>4 DEF Worker
<1> HIDE DEF row, v
<1>8. WorkerOK(v) /\ WorkerOK(Idle)
  BY <1>3, <1>5, <1>7, IdleTyped DEF WorkerOK
<1>9. worker' \in [Proc -> Worker] /\ WorkOK'
  BY <1>2, <1>7, <1>8, IdleTyped, WorkerUpdate
<1>10. run' \in [Run -> RunRow]
  BY <1>2, <1>3, <1>6 DEF TypeInv, TypeOK
<1> QED
  BY <1>2, <1>9, <1>10 DEF TypeInv, TypeOK, provider, progress, reviews

LEMMA FinishTyped ==
  ASSUME TypeInv, NEW p \in Proc, FinishRun(p)
  PROVE  TypeInv'
<1> DEFINE w == worker[p]
           final == FinalStatus(w)
           row == [run[w.run] EXCEPT !.status = final, !.slot = FALSE,
                                     !.counts = w.counts]
<1>1. /\ w \in Worker /\ WorkerOK(w)
      /\ w.counts \in Counts /\ w.final \in Finals
  BY WorkerTyped DEF Worker
<1>2. /\ w.pc \in {"finish", "loop"}
      /\ Becomes(p, Idle) /\ run' = [run EXCEPT ![w.run] = row]
      /\ locators' = IF final = "SUCCEEDED"
                     THEN [locators EXCEPT ![DiscoveryOf[w.run]] = {}]
                     ELSE locators
      /\ UNCHANGED <<provider, progress, reviews, invocations>>
  BY DEF FinishRun
<1>3. w.run \in Run
  BY <1>1, <1>2 DEF WorkerOK
<1>4. final \in Statuses
  BY <1>1 DEF FinalStatus, Statuses, Finals, Closed
<1> HIDE DEF final
<1>5. row \in RunRow
  BY <1>1, <1>3, <1>4, RowUpdate DEF TypeInv, TypeOK
<1> HIDE DEF row
<1>6. worker' \in [Proc -> Worker] /\ WorkOK'
  BY <1>2, IdleTyped, WorkerUpdate DEF WorkerOK
<1>7. run' \in [Run -> RunRow]
  BY <1>2, <1>3, <1>5 DEF TypeInv, TypeOK
<1>8. locators' \in [Discovery -> SUBSET Store]
  BY <1>2 DEF TypeInv, TypeOK
<1> QED
  BY <1>2, <1>6, <1>7, <1>8 DEF TypeInv, TypeOK, provider, progress, reviews

LEMMA NextTyped ==
  ASSUME CollectionAssumption, TypeInv, [Next]_vars
  PROVE  TypeInv'
<1>1. CASE UNCHANGED vars
  BY <1>1 DEF vars, TypeInv, TypeOK, WorkOK
<1>2. CASE Provider
  BY <1>2, ProviderTyped
<1>3. ASSUME NEW p \in Proc, Operator(p) PROVE TypeInv'
  BY <1>3, StartTyped, ResumeTyped DEF Operator
<1>4. ASSUME NEW p \in Proc, Work(p) PROVE TypeInv'
  <2>1. ASSUME NEW s \in Store,
               \/ WritePending(p, s) \/ SkipStore(p, s)
               \/ PauseBefore(p, s) \/ BeginStore(p, s)
        PROVE  TypeInv'
    BY <2>1, LoopTyped
  <2>2. CASE EnterLoop(p)
    BY <2>2, EnterTyped
  <2>3. CASE SkipCompleteStore(p) \/ OpenStore(p)
    BY <2>3, OpenTyped
  <2>4. CASE \/ StopProvider(p) \/ ReadFails(p)
             \/ ReviewFails(p) \/ PauseStore(p)
    BY <2>4, LeavingTyped
  <2>5. ASSUME NEW d \in Day,
               \/ RejectReview(p, d) \/ DuplicateReview(p, d)
               \/ EncryptReview(p, d) \/ MarkSeen(p, d)
        PROVE  TypeInv'
    BY <2>5, RejectTyped, DuplicateTyped, EncryptTyped, MarkTyped
  <2>6. CASE ClosePage(p) \/ FallBack(p) \/ NextPage(p)
    BY <2>6, ClosePageTyped
  <2>7. CASE ReadPage(p) \/ CompleteStore(p)
    BY <2>7, ReadTyped, CompleteTyped
  <2>8. CASE SettleStore(p) \/ AccountStore(p) \/ FinishRun(p)
    BY <2>8, SettleTyped, AccountTyped, FinishTyped
  <2> QED
    BY <1>4, <2>1, <2>2, <2>3, <2>4, <2>5, <2>6, <2>7, <2>8 DEF Work
<1>5. ASSUME NEW p \in Proc, Crash(p) PROVE TypeInv'
  BY <1>5, IdleTyped, OnlyWorker DEF Crash, WorkerOK
<1> QED
  BY <1>1, <1>2, <1>3, <1>4, <1>5 DEF Next

THEOREM TypeInvHolds == Spec => []TypeInv
<1>1. Init => TypeInv
  BY InitTyped, CollectionAssumption
<1>2. TypeInv /\ [Next]_vars => TypeInv'
  BY NextTyped, CollectionAssumption
<1> QED
  BY <1>1, <1>2, PTL DEF Spec

\* Whatever the constants, every table and every process's memory holds values
\* of its kind: modes, counts and references are those the schema declares.
THEOREM TypeCorrect == Spec => []TypeOK
BY TypeInvHolds, PTL DEF TypeInv

-----------------------------------------------------------------------------
(* The ledger of known reviews *)

Inside == {"read", "protect", "sealed", "closed"}

\* A process inside a store carries an anchor the ledger knows; between the two
\* commits of a review, the encrypted row of the one at hand exists.
Remembers(w, known, kept) ==
  /\ w.pc \in Inside /\ w.anchor # NoReview => w.anchor \in known[w.store]
  /\ w.pc = "sealed" =>
       \A d \in Day : Newest(d, w.todo) => kept[w.store][d] # NoRun

MemoryOK == \A p \in Proc : Remembers(worker[p], seen, raw)

\* Neither property is inductive alone: the order of the two commits is in the
\* memory of the process that makes them.
LedgerInv == TypeInv /\ SeenIsStored /\ AnchorIsSeen /\ MemoryOK

LEMMA InitLedger ==
  ASSUME CollectionAssumption, Init
  PROVE  LedgerInv
<1>1. TypeInv
  BY InitTyped
<1>2. SeenIsStored /\ AnchorIsSeen
  BY DEF Init, SeenIsStored, AnchorIsSeen
<1>3. MemoryOK
  BY IdleTyped DEF Init, MemoryOK, Remembers, Inside
<1> QED  BY <1>1, <1>2, <1>3 DEF LedgerInv

LEMMA Updated ==
  ASSUME TypeInv, NEW p \in Proc, NEW v, Becomes(p, v)
  PROVE  worker'[p] = v /\ \A q \in Proc \ {p} : worker'[q] = worker[q]
BY DEF TypeInv, TypeOK, Becomes

\* What is recorded stays recorded, so what processes remember stays true.
LEMMA MemoryUpdate ==
  ASSUME TypeInv, MemoryOK, NEW p \in Proc,
         \A q \in Proc \ {p} : worker'[q] = worker[q],
         Remembers(worker'[p], seen', raw'),
         \A s \in Store : seen[s] \subseteq seen'[s],
         \A s \in Store, d \in Day : raw[s][d] # NoRun => raw'[s][d] # NoRun
  PROVE  MemoryOK'
<1> SUFFICES ASSUME NEW q \in Proc, q # p
             PROVE  Remembers(worker[q], seen', raw')
  BY DEF MemoryOK
<1>1. Remembers(worker[q], seen, raw) /\ WorkerOK(worker[q])
  BY WorkerTyped DEF MemoryOK
<1>2. worker[q].pc \in Inside => worker[q].store \in Store
  BY <1>1 DEF WorkerOK, Inside
<1> QED  BY <1>1, <1>2 DEF Remembers, Inside

\* A step that commits nothing about reviews and leaves its process either
\* outside a store or with the anchor it had.
LEMMA LedgerQuiet ==
  ASSUME LedgerInv, NEW p \in Proc, NEW v, Becomes(p, v),
         Remembers(v, seen, raw),
         UNCHANGED <<seen, raw, sync, pageCheckpoint>>
  PROVE  SeenIsStored' /\ AnchorIsSeen' /\ MemoryOK'
<1>1. worker'[p] = v /\ \A q \in Proc \ {p} : worker'[q] = worker[q]
  BY Updated DEF LedgerInv
<1>2. MemoryOK'
  BY <1>1, MemoryUpdate DEF LedgerInv
<1>3. SeenIsStored' /\ AnchorIsSeen'
  BY DEF LedgerInv, SeenIsStored, AnchorIsSeen
<1> QED  BY <1>2, <1>3

LEMMA LedgerOutside ==
  ASSUME LedgerInv, NEW p \in Proc, NEW v, Becomes(p, v), v.pc \notin Inside,
         UNCHANGED <<seen, raw, sync, pageCheckpoint>>
  PROVE  SeenIsStored' /\ AnchorIsSeen' /\ MemoryOK'
<1>1. Remembers(v, seen, raw)
  BY DEF Remembers, Inside
<1> QED  BY <1>1, LedgerQuiet

LEMMA BatchLedger ==
  ASSUME LedgerInv, NEW p \in Proc,
         \/ \E r \in Run : StartRun(p, r) \/ ResumeRun(p, r)
         \/ \E s \in Store : \/ WritePending(p, s) \/ SkipStore(p, s)
                             \/ PauseBefore(p, s) \/ BeginStore(p, s)
         \/ EnterLoop(p) \/ SettleStore(p) \/ AccountStore(p) \/ FinishRun(p)
         \/ Crash(p)
  PROVE  SeenIsStored' /\ AnchorIsSeen' /\ MemoryOK'
<1> USE DEF provider, database, progress, reviews, Inside
<1>1. worker[p] \in Worker
  BY WorkerTyped DEF LedgerInv
<1>2. ASSUME NEW r \in Run, StartRun(p, r) \/ ResumeRun(p, r)
      PROVE  SeenIsStored' /\ AnchorIsSeen' /\ MemoryOK'
  <2>1. CASE StartRun(p, r)
    <3> DEFINE v == [Idle EXCEPT !.pc = "pending", !.run = r,
                                 !.left = Targets(r), !.pend = Targets(r),
                                 !.ready = ReadyStores(Targets(r))]
    <3>1. Becomes(p, v) /\ UNCHANGED <<seen, raw, sync, pageCheckpoint>>
      BY <2>1 DEF StartRun
    <3>2. v.pc = "pending"
      BY IdleTyped DEF Worker
    <3> HIDE DEF v
    <3> QED  BY <3>1, <3>2, LedgerOutside
  <2>2. CASE ResumeRun(p, r)
    <3> DEFINE v == [Idle EXCEPT !.pc = "loop", !.run = r, !.left = Targets(r),
                                 !.counts = run[r].counts]
    <3>1. Becomes(p, v) /\ UNCHANGED <<seen, raw, sync, pageCheckpoint>>
      BY <2>2 DEF ResumeRun
    <3>2. v.pc = "loop"
      BY IdleTyped DEF Worker
    <3> HIDE DEF v
    <3> QED  BY <3>1, <3>2, LedgerOutside
  <2> QED  BY <1>2, <2>1, <2>2
<1>3. ASSUME NEW s \in Store,
             \/ WritePending(p, s) \/ SkipStore(p, s)
             \/ PauseBefore(p, s) \/ BeginStore(p, s)
      PROVE  SeenIsStored' /\ AnchorIsSeen' /\ MemoryOK'
  <2>1. CASE WritePending(p, s)
    <3> DEFINE v == [worker[p] EXCEPT !.pend = @ \ {s}]
    <3>1. /\ Becomes(p, v) /\ worker[p].pc = "pending"
          /\ UNCHANGED <<seen, raw, sync, pageCheckpoint>>
      BY <2>1 DEF WritePending
    <3>2. v.pc = "pending"
      BY <1>1, <3>1 DEF Worker
    <3> HIDE DEF v
    <3> QED  BY <3>1, <3>2, LedgerOutside
  <2>2. CASE SkipStore(p, s)
    <3> DEFINE v == [worker[p] EXCEPT !.left = @ \ {s}]
    <3>1. /\ Becomes(p, v) /\ worker[p].pc = "loop"
          /\ UNCHANGED <<seen, raw, sync, pageCheckpoint>>
      BY <2>2 DEF SkipStore, AtTarget
    <3>2. v.pc = "loop"
      BY <1>1, <3>1 DEF Worker
    <3> HIDE DEF v
    <3> QED  BY <3>1, <3>2, LedgerOutside
  <2>3. CASE PauseBefore(p, s)
    <3>1. PICK f \in Paused : /\ Pause(p, f)
                              /\ UNCHANGED <<seen, raw, sync, pageCheckpoint>>
      BY <2>3 DEF PauseBefore, Paused
    <3> DEFINE v == [worker[p] EXCEPT !.pc = "finish", !.final = f]
    <3>2. Becomes(p, v) /\ v.pc = "finish"
      BY <1>1, <3>1 DEF Pause, Worker
    <3> HIDE DEF v
    <3> QED  BY <3>1, <3>2, LedgerOutside
  <2>4. CASE BeginStore(p, s)
    <3> DEFINE m == TargetMode(RowOf(p, s))
               v == [worker[p] EXCEPT !.pc = "open", !.store = s, !.target = m,
                                      !.left = worker[p].left \ {s}]
    <3>1. Becomes(p, v) /\ UNCHANGED <<seen, raw, sync, pageCheckpoint>>
      BY <2>4 DEF BeginStore
    <3> HIDE DEF m
    <3>2. v.pc = "open"
      BY <1>1 DEF Worker
    <3> HIDE DEF v
    <3> QED  BY <3>1, <3>2, LedgerOutside
  <2> QED  BY <1>3, <2>1, <2>2, <2>3, <2>4
<1>4. CASE EnterLoop(p)
  <2> DEFINE v == [worker[p] EXCEPT !.pc = "loop",
                                    !.counts = run[worker[p].run].counts]
  <2>1. Becomes(p, v) /\ UNCHANGED <<seen, raw, sync, pageCheckpoint>>
    BY <1>4 DEF EnterLoop
  <2>2. v.pc = "loop"
    BY <1>1 DEF Worker
  <2> HIDE DEF v
  <2> QED  BY <2>1, <2>2, LedgerOutside
<1>5. CASE SettleStore(p)
  <2> DEFINE c == CountsAfter(worker[p])
             f == FinalOf(worker[p].outcome)
             v == [worker[p] EXCEPT !.pc = "account", !.counts = c, !.got = 0,
                                    !.final = f]
  <2>1. Becomes(p, v) /\ UNCHANGED <<seen, raw, sync, pageCheckpoint>>
    BY <1>5 DEF SettleStore
  <2> HIDE DEF c, f
  <2>2. v.pc = "account"
    BY <1>1 DEF Worker
  <2> HIDE DEF v
  <2> QED  BY <2>1, <2>2, LedgerOutside
<1>6. CASE AccountStore(p)
  <2> DEFINE step == IF worker[p].final = "SUCCEEDED" THEN "loop" ELSE "finish"
             v == [worker[p] EXCEPT !.pc = step]
  <2>1. /\ Becomes(p, v) \/ Becomes(p, Idle)
        /\ UNCHANGED <<seen, raw, sync, pageCheckpoint>>
    BY <1>6 DEF AccountStore
  <2>2. v.pc \notin Inside
    BY <1>1 DEF Worker
  <2> HIDE DEF v
  <2> QED  BY <2>1, <2>2, IdleTyped, LedgerOutside
<1>7. CASE FinishRun(p) \/ Crash(p)
  <2>1. Becomes(p, Idle) /\ UNCHANGED <<seen, raw, sync, pageCheckpoint>>
    BY <1>7 DEF FinishRun, Crash
  <2> QED  BY <2>1, IdleTyped, LedgerOutside
<1> QED  BY <1>2, <1>3, <1>4, <1>5, <1>6, <1>7

LEMMA StoreLedger ==
  ASSUME LedgerInv, NEW p \in Proc,
         \/ SkipCompleteStore(p) \/ OpenStore(p) \/ ReadPage(p)
         \/ StopProvider(p) \/ ReadFails(p) \/ ReviewFails(p) \/ PauseStore(p)
         \/ NextPage(p) \/ \E d \in Day : RejectReview(p, d)
  PROVE  SeenIsStored' /\ AnchorIsSeen' /\ MemoryOK'
<1> DEFINE w == worker[p]
           quiet == UNCHANGED <<seen, raw, sync, pageCheckpoint>>
<1>1. w \in Worker /\ WorkerOK(w) /\ Remembers(w, seen, raw)
  BY WorkerTyped DEF LedgerInv, MemoryOK
<1>2. ASSUME NEW o \in Outcomes, Leave(p, o)
      PROVE  SeenIsStored' /\ AnchorIsSeen' /\ MemoryOK'
  <2> DEFINE v == [w EXCEPT !.pc = "settle", !.outcome = o]
  <2>1. Becomes(p, v) /\ quiet
    BY <1>2 DEF Leave, database
  <2>2. v.pc \notin Inside
    BY <1>1 DEF Worker, Inside
  <2> HIDE DEF v
  <2> QED  BY <2>1, <2>2, LedgerOutside
<1>3. CASE SkipCompleteStore(p)
  <2> DEFINE m == InitialMode(sync[w.store].anchor)
             v == [w EXCEPT !.pc = "settle", !.outcome = "done", !.got = 0,
                            !.mode = m]
  <2>1. Becomes(p, v) /\ quiet
    BY <1>3 DEF SkipCompleteStore, database
  <2> HIDE DEF m
  <2>2. v.pc \notin Inside
    BY <1>1 DEF Worker, Inside
  <2> HIDE DEF v
  <2> QED  BY <2>1, <2>2, LedgerOutside
<1>4. CASE OpenStore(p)
  <2> DEFINE rows == pageCheckpoint[w.run][w.store]
             prev == sync[w.store].anchor
             mode == InitialMode(prev)
  <2>1. w.run \in Run /\ w.store \in Store /\ quiet
    BY <1>1, <1>4 DEF OpenStore, WorkerOK, database
  <2>2. PICK l \in Latest(rows), c \in Latest({r \in rows : r.complete}) :
          Becomes(p, [w EXCEPT !.pc = "read",
                               !.previous = prev,
                               !.page = ResumePage(l),
                               !.mode = IF c.mode = "none"
                                        THEN mode ELSE c.mode,
                               !.anchorSeen = c.anchorSeen,
                               !.anchor = c.anchor,
                               !.got = 0, !.opened = FALSE, !.shown = {},
                               !.outcome = "none"])
    BY <1>4 DEF OpenStore
  <2>3. c.anchor # NoReview => c.anchor \in seen[w.store]
    <3>1. \A r \in rows : r.anchor # NoReview => r.anchor \in seen[w.store]
      BY <2>1 DEF LedgerInv, AnchorIsSeen
    <3>2. NoPage.anchor = NoReview
      BY DEF NoPage, PartialPage
    <3> HIDE DEF rows
    <3> QED  BY <3>1, <3>2 DEF Latest
  <2> DEFINE n == ResumePage(l)
             m == IF c.mode = "none" THEN mode ELSE c.mode
             v == [w EXCEPT !.pc = "read", !.previous = prev, !.page = n,
                            !.mode = m, !.anchorSeen = c.anchorSeen,
                            !.anchor = c.anchor, !.got = 0, !.opened = FALSE,
                            !.shown = {}, !.outcome = "none"]
  <2>4. Becomes(p, v)
    BY <2>2
  <2> HIDE DEF n, m, mode, prev
  <2>5. v.pc = "read" /\ v.store = w.store /\ v.anchor = c.anchor
    BY <1>1 DEF Worker
  <2> HIDE DEF v
  <2>6. Remembers(v, seen, raw)
    BY <2>3, <2>5 DEF Remembers
  <2> QED  BY <2>1, <2>4, <2>6, LedgerQuiet
<1>5. CASE ReadPage(p)
  <2> DEFINE items == PageOf(w.store, w.page)
             recent == {d \in items : d >= run[w.run].asOf - Window}
             shown == IF recent = {} THEN w.shown ELSE recent
             end == BoundaryOf(w, items, recent)
             v == [w EXCEPT !.pc = "protect", !.todo = recent, !.opened = TRUE,
                            !.shown = shown, !.boundary = end]
  <2>1. Becomes(p, v) /\ w.pc = "read" /\ quiet
    BY <1>5 DEF ReadPage, database
  <2> HIDE DEF items, recent, shown, end
  <2>2. v.pc = "protect" /\ v.store = w.store /\ v.anchor = w.anchor
    BY <1>1 DEF Worker
  <2> HIDE DEF v
  <2>3. Remembers(v, seen, raw)
    BY <1>1, <2>1, <2>2 DEF Remembers, Inside
  <2> QED  BY <2>1, <2>3, LedgerQuiet
<1>6. CASE NextPage(p)
  <2> DEFINE n == PageAfter(w.page)
             v == [w EXCEPT !.pc = "read", !.page = n]
  <2>1. Becomes(p, v) /\ w.pc = "closed" /\ quiet
    BY <1>6 DEF NextPage, database
  <2> HIDE DEF n
  <2>2. v.pc = "read" /\ v.store = w.store /\ v.anchor = w.anchor
    BY <1>1 DEF Worker
  <2> HIDE DEF v
  <2>3. Remembers(v, seen, raw)
    BY <1>1, <2>1, <2>2 DEF Remembers, Inside
  <2> QED  BY <2>1, <2>3, LedgerQuiet
<1>7. ASSUME NEW d \in Day, RejectReview(p, d)
      PROVE  SeenIsStored' /\ AnchorIsSeen' /\ MemoryOK'
  <2> DEFINE v == [w EXCEPT !.todo = @ \ {d}]
  <2>1. Becomes(p, v) /\ w.pc = "protect" /\ quiet
    BY <1>7 DEF RejectReview, Protecting, database
  <2>2. v.pc = "protect" /\ v.store = w.store /\ v.anchor = w.anchor
    BY <1>1, <2>1 DEF Worker
  <2> HIDE DEF v
  <2>3. Remembers(v, seen, raw)
    BY <1>1, <2>1, <2>2 DEF Remembers, Inside
  <2> QED  BY <2>1, <2>3, LedgerQuiet
<1>8. CASE StopProvider(p)
  <2>1. PICK o \in {"access", "dom"} : Leave(p, o)
    BY <1>8 DEF StopProvider
  <2> QED  BY <1>2, <2>1 DEF Outcomes
<1>9. CASE ReadFails(p) \/ ReviewFails(p) \/ PauseStore(p)
  <2>1. PICK o \in {"failed", "fatal", "paused"} : Leave(p, o)
    BY <1>9 DEF ReadFails, ReviewFails, PauseStore
  <2> QED  BY <1>2, <2>1 DEF Outcomes
<1> QED  BY <1>3, <1>4, <1>5, <1>6, <1>7, <1>8, <1>9

\* Putting in a row with a recorded anchor, or none, keeps every anchor
\* recorded.
LEMMA PutPageSeen ==
  ASSUME LedgerInv, NEW w \in Worker, w.run \in Run, w.store \in Store,
         NEW row \in PageRow, PutPage(w, row),
         row.anchor # NoReview => row.anchor \in seen'[w.store],
         \A s \in Store : seen[s] \subseteq seen'[s], UNCHANGED sync
  PROVE  AnchorIsSeen'
<1> DEFINE new == {c \in pageCheckpoint[w.run][w.store] : c.page # row.page}
                    \cup {row}
<1>1. /\ pageCheckpoint \in [Run -> [Store -> SUBSET PageRow]]
      /\ pageCheckpoint' = [pageCheckpoint EXCEPT ![w.run][w.store] = new]
  BY DEF LedgerInv, TypeInv, TypeOK, PutPage
<1>2. \A r \in Run, s \in Store :
        pageCheckpoint'[r][s] \subseteq pageCheckpoint[r][s]
                        \cup (IF s = w.store THEN {row} ELSE {})
  BY <1>1
<1> HIDE DEF new
<1>3. AnchorIsSeen
  BY DEF LedgerInv
<1> QED  BY <1>2, <1>3 DEF AnchorIsSeen

LEMMA EncryptLedger ==
  ASSUME LedgerInv, NEW p \in Proc, NEW d \in Day, EncryptReview(p, d),
         CollectionAssumption
  PROVE  SeenIsStored' /\ AnchorIsSeen' /\ MemoryOK'
<1> DEFINE w == worker[p]
           inserted == NotStored(w.store, d)
           r == IF inserted THEN w.run ELSE raw[w.store][d]
           got == IF inserted THEN w.got + 1 ELSE w.got
           v == [w EXCEPT !.pc = "sealed", !.got = got]
<1>1. w \in Worker /\ WorkerOK(w) /\ Remembers(w, seen, raw)
  BY WorkerTyped DEF LedgerInv, MemoryOK
<1>2. /\ Becomes(p, v) /\ w.pc = "protect" /\ Newest(d, w.todo)
      /\ raw' = [raw EXCEPT ![w.store][d] = r]
      /\ UNCHANGED <<seen, sync, pageCheckpoint>>
  BY DEF EncryptReview, Protecting, progress
<1>3. w.run \in Run /\ w.run # NoRun /\ w.store \in Store /\ w.todo \subseteq Day
  BY <1>1, <1>2 DEF WorkerOK, Worker, CollectionAssumption
<1>4. r # NoRun
  BY <1>3 DEF NotStored
<1>5. raw \in [Store -> [Day -> Run \cup {NoRun}]]
  BY DEF LedgerInv, TypeInv, TypeOK
<1> HIDE DEF got, r
<1>6. /\ v.pc = "sealed" /\ v.store = w.store /\ v.anchor = w.anchor
      /\ v.todo = w.todo
  BY <1>1 DEF Worker
<1> HIDE DEF v
<1>7. /\ raw'[w.store][d] = r
      /\ \A s \in Store, e \in Day : raw[s][e] # NoRun => raw'[s][e] # NoRun
  BY <1>2, <1>3, <1>4, <1>5
<1>8. \A e \in Day : Newest(e, w.todo) => e = d
  BY <1>2 DEF Newest, Day
<1>9. Remembers(v, seen', raw')
  BY <1>1, <1>2, <1>4, <1>6, <1>7, <1>8 DEF Remembers, Inside
<1>10. worker'[p] = v /\ \A q \in Proc \ {p} : worker'[q] = worker[q]
  BY <1>2, Updated DEF LedgerInv
<1>11. MemoryOK'
  BY <1>2, <1>7, <1>9, <1>10, MemoryUpdate DEF LedgerInv
<1>12. SeenIsStored' /\ AnchorIsSeen'
  BY <1>2, <1>7 DEF LedgerInv, SeenIsStored, AnchorIsSeen
<1> QED  BY <1>11, <1>12

LEMMA AbsorbRemembers ==
  ASSUME NEW w \in Worker, NEW d \in Day, NEW b \in BOOLEAN, NEW known, NEW kept,
         d \in known[w.store],
         w.anchor # NoReview => w.anchor \in known[w.store]
  PROVE  Remembers(Absorb(w, d, b), known, kept)
BY AbsorbTyped DEF Remembers

LEMMA PartialPageSeen ==
  ASSUME LedgerInv, NEW w \in Worker, w.run \in Run, w.store \in Store,
         MarkPage(w), \A s \in Store : seen[s] \subseteq seen'[s], UNCHANGED sync
  PROVE  AnchorIsSeen'
<1> DEFINE row == PartialPage(w.page)
<1>1. row \in PageRow
  BY NoPageTyped DEF Worker
<1>2. row.anchor = NoReview
  BY DEF PartialPage
<1>3. PutPage(w, row)
  BY DEF MarkPage
<1> HIDE DEF row
<1> QED  BY <1>1, <1>2, <1>3, PutPageSeen

LEMMA DuplicateLedger ==
  ASSUME LedgerInv, NEW p \in Proc, NEW d \in Day, DuplicateReview(p, d)
  PROVE  SeenIsStored' /\ AnchorIsSeen' /\ MemoryOK'
<1> DEFINE w == worker[p]
           v == Absorb(w, d, TRUE)
<1>1. w \in Worker /\ WorkerOK(w) /\ Remembers(w, seen, raw)
  BY WorkerTyped DEF LedgerInv, MemoryOK
<1>2. /\ Becomes(p, v) /\ w.pc = "protect" /\ d \in seen[w.store]
      /\ MarkPage(w) /\ UNCHANGED <<seen, raw, sync>>
  BY DEF DuplicateReview, Protecting, reviews
<1>3. w.run \in Run /\ w.store \in Store
  BY <1>1, <1>2 DEF WorkerOK
<1>4. w.anchor # NoReview => w.anchor \in seen[w.store]
  BY <1>1, <1>2 DEF Remembers, Inside
<1>5. Remembers(v, seen, raw)
  BY <1>1, <1>2, <1>4, AbsorbRemembers
<1> HIDE DEF v
<1>6. worker'[p] = v /\ \A q \in Proc \ {p} : worker'[q] = worker[q]
  BY <1>2, Updated DEF LedgerInv
<1>7. MemoryOK'
  BY <1>2, <1>5, <1>6, MemoryUpdate DEF LedgerInv
<1>8. AnchorIsSeen'
  BY <1>1, <1>2, <1>3, PartialPageSeen
<1>9. SeenIsStored'
  BY <1>2 DEF LedgerInv, SeenIsStored
<1> QED  BY <1>7, <1>8, <1>9

LEMMA MarkLedger ==
  ASSUME LedgerInv, NEW p \in Proc, NEW d \in Day, MarkSeen(p, d)
  PROVE  SeenIsStored' /\ AnchorIsSeen' /\ MemoryOK'
<1> DEFINE w == worker[p]
           v == Absorb(w, d, FALSE)
<1>1. w \in Worker /\ WorkerOK(w) /\ Remembers(w, seen, raw)
  BY WorkerTyped DEF LedgerInv, MemoryOK
<1>2. /\ Becomes(p, v) /\ w.pc = "sealed" /\ Newest(d, w.todo) /\ MarkPage(w)
      /\ seen' = [seen EXCEPT ![w.store] = @ \cup {d}]
      /\ UNCHANGED <<raw, sync>>
  BY DEF MarkSeen
<1>3. w.run \in Run /\ w.store \in Store
  BY <1>1, <1>2 DEF WorkerOK
<1>4. raw[w.store][d] # NoRun
  BY <1>1, <1>2 DEF Remembers
<1>5. seen \in [Store -> SUBSET Day]
  BY DEF LedgerInv, TypeInv, TypeOK
<1>6. /\ d \in seen'[w.store] /\ \A s \in Store : seen[s] \subseteq seen'[s]
      /\ \A s \in Store : seen'[s] \subseteq
                            seen[s] \cup (IF s = w.store THEN {d} ELSE {})
  BY <1>2, <1>3, <1>5
<1>7. w.anchor # NoReview => w.anchor \in seen'[w.store]
  BY <1>1, <1>2, <1>3, <1>6 DEF Remembers, Inside
<1>8. Remembers(v, seen', raw')
  BY <1>1, <1>6, <1>7, AbsorbRemembers
<1> HIDE DEF v
<1>9. worker'[p] = v /\ \A q \in Proc \ {p} : worker'[q] = worker[q]
  BY <1>2, Updated DEF LedgerInv
<1>10. MemoryOK'
  BY <1>2, <1>6, <1>8, <1>9, MemoryUpdate DEF LedgerInv
<1>11. AnchorIsSeen'
  BY <1>1, <1>2, <1>3, <1>6, PartialPageSeen
<1>12. SeenIsStored'
  BY <1>2, <1>4, <1>6 DEF LedgerInv, SeenIsStored
<1> QED  BY <1>10, <1>11, <1>12

\* A completed page records the anchor its process carries.
LEMMA PageLedger ==
  ASSUME LedgerInv, NEW p \in Proc, ClosePage(p) \/ FallBack(p)
  PROVE  SeenIsStored' /\ AnchorIsSeen' /\ MemoryOK'
<1> DEFINE w == worker[p]
<1>1. /\ w \in Worker /\ WorkerOK(w) /\ Remembers(w, seen, raw)
      /\ w.mode \in Modes
  BY WorkerTyped DEF LedgerInv, MemoryOK, Worker
<1>2. PICK m \in Modes, v \in {[w EXCEPT !.pc = "closed"],
                               [w EXCEPT !.mode = "BACKFILL_FALLBACK"]} :
        /\ CompletePage(w, m) /\ Becomes(p, v)
        /\ w.pc \in {"protect", "closed"}
        /\ v = [w EXCEPT !.pc = "closed"] \/ w.pc = "closed"
        /\ UNCHANGED <<seen, raw, sync>>
  <2>1. CASE ClosePage(p)
    BY <1>1, <2>1 DEF ClosePage, reviews
  <2>2. CASE FallBack(p)
    BY <2>2, ModeNames DEF FallBack, reviews
  <2> QED  BY <2>1, <2>2
<1>3. v.pc = "closed" /\ v.store = w.store /\ v.anchor = w.anchor
  BY <1>1, <1>2 DEF Worker
<1>4. /\ w.run \in Run /\ w.store \in Store
      /\ w.anchor # NoReview => w.anchor \in seen[w.store]
  BY <1>1, <1>2 DEF WorkerOK, Remembers, Inside
<1>5. Remembers(v, seen, raw)
  BY <1>3, <1>4 DEF Remembers
<1>6. worker'[p] = v /\ \A q \in Proc \ {p} : worker'[q] = worker[q]
  BY <1>2, Updated DEF LedgerInv
<1>7. MemoryOK'
  BY <1>2, <1>5, <1>6, MemoryUpdate DEF LedgerInv
<1>8. AnchorIsSeen'
  <2> DEFINE row == [page |-> w.page, complete |-> TRUE, mode |-> m,
                     anchorSeen |-> w.anchorSeen, anchor |-> w.anchor]
  <2>1. row \in PageRow /\ row.anchor = w.anchor
    BY <1>1, <1>2 DEF PageRow, Worker, ModeOrNone
  <2>2. PutPage(w, row)
    BY <1>2 DEF CompletePage
  <2> HIDE DEF row
  <2> QED  BY <1>1, <1>2, <1>4, <2>1, <2>2, PutPageSeen
<1>9. SeenIsStored'
  BY <1>2 DEF LedgerInv, SeenIsStored
<1> QED  BY <1>7, <1>8, <1>9

LEMMA CompleteLedger ==
  ASSUME LedgerInv, NEW p \in Proc, CompleteStore(p)
  PROVE  SeenIsStored' /\ AnchorIsSeen' /\ MemoryOK'
<1> DEFINE w == worker[p]
           v == [w EXCEPT !.pc = "settle", !.outcome = "done"]
           y == IF w.anchor = NoReview THEN sync[w.store]
                ELSE [anchor |-> w.anchor, mode |-> w.mode, run |-> w.run]
<1>1. w \in Worker /\ WorkerOK(w) /\ Remembers(w, seen, raw)
  BY WorkerTyped DEF LedgerInv, MemoryOK
<1>2. /\ Becomes(p, v) /\ w.pc = "closed"
      /\ sync' = [sync EXCEPT ![w.store] = y]
      /\ UNCHANGED <<seen, raw, pageCheckpoint>>
  BY DEF CompleteStore, reviews
<1>3. /\ w.store \in Store
      /\ w.anchor # NoReview => w.anchor \in seen[w.store]
  BY <1>1, <1>2 DEF WorkerOK, Remembers, Inside
<1>4. v.pc = "settle"
  BY <1>1 DEF Worker
<1> HIDE DEF v
<1>5. Remembers(v, seen', raw')
  BY <1>4 DEF Remembers, Inside
<1>6. worker'[p] = v /\ \A q \in Proc \ {p} : worker'[q] = worker[q]
  BY <1>2, Updated DEF LedgerInv
<1>7. MemoryOK'
  BY <1>2, <1>5, <1>6, MemoryUpdate DEF LedgerInv
<1>8. AnchorIsSeen'
  <2>1. y.anchor # NoReview => y.anchor \in seen[w.store]
    BY <1>3 DEF LedgerInv, AnchorIsSeen
  <2>2. \A s \in Store : sync'[s] = IF s = w.store THEN y ELSE sync[s]
    BY <1>2, <1>3 DEF LedgerInv, TypeInv, TypeOK
  <2> HIDE DEF y
  <2> QED  BY <1>2, <2>1, <2>2 DEF LedgerInv, AnchorIsSeen
<1>9. SeenIsStored'
  BY <1>2 DEF LedgerInv, SeenIsStored
<1> QED  BY <1>7, <1>8, <1>9

LEMMA NextLedger ==
  ASSUME CollectionAssumption, LedgerInv, [Next]_vars
  PROVE  LedgerInv'
<1> DEFINE Good == SeenIsStored' /\ AnchorIsSeen' /\ MemoryOK'
<1>1. TypeInv'
  BY NextTyped DEF LedgerInv
<1>2. CASE UNCHANGED vars \/ Provider
  <2>1. UNCHANGED <<seen, raw, sync, pageCheckpoint, worker>>
    BY <1>2 DEF vars, Provider, Post, Hide, Reveal, progress, reviews
  <2> QED
    BY <1>1, <2>1 DEF LedgerInv, SeenIsStored, AnchorIsSeen, MemoryOK
<1>3. ASSUME NEW p \in Proc, Operator(p) \/ Crash(p) PROVE Good
  BY <1>3, BatchLedger DEF Operator
<1>4. ASSUME NEW p \in Proc, Work(p) PROVE Good
  <2>1. CASE \/ \E s \in Store : \/ WritePending(p, s) \/ SkipStore(p, s)
                                 \/ PauseBefore(p, s) \/ BeginStore(p, s)
             \/ EnterLoop(p) \/ SettleStore(p) \/ AccountStore(p)
             \/ FinishRun(p)
    BY <2>1, BatchLedger
  <2>2. CASE \/ SkipCompleteStore(p) \/ OpenStore(p) \/ ReadPage(p)
             \/ StopProvider(p) \/ ReadFails(p) \/ ReviewFails(p)
             \/ PauseStore(p) \/ NextPage(p) \/ \E d \in Day : RejectReview(p, d)
    BY <2>2, StoreLedger
  <2>3. ASSUME NEW d \in Day,
               DuplicateReview(p, d) \/ EncryptReview(p, d) \/ MarkSeen(p, d)
        PROVE  Good
    BY <2>3, DuplicateLedger, EncryptLedger, MarkLedger
  <2>4. CASE ClosePage(p) \/ FallBack(p)
    BY <2>4, PageLedger
  <2>5. CASE CompleteStore(p)
    BY <2>5, CompleteLedger
  <2> QED  BY <1>4, <2>1, <2>2, <2>3, <2>4, <2>5 DEF Work
<1> QED
  BY <1>1, <1>2, <1>3, <1>4 DEF Next, LedgerInv

THEOREM LedgerInvHolds == Spec => []LedgerInv
<1>1. Init => LedgerInv
  BY InitLedger, CollectionAssumption
<1>2. LedgerInv /\ [Next]_vars => LedgerInv'
  BY NextLedger, CollectionAssumption
<1> QED
  BY <1>1, <1>2, PTL DEF Spec

\* Whatever the stores, runs, processes, crashes and faults, the ledger never
\* claims a review whose encrypted row was not committed.
THEOREM SeenIsAlwaysStored == Spec => []SeenIsStored
BY LedgerInvHolds, PTL DEF LedgerInv

\* Every anchor that a later pass stops at, or a resumed pass carries over, is
\* in the ledger.
THEOREM AnchorIsAlwaysSeen == Spec => []AnchorIsSeen
BY LedgerInvHolds, PTL DEF LedgerInv

(***************************************************************************)
(* Refinement: every step of collection is a step of ReviewLedger or       *)
(* changes nothing the ledger promises about.                              *)
(***************************************************************************)
Anchors == [s \in Store |-> sync[s].anchor]

LEMMA InitMaps == ASSUME Init PROVE Ledger!Init
BY DEF Init, Ledger!Init

LEMMA EncryptMaps ==
  ASSUME LedgerInv, NEW p \in Proc, NEW d \in Day, EncryptReview(p, d)
  PROVE  Ledger!Next \/ UNCHANGED <<raw, seen, Anchors>>
<1> DEFINE w == worker[p]
           r == IF NotStored(w.store, d) THEN w.run ELSE raw[w.store][d]
<1>1. /\ w.pc = "protect" /\ raw' = [raw EXCEPT ![w.store][d] = r]
      /\ UNCHANGED <<seen, sync>>
  BY DEF EncryptReview, Protecting, progress
<1>2. w.run \in Run /\ w.store \in Store
  BY <1>1, WorkerTyped DEF WorkerOK, LedgerInv
<1>3. raw \in [Store -> [Day -> Run \cup {NoRun}]]
  BY DEF LedgerInv, TypeInv, TypeOK
<1>4. UNCHANGED Anchors
  BY <1>1 DEF Anchors
<1>5. CASE raw[w.store][d] = NoRun
  <2>1. Ledger!Keep(w.store, d, w.run)
    BY <1>1, <1>4, <1>5 DEF Ledger!Keep, NotStored, Anchors
  <2> QED  BY <1>2, <2>1 DEF Ledger!Next
<1>6. CASE raw[w.store][d] # NoRun
  <2>1. raw' = raw
    BY <1>1, <1>2, <1>3, <1>6 DEF NotStored
  <2> QED  BY <1>1, <1>4, <2>1
<1> QED  BY <1>5, <1>6

LEMMA MarkMaps ==
  ASSUME LedgerInv, NEW p \in Proc, NEW d \in Day, MarkSeen(p, d)
  PROVE  Ledger!Next
<1> DEFINE w == worker[p]
<1>1. /\ w.pc = "sealed" /\ Newest(d, w.todo) /\ UNCHANGED <<raw, sync>>
      /\ seen' = [seen EXCEPT ![w.store] = @ \cup {d}]
  BY DEF MarkSeen
<1>2. WorkerOK(w) /\ Remembers(w, seen, raw)
  BY WorkerTyped DEF LedgerInv, MemoryOK
<1>3. w.store \in Store /\ raw[w.store][d] # NoRun
  BY <1>1, <1>2 DEF WorkerOK, Remembers
<1>4. Ledger!Record(w.store, d)
  BY <1>1, <1>3 DEF Ledger!Record
<1> QED  BY <1>3, <1>4 DEF Ledger!Next

LEMMA CompleteMaps ==
  ASSUME LedgerInv, NEW p \in Proc, CompleteStore(p)
  PROVE  Ledger!Next \/ UNCHANGED <<raw, seen, Anchors>>
<1> DEFINE w == worker[p]
           y == IF w.anchor = NoReview THEN sync[w.store]
                ELSE [anchor |-> w.anchor, mode |-> w.mode, run |-> w.run]
<1>1. /\ w.pc = "closed" /\ UNCHANGED <<raw, seen>>
      /\ sync' = [sync EXCEPT ![w.store] = y]
  BY DEF CompleteStore, reviews
<1>2. w \in Worker /\ WorkerOK(w) /\ Remembers(w, seen, raw)
  BY WorkerTyped DEF LedgerInv, MemoryOK
<1>3. /\ w.store \in Store /\ w.anchor \in Anchor
      /\ w.anchor # NoReview => w.anchor \in seen[w.store]
  BY <1>1, <1>2 DEF WorkerOK, Worker, Remembers, Inside
<1>4. sync \in [Store -> SyncState]
  BY DEF LedgerInv, TypeInv, TypeOK
<1>5. CASE w.anchor = NoReview
  <2>1. sync' = sync
    BY <1>1, <1>3, <1>4, <1>5
  <2> QED  BY <1>1, <2>1 DEF Anchors
<1>6. CASE w.anchor # NoReview
  <2>1. w.anchor \in Day
    BY <1>3, <1>6 DEF Anchor
  <2>2. \A s \in Store : sync'[s].anchor =
                         IF s = w.store THEN w.anchor ELSE sync[s].anchor
    BY <1>1, <1>3, <1>4, <1>6
  <2>3. PICK s \in Store, d \in Day : s = w.store /\ d = w.anchor
    BY <1>3, <2>1
  <2>4. Anchors' = [Anchors EXCEPT ![s] = d]
    BY <2>2, <2>3 DEF Anchors
  <2>5. Ledger!Complete(s, d)
    BY <1>1, <1>3, <1>6, <2>3, <2>4 DEF Ledger!Complete, Anchors
  <2> QED  BY <2>5 DEF Ledger!Next
<1> QED  BY <1>5, <1>6

LEMMA NextMaps ==
  ASSUME LedgerInv, [Next]_vars
  PROVE  [Ledger!Next]_Ledger!ledgerVars
<1> DEFINE Same == UNCHANGED <<raw, seen, sync>>
<1>1. SUFFICES Ledger!Next \/ UNCHANGED <<raw, seen, Anchors>>
  BY DEF Ledger!ledgerVars, Anchors
<1> USE DEF provider, database, progress, reviews
<1>2. CASE UNCHANGED vars \/ Provider
  <2>1. Same
    BY <1>2 DEF vars, Provider, Post, Hide, Reveal
  <2> QED  BY <2>1 DEF Anchors
<1>3. ASSUME NEW p \in Proc, Operator(p) \/ Crash(p) PROVE Same
  BY <1>3 DEF Operator, StartRun, ResumeRun, Crash
<1>4. ASSUME NEW p \in Proc, Work(p)
      PROVE  Ledger!Next \/ UNCHANGED <<raw, seen, Anchors>>
  <2>1. ASSUME NEW s \in Store,
               \/ WritePending(p, s) \/ SkipStore(p, s)
               \/ PauseBefore(p, s) \/ BeginStore(p, s)
        PROVE  Same
    BY <2>1 DEF WritePending, SkipStore, PauseBefore, BeginStore
  <2>2. CASE \/ EnterLoop(p) \/ SkipCompleteStore(p) \/ OpenStore(p)
             \/ ReadPage(p) \/ StopProvider(p) \/ ReadFails(p)
    <3>1. Same
      BY <2>2 DEF EnterLoop, SkipCompleteStore, OpenStore, ReadPage,
         StopProvider, ReadFails, Leave
    <3> QED  BY <3>1 DEF Anchors
  <2>3. CASE \/ ReviewFails(p) \/ ClosePage(p) \/ FallBack(p)
             \/ PauseStore(p) \/ NextPage(p)
    <3>1. Same
      BY <2>3 DEF ReviewFails, ClosePage, FallBack, PauseStore, NextPage, Leave
    <3> QED  BY <3>1 DEF Anchors
  <2>4. CASE SettleStore(p) \/ AccountStore(p) \/ FinishRun(p)
    <3>1. Same
      BY <2>4 DEF SettleStore, AccountStore, FinishRun
    <3> QED  BY <3>1 DEF Anchors
  <2>5. ASSUME NEW d \in Day, RejectReview(p, d) \/ DuplicateReview(p, d)
        PROVE  Same
    BY <2>5 DEF RejectReview, DuplicateReview
  <2>6. CASE \E d \in Day : EncryptReview(p, d) \/ MarkSeen(p, d)
    BY <2>6, EncryptMaps, MarkMaps
  <2>7. CASE CompleteStore(p)
    BY <2>7, CompleteMaps
  <2>8. Same => UNCHANGED <<raw, seen, Anchors>>
    BY DEF Anchors
  <2> QED
    BY <1>4, <2>1, <2>2, <2>3, <2>4, <2>5, <2>6, <2>7, <2>8 DEF Work
<1>5. Same => UNCHANGED <<raw, seen, Anchors>>
  BY DEF Anchors
<1> QED  BY <1>2, <1>3, <1>4, <1>5 DEF Next

\* Collection implements ReviewLedger: each review is kept at most once and for
\* good, known only when kept, and only a known review becomes an anchor.
THEOREM CollectionImplementsLedger == Spec => ImplementsLedger
<1>1. Init => Ledger!Init
  BY InitMaps
<1>2. LedgerInv /\ [Next]_vars => [Ledger!Next]_Ledger!ledgerVars
  BY NextMaps
<1> QED
  BY <1>1, <1>2, LedgerInvHolds, PTL DEF Spec, ImplementsLedger, Ledger!Spec
=============================================================================
