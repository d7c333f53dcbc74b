-------------------------- MODULE ReviewRunProofs ---------------------------
(* What a run reports, for every value of the constants.  It never reports   *)
(* reviews it does not have: publication selects the rows by run and refuses *)
(* a run with fewer rows than it reports.  And a run that succeeded has      *)
(* completed every store it set out to collect, and never collects a         *)
(* completed one again, as long as no two processes work on one run.  And    *)
(* nothing is missing behind an anchor, as long as the provider's list only  *)
(* grows at its new end; and a run that met a hole in the history of a       *)
(* store does not leave that store incremental.                              *)
EXTENDS ReviewCollectionProofs, WellFoundedInduction

-----------------------------------------------------------------------------
(* Reviews *)

RowsIn(kept, r) == {c \in Store \X Day : kept[c[1]][c[2]] = r}

\* What a process is about to report is covered by rows of its run: those that
\* were there when it read the counters and those it inserted since.
Covered(w, kept) ==
  /\ w.pc # "idle" =>
       w.counts.collected + w.got <= Cardinality(RowsIn(kept, w.run))
  /\ w.pc = "pending" => w.got = 0

CoverOK == \A p \in Proc : Covered(worker[p], raw)

CountInv == TypeInv /\ CollectedHasRows /\ CoverOK

LEMMA RowsFinite ==
  ASSUME CollectionAssumption, NEW kept, NEW r
  PROVE  /\ IsFiniteSet(RowsIn(kept, r))
         /\ Cardinality(RowsIn(kept, r)) \in Nat
<1>1. IsFiniteSet(Store) /\ IsFiniteSet(Day)
  BY FS_Interval DEF CollectionAssumption, Store, Day
<1>2. IsFiniteSet(Store \X Day)
  BY <1>1, FS_Product
<1>3. RowsIn(kept, r) \subseteq Store \X Day
  BY DEF RowsIn
<1> QED  BY <1>2, <1>3, FS_Subset, FS_CardinalityType

\* Rows are only ever added to a run.
LEMMA RowsGrow ==
  ASSUME CollectionAssumption, NEW a, NEW b, NEW r,
         \A s \in Store, d \in Day : a[s][d] = r => b[s][d] = r
  PROVE  Cardinality(RowsIn(a, r)) <= Cardinality(RowsIn(b, r))
<1>1. RowsIn(a, r) \subseteq RowsIn(b, r)
  BY DEF RowsIn
<1> QED  BY <1>1, RowsFinite, FS_Subset

LEMMA CountersTyped ==
  ASSUME TypeInv, NEW p \in Proc
  PROVE  /\ worker[p] \in Worker /\ worker[p].got \in Nat
         /\ worker[p].counts \in Counts
         /\ worker[p].counts.collected \in Nat
BY WorkerTyped DEF Worker, Counts

LEMMA InitCount ==
  ASSUME CollectionAssumption, Init
  PROVE  CountInv
<1>1. TypeInv
  BY InitTyped
<1>2. CollectedHasRows
  <2>1. \A r \in Run : run[r].counts.collected = 0
    BY DEF Init, NoCounts
  <2>2. \A r \in Run : RowsOf(r) = RowsIn(raw, r)
    BY DEF RowsOf, RowsIn
  <2> QED  BY <2>1, <2>2, RowsFinite DEF CollectedHasRows
<1>3. CoverOK
  BY IdleTyped DEF Init, CoverOK, Covered
<1> QED  BY <1>1, <1>2, <1>3 DEF CountInv

\* A step that neither inserts a row nor writes a counter to the run.
LEMMA PlainStep ==
  ASSUME CountInv, NEW p \in Proc, NEW v, Becomes(p, v), Covered(v, raw),
         UNCHANGED <<run, raw>>
  PROVE  CollectedHasRows' /\ CoverOK'
<1>1. worker \in [Proc -> Worker]
  BY DEF CountInv, TypeInv, TypeOK
<1>2. worker'[p] = v /\ \A q \in Proc \ {p} : worker'[q] = worker[q]
  BY <1>1 DEF Becomes
<1>3. CoverOK'
  BY <1>2 DEF CountInv, CoverOK
<1>4. CollectedHasRows'
  BY DEF CountInv, CollectedHasRows, RowsOf
<1> QED  BY <1>3, <1>4

\* A step that writes counters rows cover to a run.
LEMMA ReportStep ==
  ASSUME CountInv, NEW p \in Proc, NEW v, Becomes(p, v), Covered(v, raw),
         NEW r \in Run, NEW row, run' = [run EXCEPT ![r] = row],
         row.counts.collected <= Cardinality(RowsIn(raw, r)), UNCHANGED raw
  PROVE  CollectedHasRows' /\ CoverOK'
<1>1. worker \in [Proc -> Worker] /\ run \in [Run -> RunRow]
  BY DEF CountInv, TypeInv, TypeOK
<1>2. worker'[p] = v /\ \A q \in Proc \ {p} : worker'[q] = worker[q]
  BY <1>1 DEF Becomes
<1>3. CoverOK'
  BY <1>2 DEF CountInv, CoverOK
<1>4. \A q \in Run : run'[q] = IF q = r THEN row ELSE run[q]
  BY <1>1
<1>5. CollectedHasRows'
  BY <1>4 DEF CountInv, CollectedHasRows, RowsOf, RowsIn
<1> QED  BY <1>3, <1>5

\* A step keeps the coverage when it keeps run, collected and got.
LEMMA KeepsCounters ==
  ASSUME CountInv, NEW p \in Proc, NEW v, worker[p].pc # "idle",
         v.run = worker[p].run, v.counts = worker[p].counts,
         v.got = worker[p].got, v.pc = "pending" => worker[p].pc = "pending"
  PROVE  Covered(v, raw)
BY DEF CountInv, CoverOK, Covered

LEMMA OperatorCount ==
  ASSUME CollectionAssumption, CountInv, NEW p \in Proc, NEW r \in Run,
         StartRun(p, r) \/ ResumeRun(p, r)
  PROVE  CollectedHasRows' /\ CoverOK'
<1> USE DEF reviews
<1>1. Idle \in Worker /\ Idle.got = 0 /\ Idle.counts = NoCounts
  BY IdleTyped DEF Idle
<1>2. run \in [Run -> RunRow] /\ run[r] \in RunRow /\ run[r].counts \in Counts
  BY DEF CountInv, TypeInv, TypeOK, RunRow
<1>3. Cardinality(RowsIn(raw, r)) \in Nat
  BY RowsFinite
<1>4. CASE StartRun(p, r)
  <2> DEFINE T == Targets(r)
             ready == ReadyStores(T)
             c == [NoCounts EXCEPT !.initial = Cardinality(T \ ready),
                                   !.incremental = Cardinality(ready)]
             row == [status |-> "RUNNING", slot |-> TRUE, asOf |-> today,
                     stores |-> Cardinality(T), counts |-> c]
             v == [Idle EXCEPT !.pc = "pending", !.run = r, !.left = T,
                               !.pend = T, !.ready = ready]
  <2>1. Becomes(p, v) /\ run' = [run EXCEPT ![r] = row] /\ UNCHANGED raw
    BY <1>4 DEF StartRun
  <2>2. NoCounts.collected = 0
    BY DEF NoCounts
  <2>3. c.collected = 0
    BY <2>2, NoCountsTyped DEF Counts
  <2> HIDE DEF T, ready, c
  <2>4. /\ v.pc = "pending" /\ v.run = r /\ v.got = 0
        /\ v.counts = NoCounts
    BY <1>1 DEF Worker
  <2> HIDE DEF v
  <2>5. Covered(v, raw)
    BY <1>3, <2>2, <2>4 DEF Covered
  <2>6. row.counts.collected <= Cardinality(RowsIn(raw, r))
    BY <1>3, <2>3
  <2> HIDE DEF row
  <2> QED  BY <2>1, <2>5, <2>6, ReportStep
<1>5. CASE ResumeRun(p, r)
  <2> DEFINE T == Targets(r)
             row == [run[r] EXCEPT !.status = "RUNNING", !.slot = TRUE]
             v == [Idle EXCEPT !.pc = "loop", !.run = r, !.left = T,
                               !.counts = run[r].counts]
  <2>1. Becomes(p, v) /\ run' = [run EXCEPT ![r] = row] /\ UNCHANGED raw
    BY <1>5 DEF ResumeRun
  <2>2. run[r].counts.collected <= Cardinality(RowsIn(raw, r))
    BY DEF CountInv, CollectedHasRows, RowsOf, RowsIn
  <2>3. row.counts = run[r].counts
    BY <1>2 DEF RunRow
  <2> HIDE DEF T, row
  <2>4. /\ v.pc = "loop" /\ v.run = r /\ v.got = 0
        /\ v.counts = run[r].counts
    BY <1>1, <1>2 DEF Worker
  <2> HIDE DEF v
  <2>5. run[r].counts.collected \in Nat
    BY <1>2 DEF Counts
  <2>6. Covered(v, raw)
    BY <2>2, <2>4, <2>5 DEF Covered
  <2> QED  BY <2>1, <2>2, <2>3, <2>6, ReportStep
<1> QED  BY <1>4, <1>5

LEMMA BatchCount ==
  ASSUME CollectionAssumption, CountInv, NEW p \in Proc,
         \/ \E s \in Store : \/ WritePending(p, s) \/ SkipStore(p, s)
                             \/ PauseBefore(p, s) \/ BeginStore(p, s)
         \/ EnterLoop(p) \/ SettleStore(p) \/ Crash(p)
  PROVE  CollectedHasRows' /\ CoverOK'
<1> USE DEF database, progress, reviews
<1> DEFINE w == worker[p]
           same == UNCHANGED <<run, raw>>
<1>1. /\ w \in Worker /\ WorkerOK(w) /\ Covered(w, raw)
      /\ w.got \in Nat /\ w.counts \in Counts /\ w.counts.collected \in Nat
  BY WorkerTyped, CountersTyped DEF CountInv, CoverOK
<1>2. ASSUME NEW s \in Store, WritePending(p, s)
      PROVE  CollectedHasRows' /\ CoverOK'
  <2> DEFINE v == [w EXCEPT !.pend = @ \ {s}]
  <2>1. Becomes(p, v) /\ same /\ w.pc = "pending"
    BY <1>2 DEF WritePending
  <2>2. v.run = w.run /\ v.counts = w.counts /\ v.got = w.got
    BY <1>1 DEF Worker
  <2> HIDE DEF v
  <2> QED  BY <2>1, <2>2, KeepsCounters, PlainStep
<1>3. ASSUME NEW s \in Store, SkipStore(p, s)
      PROVE  CollectedHasRows' /\ CoverOK'
  <2> DEFINE v == [w EXCEPT !.left = @ \ {s}]
  <2>1. Becomes(p, v) /\ same /\ w.pc = "loop"
    BY <1>3 DEF SkipStore, AtTarget
  <2>2. v.run = w.run /\ v.counts = w.counts /\ v.got = w.got /\ v.pc = w.pc
    BY <1>1 DEF Worker
  <2> HIDE DEF v
  <2> QED  BY <2>1, <2>2, KeepsCounters, PlainStep
<1>4. ASSUME NEW s \in Store, PauseBefore(p, s)
      PROVE  CollectedHasRows' /\ CoverOK'
  <2>1. PICK f \in Paused : Pause(p, f) /\ same /\ w.pc = "loop"
    BY <1>4 DEF PauseBefore, Paused, ToCollect, AtTarget
  <2> DEFINE v == [w EXCEPT !.pc = "finish", !.final = f]
  <2>2. Becomes(p, v)
    BY <2>1 DEF Pause
  <2>3. /\ v.run = w.run /\ v.counts = w.counts /\ v.got = w.got
        /\ v.pc = "finish"
    BY <1>1 DEF Worker
  <2> HIDE DEF v
  <2> QED  BY <2>1, <2>2, <2>3, KeepsCounters, PlainStep
<1>5. ASSUME NEW s \in Store, BeginStore(p, s)
      PROVE  CollectedHasRows' /\ CoverOK'
  <2> DEFINE m == TargetMode(RowOf(p, s))
             v == [w EXCEPT !.pc = "open", !.store = s, !.target = m,
                            !.left = w.left \ {s}]
  <2>1. Becomes(p, v) /\ same /\ w.pc = "loop"
    BY <1>5 DEF BeginStore, ToCollect, AtTarget
  <2> HIDE DEF m
  <2>2. /\ v.run = w.run /\ v.counts = w.counts /\ v.got = w.got
        /\ v.pc = "open"
    BY <1>1 DEF Worker
  <2> HIDE DEF v
  <2> QED  BY <2>1, <2>2, KeepsCounters, PlainStep
<1>6. CASE EnterLoop(p)
  <2> DEFINE c == run[w.run].counts
             v == [w EXCEPT !.pc = "loop", !.counts = c]
  <2>1. Becomes(p, v) /\ same /\ w.pc = "pending"
    BY <1>6 DEF EnterLoop
  <2>2. w.run \in Run
    BY <1>1, <2>1 DEF WorkerOK
  <2>3. c.collected <= Cardinality(RowsIn(raw, w.run))
    BY <2>2 DEF CountInv, CollectedHasRows, RowsOf, RowsIn
  <2>4. c.collected \in Nat
    BY <2>2 DEF CountInv, TypeInv, TypeOK, RunRow, Counts
  <2> HIDE DEF c
  <2>5. v.run = w.run /\ v.counts = c /\ v.got = w.got /\ v.pc = "loop"
    BY <1>1 DEF Worker
  <2> HIDE DEF v
  <2>6. Covered(v, raw)
    BY <1>1, <2>1, <2>3, <2>4, <2>5 DEF Covered
  <2> QED  BY <2>1, <2>6, PlainStep
<1>7. CASE SettleStore(p)
  <2> DEFINE c == CountsAfter(w)
             f == FinalOf(w.outcome)
             v == [w EXCEPT !.pc = "account", !.counts = c, !.got = 0,
                            !.final = f]
  <2>1. Becomes(p, v) /\ same /\ w.pc = "settle"
    BY <1>7 DEF SettleStore
  <2>2. c.collected \in {w.counts.collected, w.counts.collected + w.got}
    <3>1. \A k \in Counts : \A x, i, g :
            [k EXCEPT !.collected = x, !.incremental = i, !.fallback = g]
              .collected = x
      BY DEF Counts
    <3>2. \A k \in Counts : \A x :
            [k EXCEPT !.failed = x].collected = k.collected
      BY DEF Counts
    <3> QED  BY <1>1, <3>1, <3>2 DEF CountsAfter
  <2> HIDE DEF c, f
  <2>3. v.run = w.run /\ v.counts = c /\ v.got = 0 /\ v.pc = "account"
    BY <1>1 DEF Worker
  <2> HIDE DEF v
  <2>4. Cardinality(RowsIn(raw, w.run)) \in Nat
    BY RowsFinite
  <2>5. Covered(v, raw)
    BY <1>1, <2>1, <2>2, <2>3, <2>4 DEF Covered
  <2> QED  BY <2>1, <2>5, PlainStep
<1>8. CASE Crash(p)
  <2>1. Becomes(p, Idle) /\ same
    BY <1>8 DEF Crash
  <2> QED  BY <2>1, IdleTyped, PlainStep DEF Covered
<1> QED  BY <1>2, <1>3, <1>4, <1>5, <1>6, <1>7, <1>8

LEMMA ReportCount ==
  ASSUME CollectionAssumption, CountInv, NEW p \in Proc,
         AccountStore(p) \/ FinishRun(p)
  PROVE  CollectedHasRows' /\ CoverOK'
<1> USE DEF progress, reviews
<1> DEFINE w == worker[p]
<1>1. /\ w \in Worker /\ WorkerOK(w) /\ Covered(w, raw)
      /\ w.got \in Nat /\ w.counts \in Counts /\ w.counts.collected \in Nat
  BY WorkerTyped, CountersTyped DEF CountInv, CoverOK
<1>2. w.pc \in {"account", "finish", "loop"} /\ UNCHANGED raw
  BY DEF AccountStore, FinishRun
<1>3. w.run \in Run /\ run[w.run] \in RunRow
  BY <1>1, <1>2 DEF WorkerOK, CountInv, TypeInv, TypeOK
<1>4. w.counts.collected <= Cardinality(RowsIn(raw, w.run))
  BY <1>1, <1>2, RowsFinite DEF Covered
<1>5. Covered(Idle, raw)
  BY IdleTyped DEF Covered
<1>6. \A st, b :
        [run[w.run] EXCEPT !.status = st, !.slot = b, !.counts = w.counts]
          .counts = w.counts
  BY <1>3 DEF RunRow
<1>7. CASE AccountStore(p)
  <2> DEFINE on == w.final = "SUCCEEDED"
             st == IF on THEN "RUNNING" ELSE w.final
             row == [run[w.run] EXCEPT !.status = st, !.slot = on,
                                       !.counts = w.counts]
             pc == IF on THEN "loop" ELSE "finish"
             v == [w EXCEPT !.pc = pc]
  <2>1. \/ Becomes(p, Idle) /\ UNCHANGED run
        \/ Becomes(p, v) /\ run' = [run EXCEPT ![w.run] = row]
    BY <1>7 DEF AccountStore
  <2>2. row.counts = w.counts
    BY <1>6
  <2> HIDE DEF st, on, row
  <2>3. /\ v.run = w.run /\ v.counts = w.counts /\ v.got = w.got
        /\ v.pc \in {"loop", "finish"}
    BY <1>1 DEF Worker
  <2> HIDE DEF v
  <2>4. Covered(v, raw)
    BY <1>2, <2>3, KeepsCounters
  <2> QED
    BY <1>2, <1>3, <1>4, <1>5, <2>1, <2>2, <2>4, PlainStep, ReportStep
<1>8. CASE FinishRun(p)
  <2> DEFINE final == FinalStatus(w)
             row == [run[w.run] EXCEPT !.status = final, !.slot = FALSE,
                                       !.counts = w.counts]
  <2>1. Becomes(p, Idle) /\ run' = [run EXCEPT ![w.run] = row]
    BY <1>8 DEF FinishRun
  <2>2. row.counts = w.counts
    BY <1>6
  <2> HIDE DEF row
  <2> QED  BY <1>2, <1>3, <1>4, <1>5, <2>1, <2>2, ReportStep
<1> QED  BY <1>7, <1>8

LEMMA OpenCount ==
  ASSUME CollectionAssumption, CountInv, NEW p \in Proc,
         SkipCompleteStore(p) \/ OpenStore(p)
  PROVE  CollectedHasRows' /\ CoverOK'
<1> DEFINE w == worker[p]
           same == UNCHANGED <<run, raw>>
<1>1. /\ w \in Worker /\ Covered(w, raw)
      /\ w.got \in Nat /\ w.counts.collected \in Nat
  BY WorkerTyped, CountersTyped DEF CountInv, CoverOK
<1>2. w.pc = "open" /\ same
  BY DEF SkipCompleteStore, OpenStore, database
<1>3. ASSUME NEW v, v.run = w.run, v.counts = w.counts, v.got = 0,
             v.pc # "pending"
      PROVE  Covered(v, raw)
  BY <1>1, <1>2, <1>3, RowsFinite DEF Covered
<1>4. CASE SkipCompleteStore(p)
  <2> DEFINE m == InitialMode(sync[w.store].anchor)
             v == [w EXCEPT !.pc = "settle", !.outcome = "done", !.got = 0,
                            !.mode = m]
  <2>1. Becomes(p, v)
    BY <1>4 DEF SkipCompleteStore
  <2> HIDE DEF m
  <2>2. v.run = w.run /\ v.counts = w.counts /\ v.got = 0 /\ v.pc = "settle"
    BY <1>1 DEF Worker
  <2> HIDE DEF v
  <2> QED  BY <1>2, <1>3, <2>1, <2>2, PlainStep
<1>5. CASE OpenStore(p)
  <2> DEFINE rows == pageCheckpoint[w.run][w.store]
             prev == sync[w.store].anchor
             mode == InitialMode(prev)
  <2>1. PICK l \in Latest(rows), c \in Latest({r \in rows : r.complete}) :
          Becomes(p, [w EXCEPT !.pc = "read",
                               !.previous = prev,
                               !.page = ResumePage(l),
                               !.mode = IF c.mode = "none"
                                        THEN mode ELSE c.mode,
                               !.anchorSeen = c.anchorSeen,
                               !.anchor = c.anchor,
                               !.got = 0, !.opened = FALSE, !.shown = {},
                               !.outcome = "none"])
    BY <1>5 DEF OpenStore
  <2> DEFINE n == ResumePage(l)
             m == IF c.mode = "none" THEN mode ELSE c.mode
             v == [w EXCEPT !.pc = "read", !.previous = prev, !.page = n,
                            !.mode = m, !.anchorSeen = c.anchorSeen,
                            !.anchor = c.anchor, !.got = 0, !.opened = FALSE,
                            !.shown = {}, !.outcome = "none"]
  <2>2. Becomes(p, v)
    BY <2>1
  <2> HIDE DEF n, m, mode, prev, rows
  <2>3. v.run = w.run /\ v.counts = w.counts /\ v.got = 0 /\ v.pc = "read"
    BY <1>1 DEF Worker
  <2> HIDE DEF v
  <2> QED  BY <1>2, <1>3, <2>2, <2>3, PlainStep
<1> QED  BY <1>4, <1>5

LEMMA StoreCount ==
  ASSUME CountInv, NEW p \in Proc,
         \/ ReadPage(p) \/ StopProvider(p) \/ ReadFails(p) \/ ReviewFails(p)
         \/ PauseStore(p) \/ NextPage(p) \/ ClosePage(p) \/ FallBack(p)
         \/ CompleteStore(p) \/ \E d \in Day : RejectReview(p, d)
  PROVE  CollectedHasRows' /\ CoverOK'
<1> USE DEF database, reviews
<1> DEFINE w == worker[p]
           same == UNCHANGED <<run, raw>>
<1>1. w \in Worker
  BY WorkerTyped DEF CountInv
<1>2. w.pc \in {"read", "protect", "sealed", "closed"} /\ same
  BY DEF ReadPage, StopProvider, ReadFails, ReviewFails, PauseStore, NextPage,
     ClosePage, FallBack, CompleteStore, RejectReview, Protecting, Leave
<1>3. ASSUME NEW v, Becomes(p, v), v.run = w.run, v.counts = w.counts,
             v.got = w.got, v.pc # "pending"
      PROVE  CollectedHasRows' /\ CoverOK'
  BY <1>2, <1>3, KeepsCounters, PlainStep
<1>4. ASSUME NEW o, Leave(p, o) PROVE CollectedHasRows' /\ CoverOK'
  <2> DEFINE v == [w EXCEPT !.pc = "settle", !.outcome = o]
  <2>1. /\ Becomes(p, v) /\ v.run = w.run /\ v.counts = w.counts
        /\ v.got = w.got /\ v.pc = "settle"
    BY <1>1, <1>4 DEF Leave, Worker
  <2> HIDE DEF v
  <2> QED  BY <1>3, <2>1
<1>5. CASE \/ StopProvider(p) \/ ReadFails(p) \/ ReviewFails(p)
           \/ PauseStore(p)
  <2>1. PICK o : Leave(p, o)
    BY <1>5 DEF StopProvider, ReadFails, ReviewFails, PauseStore
  <2> QED  BY <1>4, <2>1
<1>6. CASE ReadPage(p)
  <2> DEFINE items == PageOf(w.store, w.page)
             recent == {d \in items : d >= run[w.run].asOf - Window}
             shown == IF recent = {} THEN w.shown ELSE recent
             end == BoundaryOf(w, items, recent)
             v == [w EXCEPT !.pc = "protect", !.todo = recent, !.opened = TRUE,
                            !.shown = shown, !.boundary = end]
  <2>1. Becomes(p, v)
    BY <1>6 DEF ReadPage
  <2> HIDE DEF items, recent, shown, end
  <2>2. /\ v.run = w.run /\ v.counts = w.counts /\ v.got = w.got
        /\ v.pc = "protect"
    BY <1>1 DEF Worker
  <2> HIDE DEF v
  <2> QED  BY <1>3, <2>1, <2>2
<1>7. CASE NextPage(p)
  <2> DEFINE n == PageAfter(w.page)
             v == [w EXCEPT !.pc = "read", !.page = n]
  <2>1. Becomes(p, v)
    BY <1>7 DEF NextPage
  <2> HIDE DEF n
  <2>2. /\ v.run = w.run /\ v.counts = w.counts /\ v.got = w.got
        /\ v.pc = "read"
    BY <1>1 DEF Worker
  <2> HIDE DEF v
  <2> QED  BY <1>3, <2>1, <2>2
<1>8. CASE ClosePage(p) \/ FallBack(p)
  <2>1. PICK v \in {[w EXCEPT !.pc = "closed"],
                    [w EXCEPT !.mode = "BACKFILL_FALLBACK"]} : Becomes(p, v)
    BY <1>8 DEF ClosePage, FallBack
  <2>2. /\ v.run = w.run /\ v.counts = w.counts /\ v.got = w.got
        /\ v.pc \in {"closed", w.pc}
    BY <1>1, <2>1 DEF Worker
  <2> QED  BY <1>2, <1>3, <2>1, <2>2
<1>9. CASE CompleteStore(p)
  <2> DEFINE v == [w EXCEPT !.pc = "settle", !.outcome = "done"]
  <2>1. /\ Becomes(p, v) /\ v.run = w.run /\ v.counts = w.counts
        /\ v.got = w.got /\ v.pc = "settle"
    BY <1>1, <1>9 DEF CompleteStore, Worker
  <2> HIDE DEF v
  <2> QED  BY <1>3, <2>1
<1>10. ASSUME NEW d \in Day, RejectReview(p, d)
       PROVE  CollectedHasRows' /\ CoverOK'
  <2> DEFINE v == [w EXCEPT !.todo = @ \ {d}]
  <2>1. /\ Becomes(p, v) /\ v.run = w.run /\ v.counts = w.counts
        /\ v.got = w.got /\ v.pc = w.pc
    BY <1>1, <1>10 DEF RejectReview, Worker
  <2> HIDE DEF v
  <2> QED  BY <1>2, <1>3, <2>1
<1> QED  BY <1>5, <1>6, <1>7, <1>8, <1>9, <1>10

LEMMA AbsorbCount ==
  ASSUME CountInv, NEW p \in Proc, NEW d \in Day,
         DuplicateReview(p, d) \/ MarkSeen(p, d)
  PROVE  CollectedHasRows' /\ CoverOK'
<1>1. worker[p] \in Worker
  BY WorkerTyped DEF CountInv
<1>2. PICK b \in BOOLEAN : /\ Becomes(p, Absorb(worker[p], d, b))
                           /\ worker[p].pc \in {"protect", "sealed"}
                           /\ UNCHANGED <<run, raw>>
  BY DEF DuplicateReview, MarkSeen, Protecting, reviews
<1> DEFINE v == Absorb(worker[p], d, b)
<1>3. /\ v.run = worker[p].run /\ v.counts = worker[p].counts
      /\ v.got = worker[p].got /\ v.pc = "protect"
  BY <1>1, AbsorbTyped
<1> HIDE DEF v
<1>4. Becomes(p, v)
  BY <1>2 DEF v
<1> QED  BY <1>2, <1>3, <1>4, KeepsCounters, PlainStep

\* The only step that adds a row counts it, and takes none from another run.
LEMMA EncryptCount ==
  ASSUME CollectionAssumption, CountInv, NEW p \in Proc, NEW d \in Day,
         EncryptReview(p, d)
  PROVE  CollectedHasRows' /\ CoverOK'
<1> DEFINE w == worker[p]
           inserted == NotStored(w.store, d)
           r == IF inserted THEN w.run ELSE raw[w.store][d]
           got == IF inserted THEN w.got + 1 ELSE w.got
           v == [w EXCEPT !.pc = "sealed", !.got = got]
<1>1. /\ w \in Worker /\ WorkerOK(w) /\ Covered(w, raw)
      /\ w.got \in Nat /\ w.counts.collected \in Nat
  BY WorkerTyped, CountersTyped DEF CountInv, CoverOK
<1>2. /\ Becomes(p, v) /\ w.pc = "protect" /\ UNCHANGED run
      /\ raw' = [raw EXCEPT ![w.store][d] = r]
  BY DEF EncryptReview, Protecting
<1>3. w.run \in Run /\ w.run # NoRun /\ w.store \in Store
  BY <1>1, <1>2 DEF WorkerOK, CollectionAssumption
<1>4. raw \in [Store -> [Day -> Run \cup {NoRun}]] /\ worker \in [Proc -> Worker]
  BY DEF CountInv, TypeInv, TypeOK
<1>5. \A s \in Store, e \in Day :
        raw'[s][e] = IF s = w.store /\ e = d THEN r ELSE raw[s][e]
  BY <1>2, <1>3, <1>4
<1>6. \A q \in Run : Cardinality(RowsIn(raw, q)) <= Cardinality(RowsIn(raw', q))
  <2> SUFFICES ASSUME NEW q \in Run
               PROVE  Cardinality(RowsIn(raw, q)) <= Cardinality(RowsIn(raw', q))
    OBVIOUS
  <2>1. \A s \in Store, e \in Day : raw[s][e] = q => raw'[s][e] = q
    BY <1>5, CollectionAssumption DEF NotStored, CollectionAssumption
  <2> QED  BY <2>1, RowsGrow
<1>7. inserted => Cardinality(RowsIn(raw', w.run))
                    = Cardinality(RowsIn(raw, w.run)) + 1
  <2> SUFFICES ASSUME inserted
               PROVE  Cardinality(RowsIn(raw', w.run))
                        = Cardinality(RowsIn(raw, w.run)) + 1
    OBVIOUS
  <2>1. r = w.run /\ raw[w.store][d] # w.run
    BY <1>3 DEF NotStored
  <2>2. <<w.store, d>> \notin RowsIn(raw, w.run)
    BY <2>1 DEF RowsIn
  <2>3. RowsIn(raw', w.run) = RowsIn(raw, w.run) \cup {<<w.store, d>>}
    BY <1>3, <1>5, <2>1 DEF RowsIn
  <2> QED  BY <2>2, <2>3, RowsFinite, FS_AddElement
<1>8. got = IF inserted THEN w.got + 1 ELSE w.got
  OBVIOUS
<1> HIDE DEF inserted, got, r
<1>9. v.run = w.run /\ v.counts = w.counts /\ v.got = got /\ v.pc = "sealed"
  BY <1>1 DEF Worker
<1> HIDE DEF v
<1>10. Covered(v, raw')
  <2>1. w.counts.collected + w.got <= Cardinality(RowsIn(raw, w.run))
    BY <1>1, <1>2 DEF Covered
  <2>2. /\ Cardinality(RowsIn(raw, w.run)) \in Nat
        /\ Cardinality(RowsIn(raw', w.run)) \in Nat
    BY RowsFinite
  <2>3. w.counts.collected + got <= Cardinality(RowsIn(raw', w.run))
    BY <1>1, <1>3, <1>6, <1>7, <1>8, <2>1, <2>2
  <2> QED  BY <1>9, <2>3 DEF Covered
<1>11. worker'[p] = v /\ \A q \in Proc \ {p} : worker'[q] = worker[q]
  BY <1>2, <1>4 DEF Becomes
<1>12. CoverOK'
  <2> SUFFICES ASSUME NEW q \in Proc, q # p PROVE Covered(worker[q], raw')
    BY <1>10, <1>11 DEF CoverOK
  <2>1. /\ Covered(worker[q], raw) /\ WorkerOK(worker[q])
        /\ worker[q].got \in Nat /\ worker[q].counts.collected \in Nat
    BY WorkerTyped, CountersTyped DEF CountInv, CoverOK
  <2>2. CASE worker[q].pc = "idle"
    BY <2>2 DEF Covered
  <2>3. CASE worker[q].pc # "idle"
    <3>1. worker[q].run \in Run
      BY <2>1, <2>3 DEF WorkerOK
    <3>2. Cardinality(RowsIn(raw, worker[q].run))
            <= Cardinality(RowsIn(raw', worker[q].run))
      BY <1>6, <3>1
    <3>3. /\ Cardinality(RowsIn(raw, worker[q].run)) \in Nat
          /\ Cardinality(RowsIn(raw', worker[q].run)) \in Nat
      BY RowsFinite
    <3> QED  BY <2>1, <2>3, <3>2, <3>3 DEF Covered
  <2> QED  BY <2>2, <2>3
<1>13. CollectedHasRows'
  <2> SUFFICES ASSUME NEW q \in Run
               PROVE  run[q].counts.collected <= Cardinality(RowsIn(raw', q))
    BY <1>2 DEF CollectedHasRows, RowsOf, RowsIn
  <2>1. run[q].counts.collected <= Cardinality(RowsIn(raw, q))
    BY DEF CountInv, CollectedHasRows, RowsOf, RowsIn
  <2>2. run[q].counts.collected \in Nat
    BY DEF CountInv, TypeInv, TypeOK, RunRow, Counts
  <2> QED  BY <1>6, <2>1, <2>2, RowsFinite
<1> QED  BY <1>12, <1>13

LEMMA NextCount ==
  ASSUME CollectionAssumption, CountInv, [Next]_vars
  PROVE  CountInv'
<1> DEFINE Good == CollectedHasRows' /\ CoverOK'
<1>1. TypeInv'
  BY NextTyped DEF CountInv
<1>2. CASE UNCHANGED vars \/ Provider
  <2>1. UNCHANGED <<run, raw, worker>>
    BY <1>2 DEF vars, Provider, Post, Hide, Reveal, reviews
  <2> QED
    BY <1>1, <2>1 DEF CountInv, CollectedHasRows, RowsOf, CoverOK
<1>3. ASSUME NEW p \in Proc, Operator(p) \/ Crash(p) PROVE Good
  BY <1>3, OperatorCount, BatchCount DEF Operator
<1>4. ASSUME NEW p \in Proc, Work(p) PROVE Good
  <2>1. CASE \/ \E s \in Store : \/ WritePending(p, s) \/ SkipStore(p, s)
                                 \/ PauseBefore(p, s) \/ BeginStore(p, s)
             \/ EnterLoop(p) \/ SettleStore(p)
    BY <2>1, BatchCount
  <2>2. CASE \/ ReadPage(p) \/ StopProvider(p) \/ ReadFails(p)
             \/ ReviewFails(p) \/ PauseStore(p) \/ NextPage(p)
             \/ ClosePage(p) \/ FallBack(p) \/ CompleteStore(p)
             \/ \E d \in Day : RejectReview(p, d)
    BY <2>2, StoreCount
  <2>3. CASE \E d \in Day : \/ DuplicateReview(p, d) \/ EncryptReview(p, d)
                            \/ MarkSeen(p, d)
    BY <2>3, AbsorbCount, EncryptCount
  <2>4. CASE SkipCompleteStore(p) \/ OpenStore(p)
    BY <2>4, OpenCount
  <2>5. CASE AccountStore(p) \/ FinishRun(p)
    BY <2>5, ReportCount
  <2> QED  BY <1>4, <2>1, <2>2, <2>3, <2>4, <2>5 DEF Work
<1> QED
  BY <1>1, <1>2, <1>3, <1>4 DEF Next, CountInv

THEOREM CountInvHolds == Spec => []CountInv
<1>1. Init => CountInv
  BY InitCount, CollectionAssumption
<1>2. CountInv /\ [Next]_vars => CountInv'
  BY NextCount, CollectionAssumption
<1> QED
  BY <1>1, <1>2, PTL DEF Spec

\* However often a run is paused, crashed, resumed or worked on by two
\* processes, it never reports more collected reviews than it has rows.
THEOREM CollectedAlwaysHasRows == Spec => []CollectedHasRows
BY CountInvHolds, PTL DEF CountInv

-----------------------------------------------------------------------------
(* Stores *)

\* Two processes of the command never work on one run: nothing in the code
\* forbids it, the operator who starts them does.
OneWorkerPerRun ==
  \A p, q \in Proc :
    p # q /\ worker[p].pc # "idle" /\ worker[q].pc # "idle"
      => worker[p].run # worker[q].run

\* The targets of a run, as they were when it began: a discovery run keeps all
\* its places or none.
TargetsOf(r, row) == IF row.stores = 0 THEN {} ELSE Matched[DiscoveryOf[r]]

Complete(ck) == {s \in Store : ck[s].state \in Done}

\* The row of run r counts its targets, no other store is ever completed, and
\* a run that succeeded has completed them all.
RunTargets(r, row, ck) ==
  /\ row.stores = Cardinality(TargetsOf(r, row))
  /\ Complete(ck) \subseteq TargetsOf(r, row)
  /\ row.status = "NONE" => row.stores = 0
  /\ row.status = "SUCCEEDED" => TargetsOf(r, row) \subseteq Complete(ck)

AtStore == {"open", "read", "protect", "sealed", "closed"}

\* The store a process has in its hands.
Current(w) == IF w.pc \in AtStore \cup {"settle"} THEN {w.store} ELSE {}

\* What a process at work knows of its run: unless a store failed, every
\* target it has left behind is complete; the store in its hands is not, until
\* collectStoreReviews says so.
WorkerTargets(w, row, ck) ==
  LET targets == TargetsOf(w.run, row) IN
  /\ row.status \notin {"NONE", "SUCCEEDED"}
  /\ w.left \cup w.pend \cup Current(w) \subseteq targets
  /\ w.pc = "pending" => w.left = targets /\ w.pend \cap Complete(ck) = {}
  /\ w.pc \in AtStore => w.store \notin Complete(ck)
  /\ w.pc = "settle" => (w.outcome = "done" <=> w.store \in Complete(ck))
  /\ w.pc # "account" => (w.final = "SUCCEEDED" <=> w.pc # "finish")
  /\ w.final = "SUCCEEDED" /\ w.counts.failed = 0
       => targets \ (w.left \cup Current(w)) \subseteq Complete(ck)

LocatorsKept == \A d \in Discovery : locators[d] \in {Matched[d], {}}

RunsOK == \A r \in Run : RunTargets(r, run[r], storeCheckpoint[r])

WorkersAimed ==
  \A p \in Proc : worker[p].pc # "idle" =>
    WorkerTargets(worker[p], run[worker[p].run],
                  storeCheckpoint[worker[p].run])

TargetInv == TypeInv /\ LocatorsKept /\ RunsOK /\ WorkersAimed

\* What every step does: it keeps the invariant, and what is complete.
TargetStep ==
  /\ TargetInv'
  /\ \A r \in Run : Complete(storeCheckpoint[r])
                      \subseteq Complete(storeCheckpoint'[r])

LEMMA InitTargets ==
  ASSUME CollectionAssumption, Init
  PROVE  TargetInv
<1>1. TypeInv
  BY InitTyped
<1>2. LocatorsKept
  BY DEF CollectionAssumption, Init, LocatorsKept
<1>3. WorkersAimed
  BY IdleTyped DEF Init, WorkersAimed
<1>4. ASSUME NEW r \in Run PROVE RunTargets(r, run[r], storeCheckpoint[r])
  <2>1. run[r].stores = 0 /\ run[r].status = "NONE"
    BY DEF Init
  <2>2. Complete(storeCheckpoint[r]) = {}
    BY DEF Init, Complete, Done
  <2>3. TargetsOf(r, run[r]) = {} /\ Cardinality({}) = 0
    BY <2>1, FS_EmptySet DEF TargetsOf
  <2> QED  BY <2>1, <2>2, <2>3 DEF RunTargets
<1> QED  BY <1>1, <1>2, <1>3, <1>4 DEF TargetInv, RunsOK

\* A step of process p that writes rows of run r only.
LEMMA TargetFrame ==
  ASSUME TargetInv, TypeInv', LocatorsKept',
         NEW p \in Proc, NEW v, Becomes(p, v), NEW r \in Run,
         \A q \in Run \ {r} : /\ run'[q] = run[q]
                              /\ storeCheckpoint'[q] = storeCheckpoint[q],
         RunTargets(r, run'[r], storeCheckpoint'[r]),
         Complete(storeCheckpoint[r]) \subseteq Complete(storeCheckpoint'[r]),
         \A q \in Proc \ {p} : worker[q].pc # "idle" /\ worker[q].run = r =>
           WorkerTargets(worker[q], run'[r], storeCheckpoint'[r]),
         v.pc # "idle" =>
           v.run = r /\ WorkerTargets(v, run'[r], storeCheckpoint'[r])
  PROVE  TargetStep
<1>1. worker'[p] = v /\ \A q \in Proc \ {p} : worker'[q] = worker[q]
  BY DEF TargetInv, TypeInv, TypeOK, Becomes
<1>2. RunsOK'
  BY DEF TargetInv, RunsOK
<1>3. ASSUME NEW q \in Proc, worker'[q].pc # "idle"
      PROVE  WorkerTargets(worker'[q], run'[worker'[q].run],
                           storeCheckpoint'[worker'[q].run])
  <2>1. CASE q = p
    BY <1>1, <1>3, <2>1
  <2>2. CASE q # p
    <3>1. worker'[q] = worker[q] /\ worker[q].run \in Run
      BY <1>1, <1>3, <2>2, WorkerTyped DEF TargetInv, WorkerOK
    <3>2. WorkerTargets(worker[q], run[worker[q].run],
                        storeCheckpoint[worker[q].run])
      BY <1>3, <3>1 DEF TargetInv, WorkersAimed
    <3> QED  BY <1>3, <2>2, <3>1, <3>2
  <2> QED  BY <2>1, <2>2
<1>4. WorkersAimed'
  BY <1>3 DEF WorkersAimed
<1>5. \A q \in Run : Complete(storeCheckpoint[q])
                       \subseteq Complete(storeCheckpoint'[q])
  OBVIOUS
<1> QED
  BY <1>2, <1>4, <1>5 DEF TargetStep, TargetInv

\* The targets and rows a process at work knows.
LEMMA AtWork ==
  ASSUME TargetInv, NEW p \in Proc, worker[p].pc # "idle"
  PROVE  /\ worker[p] \in Worker /\ WorkerOK(worker[p])
         /\ worker[p].run \in Run
         /\ run[worker[p].run] \in RunRow
         /\ WorkerTargets(worker[p], run[worker[p].run],
                          storeCheckpoint[worker[p].run])
         /\ RunTargets(worker[p].run, run[worker[p].run],
                       storeCheckpoint[worker[p].run])
<1>1. worker[p] \in Worker /\ WorkerOK(worker[p]) /\ worker[p].run \in Run
  BY WorkerTyped DEF TargetInv, WorkerOK
<1> QED
  BY <1>1 DEF TargetInv, TypeInv, TypeOK, RunsOK, WorkersAimed

\* A step that writes no run, no page-0 row and no locator.
LEMMA QuietStep ==
  ASSUME TargetInv, TypeInv', NEW p \in Proc, worker[p].pc # "idle",
         NEW v, Becomes(p, v), UNCHANGED <<run, storeCheckpoint, locators>>,
         v.pc # "idle" =>
           /\ v.run = worker[p].run
           /\ WorkerTargets(v, run[worker[p].run],
                            storeCheckpoint[worker[p].run])
  PROVE  TargetStep
<1>1. LocatorsKept'
  BY DEF TargetInv, LocatorsKept
<1>2. \A q \in Proc \ {p} :
        worker[q].pc # "idle" /\ worker[q].run = worker[p].run =>
          WorkerTargets(worker[q], run'[worker[p].run],
                        storeCheckpoint'[worker[p].run])
  BY DEF TargetInv, WorkersAimed
<1> QED  BY <1>1, <1>2, AtWork, TargetFrame

\* Inside a store, and on leaving it unfinished, the targets stay as they are.
LEMMA SameTargets ==
  ASSUME NEW w, NEW v, NEW row, NEW ck, WorkerTargets(w, row, ck),
         w.pc \in AtStore, v.run = w.run, v.left = w.left, v.pend = w.pend,
         v.store = w.store, v.final = w.final, v.counts = w.counts,
         \/ v.pc \in AtStore
         \/ v.pc = "settle" /\ v.outcome # "done"
  PROVE  WorkerTargets(v, row, ck)
<1>1. Current(v) = Current(w)
  BY DEF Current
<1>2. v.pc \notin {"account", "finish", "pending"}
  BY DEF AtStore
<1>3. w.pc \notin {"account", "finish", "pending", "settle"}
  BY DEF AtStore
<1>4. w.store \notin Complete(ck)
  BY DEF WorkerTargets
<1>5. v.pc \in AtStore => v.pc # "settle"
  BY DEF AtStore
<1> QED
  BY <1>1, <1>2, <1>3, <1>4, <1>5 DEF WorkerTargets

LEMMA InStoreStep ==
  ASSUME TargetInv, TypeInv', NEW p \in Proc, worker[p].pc \in AtStore,
         NEW v, Becomes(p, v), UNCHANGED <<run, storeCheckpoint, locators>>,
         v.run = worker[p].run, v.left = worker[p].left,
         v.pend = worker[p].pend, v.store = worker[p].store,
         v.final = worker[p].final, v.counts = worker[p].counts,
         \/ v.pc \in AtStore
         \/ v.pc = "settle" /\ v.outcome # "done"
  PROVE  TargetStep
<1>1. worker[p].pc # "idle"
  BY DEF AtStore
<1>2. WorkerTargets(worker[p], run[worker[p].run],
                    storeCheckpoint[worker[p].run])
  BY <1>1, AtWork
<1>3. WorkerTargets(v, run[worker[p].run], storeCheckpoint[worker[p].run])
  BY <1>2, SameTargets
<1> QED  BY <1>1, <1>3, QuietStep

LEMMA LeaveTargets ==
  ASSUME TargetInv, TypeInv', NEW p \in Proc, worker[p].pc \in AtStore,
         NEW o, o # "done", Leave(p, o)
  PROVE  TargetStep
<1> DEFINE w == worker[p]
           v == [w EXCEPT !.pc = "settle", !.outcome = o]
<1>1. w \in Worker
  BY WorkerTyped DEF TargetInv
<1>2. Becomes(p, v) /\ UNCHANGED <<run, storeCheckpoint, locators>>
  BY DEF Leave, database
<1>3. /\ v.run = w.run /\ v.left = w.left /\ v.pend = w.pend
      /\ v.store = w.store /\ v.final = w.final /\ v.counts = w.counts
      /\ v.pc = "settle" /\ v.outcome = o
  BY <1>1 DEF Worker
<1> HIDE DEF v
<1> QED  BY <1>2, <1>3, InStoreStep

LEMMA LeavingTargets ==
  ASSUME TargetInv, TypeInv', NEW p \in Proc,
         \/ StopProvider(p) \/ ReadFails(p)
         \/ ReviewFails(p) \/ PauseStore(p)
  PROVE  TargetStep
<1>1. CASE StopProvider(p)
  <2>1. PICK o \in {"access", "dom"} : Leave(p, o) /\ worker[p].pc = "read"
    BY <1>1 DEF StopProvider
  <2> QED  BY <2>1, LeaveTargets DEF AtStore
<1>2. CASE ReadFails(p)
  BY <1>2, LeaveTargets DEF ReadFails, AtStore
<1>3. CASE ReviewFails(p)
  <2>1. PICK o \in {"failed", "fatal"} :
          Leave(p, o) /\ worker[p].pc \in {"protect", "sealed"}
    BY <1>3 DEF ReviewFails, Protecting
  <2> QED  BY <2>1, LeaveTargets DEF AtStore
<1>4. CASE PauseStore(p)
  BY <1>4, LeaveTargets DEF PauseStore, AtStore
<1> QED  BY <1>1, <1>2, <1>3, <1>4

LEMMA AbsorbTargets ==
  ASSUME TargetInv, TypeInv', NEW p \in Proc, worker[p].pc \in AtStore,
         NEW d \in Day, NEW b \in BOOLEAN,
         Becomes(p, Absorb(worker[p], d, b)),
         UNCHANGED <<run, storeCheckpoint, locators>>
  PROVE  TargetStep
<1> DEFINE w == worker[p]
           m == IF HoleFound(w, d, b) THEN "BACKFILL_FALLBACK" ELSE w.mode
           a == IF w.anchor = NoReview THEN d ELSE w.anchor
           as == w.anchorSeen \/ (w.mode = "INCREMENTAL" /\ d = w.previous)
           v == [w EXCEPT !.pc = "protect", !.todo = @ \ {d}, !.anchor = a,
                          !.anchorSeen = as, !.mode = m]
<1>1. w \in Worker
  BY WorkerTyped DEF TargetInv
<1>2. Becomes(p, v)
  BY DEF Absorb
<1> HIDE DEF m, a, as
<1>3. /\ v.run = w.run /\ v.left = w.left /\ v.pend = w.pend
      /\ v.store = w.store /\ v.final = w.final /\ v.counts = w.counts
      /\ v.pc = "protect"
  BY <1>1 DEF Worker
<1> HIDE DEF v
<1> QED  BY <1>2, <1>3, InStoreStep DEF AtStore

LEMMA ReviewTargets ==
  ASSUME TargetInv, TypeInv', NEW p \in Proc, NEW d \in Day,
         \/ RejectReview(p, d) \/ DuplicateReview(p, d)
         \/ EncryptReview(p, d) \/ MarkSeen(p, d)
  PROVE  TargetStep
<1> DEFINE w == worker[p]
<1>1. w \in Worker
  BY WorkerTyped DEF TargetInv
<1>2. CASE RejectReview(p, d)
  <2> DEFINE v == [w EXCEPT !.todo = @ \ {d}]
  <2>1. /\ Becomes(p, v) /\ w.pc = "protect"
        /\ UNCHANGED <<run, storeCheckpoint, locators>>
    BY <1>2 DEF RejectReview, Protecting, database
  <2>2. /\ v.run = w.run /\ v.left = w.left /\ v.pend = w.pend
        /\ v.store = w.store /\ v.final = w.final /\ v.counts = w.counts
        /\ v.pc = w.pc
    BY <1>1 DEF Worker
  <2> HIDE DEF v
  <2> QED  BY <2>1, <2>2, InStoreStep DEF AtStore
<1>3. CASE DuplicateReview(p, d) \/ MarkSeen(p, d)
  BY <1>3, AbsorbTargets
     DEF DuplicateReview, MarkSeen, Protecting, AtStore
<1>4. CASE EncryptReview(p, d)
  <2> DEFINE n == IF NotStored(w.store, d) THEN w.got + 1 ELSE w.got
             v == [w EXCEPT !.pc = "sealed", !.got = n]
  <2>1. /\ Becomes(p, v) /\ w.pc = "protect"
        /\ UNCHANGED <<run, storeCheckpoint, locators>>
    BY <1>4 DEF EncryptReview, Protecting, progress
  <2> HIDE DEF n
  <2>2. /\ v.run = w.run /\ v.left = w.left /\ v.pend = w.pend
        /\ v.store = w.store /\ v.final = w.final /\ v.counts = w.counts
        /\ v.pc = "sealed"
    BY <1>1 DEF Worker
  <2> HIDE DEF v
  <2> QED  BY <2>1, <2>2, InStoreStep DEF AtStore
<1> QED  BY <1>2, <1>3, <1>4

LEMMA PageTargets ==
  ASSUME TargetInv, TypeInv', NEW p \in Proc,
         \/ OpenStore(p) \/ ReadPage(p) \/ ClosePage(p) \/ FallBack(p)
         \/ NextPage(p)
  PROVE  TargetStep
<1> DEFINE w == worker[p]
           same(v) == /\ v.run = w.run /\ v.left = w.left /\ v.pend = w.pend
                      /\ v.store = w.store /\ v.final = w.final
                      /\ v.counts = w.counts
<1>1. w \in Worker
  BY WorkerTyped DEF TargetInv
<1>2. w.pc \in AtStore /\ UNCHANGED <<run, storeCheckpoint, locators>>
  BY DEF OpenStore, ReadPage, ClosePage, FallBack, NextPage, AtStore, database
<1>3. PICK v : Becomes(p, v) /\ same(v) /\ v.pc \in AtStore
  <2>1. CASE OpenStore(p)
    <3>1. PICK l, c :
            Becomes(p, [w EXCEPT !.pc = "read",
                          !.previous = sync[w.store].anchor,
                          !.page = ResumePage(l),
                          !.mode = IF c.mode = "none"
                                   THEN InitialMode(sync[w.store].anchor)
                                   ELSE c.mode,
                          !.anchorSeen = c.anchorSeen, !.anchor = c.anchor,
                          !.got = 0, !.opened = FALSE, !.shown = {},
                          !.outcome = "none"])
      BY <2>1 DEF OpenStore
    <3> DEFINE a == sync[w.store].anchor
               n == ResumePage(l)
               m == IF c.mode = "none" THEN InitialMode(a) ELSE c.mode
               as == c.anchorSeen
               ca == c.anchor
               v == [w EXCEPT !.pc = "read", !.previous = a, !.page = n,
                              !.mode = m, !.anchorSeen = as, !.anchor = ca,
                              !.got = 0, !.opened = FALSE, !.shown = {},
                              !.outcome = "none"]
    <3>2. Becomes(p, v)
      BY <3>1
    <3> HIDE DEF a, n, m, as, ca
    <3>3. same(v) /\ v.pc = "read"
      BY <1>1 DEF Worker
    <3> HIDE DEF v
    <3> QED  BY <3>2, <3>3 DEF AtStore
  <2>2. CASE ReadPage(p)
    <3> DEFINE items == PageOf(w.store, w.page)
               recent == {d \in items : d >= run[w.run].asOf - Window}
               shown == IF recent = {} THEN w.shown ELSE recent
               end == BoundaryOf(w, items, recent)
               v == [w EXCEPT !.pc = "protect", !.todo = recent,
                              !.opened = TRUE, !.shown = shown,
                              !.boundary = end]
    <3>1. Becomes(p, v)
      BY <2>2 DEF ReadPage
    <3> HIDE DEF recent, shown, end
    <3>2. same(v) /\ v.pc = "protect"
      BY <1>1 DEF Worker
    <3> HIDE DEF v
    <3> QED  BY <3>1, <3>2 DEF AtStore
  <2>3. CASE ClosePage(p)
    <3> DEFINE v == [w EXCEPT !.pc = "closed"]
    <3>1. Becomes(p, v)
      BY <2>3 DEF ClosePage
    <3>2. same(v) /\ v.pc = "closed"
      BY <1>1 DEF Worker
    <3> HIDE DEF v
    <3> QED  BY <3>1, <3>2 DEF AtStore
  <2>4. CASE FallBack(p)
    <3> DEFINE v == [w EXCEPT !.mode = "BACKFILL_FALLBACK"]
    <3>1. Becomes(p, v)
      BY <2>4 DEF FallBack
    <3>2. same(v) /\ v.pc = w.pc
      BY <1>1 DEF Worker
    <3> HIDE DEF v
    <3> QED  BY <1>2, <3>1, <3>2
  <2>5. CASE NextPage(p)
    <3> DEFINE n == PageAfter(w.page)
               v == [w EXCEPT !.pc = "read", !.page = n]
    <3>1. Becomes(p, v)
      BY <2>5 DEF NextPage
    <3> HIDE DEF n
    <3>2. same(v) /\ v.pc = "read"
      BY <1>1 DEF Worker
    <3> HIDE DEF v
    <3> QED  BY <3>1, <3>2 DEF AtStore
  <2> QED  BY <2>1, <2>2, <2>3, <2>4, <2>5
<1> QED  BY <1>2, <1>3, InStoreStep

\* One page-0 row is written: what is complete after it.
LEMMA RowWritten ==
  ASSUME TypeInv, NEW r \in Run, NEW s \in Store, NEW c,
         storeCheckpoint' = [storeCheckpoint EXCEPT ![r][s] = c]
  PROVE  /\ c.state \in Done =>
              Complete(storeCheckpoint'[r])
                = Complete(storeCheckpoint[r]) \cup {s}
         /\ c.state \notin Done /\ s \notin Complete(storeCheckpoint[r]) =>
              Complete(storeCheckpoint'[r]) = Complete(storeCheckpoint[r])
         /\ \A q \in Run \ {r} : storeCheckpoint'[q] = storeCheckpoint[q]
<1>1. storeCheckpoint \in [Run -> [Store -> StoreCheckpoint]]
  BY DEF TypeInv, TypeOK
<1>2. storeCheckpoint'[r] = [storeCheckpoint[r] EXCEPT ![s] = c]
  BY <1>1
<1>3. \A t \in Store : storeCheckpoint'[r][t]
                         = IF t = s THEN c ELSE storeCheckpoint[r][t]
  BY <1>1, <1>2
<1> QED  BY <1>1, <1>3 DEF Complete

\* A step that writes the row of one target, and does not undo it.
LEMMA RowStep ==
  ASSUME TargetInv, OneWorkerPerRun, TypeInv',
         NEW p \in Proc, worker[p].pc # "idle",
         NEW s \in TargetsOf(worker[p].run, run[worker[p].run]),
         s \in Store, NEW c,
         storeCheckpoint' =
           [storeCheckpoint EXCEPT ![worker[p].run][s] = c],
         s \in Complete(storeCheckpoint[worker[p].run]) => c.state \in Done,
         UNCHANGED <<run, locators>>,
         NEW v, Becomes(p, v), v.run = worker[p].run,
         WorkerTargets(v, run[worker[p].run],
                       storeCheckpoint'[worker[p].run])
  PROVE  TargetStep
<1> DEFINE r == worker[p].run
<1>1. /\ r \in Run
      /\ RunTargets(r, run[r], storeCheckpoint[r])
      /\ WorkerTargets(worker[p], run[r], storeCheckpoint[r])
  BY AtWork
<1>2. /\ Complete(storeCheckpoint[r]) \subseteq Complete(storeCheckpoint'[r])
      /\ Complete(storeCheckpoint'[r])
           \subseteq Complete(storeCheckpoint[r]) \cup {s}
      /\ \A q \in Run \ {r} : storeCheckpoint'[q] = storeCheckpoint[q]
  BY <1>1, RowWritten DEF TargetInv
<1>3. RunTargets(r, run'[r], storeCheckpoint'[r])
  BY <1>1, <1>2 DEF RunTargets
<1>4. \A q \in Proc \ {p} : ~(worker[q].pc # "idle" /\ worker[q].run = r)
  BY DEF OneWorkerPerRun
<1>5. LocatorsKept'
  BY DEF TargetInv, LocatorsKept
<1> QED  BY <1>1, <1>2, <1>3, <1>4, <1>5, TargetFrame

LEMMA PendingTargets ==
  ASSUME TargetInv, OneWorkerPerRun, TypeInv', NEW p \in Proc,
         NEW s \in Store, WritePending(p, s)
  PROVE  TargetStep
<1> DEFINE w == worker[p]
           r == w.run
           c == [state |-> "PENDING",
                 mode |-> IF s \in w.ready THEN "INCREMENTAL"
                                           ELSE "INITIAL_BACKFILL"]
           v == [w EXCEPT !.pend = @ \ {s}]
<1>1. /\ Becomes(p, v) /\ w.pc = "pending" /\ s \in w.pend
      /\ storeCheckpoint' = [storeCheckpoint EXCEPT ![r][s] = c]
      /\ UNCHANGED <<run, locators>>
  BY DEF WritePending, Least
<1>2. w \in Worker /\ r \in Run /\ WorkerTargets(w, run[r], storeCheckpoint[r])
  BY <1>1, AtWork
<1>3. c.state \notin Done
  BY DEF Done
<1>4. /\ v.pc = "pending" /\ v.run = r /\ v.left = w.left
      /\ v.pend = w.pend \ {s} /\ v.store = w.store /\ v.final = w.final
      /\ v.counts = w.counts
  BY <1>1, <1>2 DEF Worker
<1> HIDE DEF v, c
<1>5. s \in TargetsOf(r, run[r]) /\ s \notin Complete(storeCheckpoint[r])
  BY <1>1, <1>2 DEF WorkerTargets
<1>6. Complete(storeCheckpoint'[r]) = Complete(storeCheckpoint[r])
  BY <1>1, <1>2, <1>3, <1>5, RowWritten DEF TargetInv
<1>7. Current(v) = {} /\ Current(w) = {} /\ "pending" \notin AtStore
  BY <1>1, <1>4 DEF Current, AtStore
<1>8. WorkerTargets(v, run[r], storeCheckpoint'[r])
  BY <1>1, <1>2, <1>4, <1>6, <1>7 DEF WorkerTargets
<1> QED  BY <1>1, <1>4, <1>5, <1>8, RowStep

LEMMA BeginTargets ==
  ASSUME TargetInv, OneWorkerPerRun, TypeInv', NEW p \in Proc,
         NEW s \in Store, BeginStore(p, s)
  PROVE  TargetStep
<1> DEFINE w == worker[p]
           r == w.run
           m == TargetMode(RowOf(p, s))
           c == [state |-> "RUNNING", mode |-> m]
           v == [w EXCEPT !.pc = "open", !.store = s, !.target = m,
                          !.left = w.left \ {s}]
<1>1. /\ Becomes(p, v) /\ w.pc = "loop" /\ s \in w.left
      /\ storeCheckpoint[r][s].state \notin Done
      /\ storeCheckpoint' = [storeCheckpoint EXCEPT ![r][s] = c]
      /\ UNCHANGED <<run, locators>>
  BY DEF BeginStore, ToCollect, AtTarget, Least, RowOf
<1>2. w \in Worker /\ r \in Run /\ WorkerTargets(w, run[r], storeCheckpoint[r])
  BY <1>1, AtWork
<1>3. c.state \notin Done
  BY DEF Done
<1> HIDE DEF m
<1>4. /\ v.pc = "open" /\ v.run = r /\ v.left = w.left \ {s}
      /\ v.pend = w.pend /\ v.store = s /\ v.final = w.final
      /\ v.counts = w.counts
  BY <1>2 DEF Worker
<1> HIDE DEF v, c
<1>5. s \in TargetsOf(r, run[r]) /\ s \notin Complete(storeCheckpoint[r])
  BY <1>1, <1>2 DEF WorkerTargets, Complete
<1>6. Complete(storeCheckpoint'[r]) = Complete(storeCheckpoint[r])
  BY <1>1, <1>2, <1>3, <1>5, RowWritten DEF TargetInv
<1>7. Current(v) = {s} /\ Current(w) = {}
  BY <1>1, <1>4 DEF Current, AtStore
<1>8. WorkerTargets(v, run[r], storeCheckpoint'[r])
  <2> DEFINE T == TargetsOf(r, run[r])
             D == Complete(storeCheckpoint[r])
  <2>1. /\ run[r].status \notin {"NONE", "SUCCEEDED"}
        /\ w.left \cup w.pend \subseteq T
        /\ w.final = "SUCCEEDED"
        /\ w.counts.failed = 0 => T \ w.left \subseteq D
    BY <1>1, <1>2, <1>7 DEF WorkerTargets
  <2>2. v.left \cup v.pend \cup Current(v) \subseteq T
    BY <1>4, <1>5, <1>7, <2>1
  <2>3. v.counts.failed = 0 => T \ (v.left \cup Current(v)) \subseteq D
    BY <1>4, <1>7, <2>1
  <2> HIDE DEF T, D
  <2>4. T = TargetsOf(v.run, run[r]) /\ D = Complete(storeCheckpoint'[r])
    BY <1>4, <1>6 DEF T, D
  <2>5. v.store \notin D
    BY <1>4, <1>5 DEF D
  <2> QED  BY <1>4, <2>1, <2>2, <2>3, <2>4, <2>5 DEF WorkerTargets
<1> QED  BY <1>1, <1>4, <1>5, <1>8, RowStep

LEMMA CompleteTargets ==
  ASSUME TargetInv, OneWorkerPerRun, TypeInv', NEW p \in Proc,
         CompleteStore(p)
  PROVE  TargetStep
<1> DEFINE w == worker[p]
           r == w.run
           s == w.store
           empty == w.anchor = NoReview /\ w.previous = NoReview
           c == [state |-> IF empty THEN "NO_REVIEWS" ELSE "COMPLETE",
                 mode |-> "none"]
           v == [w EXCEPT !.pc = "settle", !.outcome = "done"]
<1>1. /\ Becomes(p, v) /\ w.pc = "closed"
      /\ storeCheckpoint' = [storeCheckpoint EXCEPT ![r][s] = c]
      /\ UNCHANGED <<run, locators>>
  BY DEF CompleteStore
<1>2. /\ w \in Worker /\ r \in Run /\ s \in Store
      /\ WorkerTargets(w, run[r], storeCheckpoint[r])
  BY <1>1, AtWork DEF WorkerOK
<1>3. c.state \in Done
  BY DEF Done
<1>4. /\ v.pc = "settle" /\ v.run = r /\ v.left = w.left
      /\ v.pend = w.pend /\ v.store = s /\ v.final = w.final
      /\ v.counts = w.counts /\ v.outcome = "done"
  BY <1>2 DEF Worker
<1> HIDE DEF v, c
<1>5. Current(v) = {s} /\ Current(w) = {s}
  BY <1>1, <1>4 DEF Current, AtStore
<1>6. Complete(storeCheckpoint'[r]) = Complete(storeCheckpoint[r]) \cup {s}
  BY <1>1, <1>2, <1>3, RowWritten DEF TargetInv
<1>7. s \in TargetsOf(r, run[r])
  BY <1>2, <1>5 DEF WorkerTargets
<1>8. WorkerTargets(v, run[r], storeCheckpoint'[r])
  BY <1>1, <1>2, <1>4, <1>5, <1>6 DEF WorkerTargets, AtStore
<1> QED  BY <1>1, <1>2, <1>3, <1>4, <1>7, <1>8, RowStep

LEMMA SettleTargets ==
  ASSUME TargetInv, OneWorkerPerRun, TypeInv', NEW p \in Proc,
         SettleStore(p)
  PROVE  TargetStep
<1> DEFINE w == worker[p]
           r == w.run
           s == w.store
           k == CountsAfter(w)
           f == FinalOf(w.outcome)
           c == [state |-> StateOf(w.outcome),
                 mode |-> IF w.outcome = "failed" THEN w.target ELSE w.mode]
           v == [w EXCEPT !.pc = "account", !.counts = k, !.got = 0,
                          !.final = f]
<1>1. /\ Becomes(p, v) /\ w.pc = "settle"
      /\ storeCheckpoint' = IF w.outcome = "fatal" THEN storeCheckpoint
           ELSE [storeCheckpoint EXCEPT ![r][s] = c]
      /\ UNCHANGED <<run, locators>>
  BY DEF SettleStore
<1>2. /\ w \in Worker /\ r \in Run /\ s \in Store
      /\ w.outcome \in Outcomes \ {"none"} /\ w.counts \in Counts
      /\ WorkerTargets(w, run[r], storeCheckpoint[r])
  BY <1>1, AtWork DEF WorkerOK, Worker
<1>3. w.outcome # "fatal" => (c.state \in Done <=> w.outcome = "done")
  BY <1>2 DEF StateOf, Done, Outcomes
<1>4. f = "SUCCEEDED" <=> w.outcome \in {"done", "failed"}
  BY <1>2 DEF FinalOf, Outcomes
<1>5. k.failed = 0 => w.counts.failed = 0 /\ w.outcome # "failed"
  <2>1. \A x \in Counts : \A a, i, g :
          [x EXCEPT !.collected = a, !.incremental = i, !.fallback = g]
            .failed = x.failed
    BY DEF Counts
  <2>2. \A x \in Counts : [x EXCEPT !.failed = @ + 1].failed # 0
    BY DEF Counts
  <2> QED  BY <1>2, <2>1, <2>2 DEF CountsAfter
<1> HIDE DEF k, f
<1>6. /\ v.pc = "account" /\ v.run = r /\ v.left = w.left
      /\ v.pend = w.pend /\ v.store = s /\ v.final = f
      /\ v.counts = k
  BY <1>2 DEF Worker
<1> HIDE DEF v, c
<1>7. Current(v) = {} /\ Current(w) = {s}
  BY <1>1, <1>6 DEF Current, AtStore
<1>8. s \in TargetsOf(r, run[r])
  BY <1>2, <1>7 DEF WorkerTargets
<1>9. w.outcome = "done" <=> s \in Complete(storeCheckpoint[r])
  BY <1>1, <1>2 DEF WorkerTargets
<1>10. Complete(storeCheckpoint'[r]) = Complete(storeCheckpoint[r])
  <2>1. CASE w.outcome = "fatal"
    BY <1>1, <2>1
  <2>2. CASE w.outcome # "fatal"
    <3>1. storeCheckpoint' = [storeCheckpoint EXCEPT ![r][s] = c]
      BY <1>1, <2>2
    <3>2. TypeInv /\ (c.state \in Done <=> s \in Complete(storeCheckpoint[r]))
      BY <1>3, <1>9, <2>2 DEF TargetInv
    <3> HIDE DEF r, s, w
    <3>3. /\ c.state \in Done =>
               Complete(storeCheckpoint'[r])
                 = Complete(storeCheckpoint[r]) \cup {s}
          /\ c.state \notin Done /\ s \notin Complete(storeCheckpoint[r]) =>
               Complete(storeCheckpoint'[r]) = Complete(storeCheckpoint[r])
      BY <1>2, <3>1, <3>2, RowWritten
    <3> QED  BY <3>2, <3>3
  <2> QED  BY <2>1, <2>2
<1>11. WorkerTargets(v, run[r], storeCheckpoint'[r])
  <2> DEFINE T == TargetsOf(r, run[r])
             D == Complete(storeCheckpoint[r])
  <2>1. /\ run[r].status \notin {"NONE", "SUCCEEDED"}
        /\ w.left \cup w.pend \subseteq T
        /\ w.final = "SUCCEEDED"
        /\ w.counts.failed = 0 => T \ (w.left \cup {s}) \subseteq D
    BY <1>1, <1>2, <1>7 DEF WorkerTargets
  <2>2. v.left \cup v.pend \cup Current(v) \subseteq T
    BY <1>6, <1>7, <2>1
  <2>3. v.final = "SUCCEEDED" /\ v.counts.failed = 0
          => T \ (v.left \cup Current(v)) \subseteq D
    BY <1>4, <1>5, <1>6, <1>7, <1>9, <2>1
  <2> HIDE DEF T, D
  <2>4. T = TargetsOf(v.run, run[r]) /\ D = Complete(storeCheckpoint'[r])
    BY <1>6, <1>10 DEF T, D
  <2> QED  BY <1>6, <2>1, <2>2, <2>3, <2>4 DEF WorkerTargets, AtStore
<1>12. CASE w.outcome = "fatal"
  BY <1>1, <1>6, <1>11, <1>12, QuietStep
<1>13. CASE w.outcome # "fatal"
  BY <1>1, <1>2, <1>3, <1>6, <1>8, <1>9, <1>11, <1>13, RowStep
<1> QED  BY <1>12, <1>13

LEMMA LoopTargets ==
  ASSUME TargetInv, TypeInv', NEW p \in Proc,
         \/ \E s \in Store : SkipStore(p, s) \/ PauseBefore(p, s)
         \/ EnterLoop(p) \/ SkipCompleteStore(p) \/ Crash(p)
  PROVE  TargetStep
<1> DEFINE w == worker[p]
           r == w.run
           T == TargetsOf(r, run[r])
           D == Complete(storeCheckpoint[r])
<1>1. w.pc # "idle" /\ UNCHANGED <<run, storeCheckpoint, locators>>
  BY DEF SkipStore, PauseBefore, ToCollect, AtTarget, EnterLoop,
         SkipCompleteStore, Crash, database
<1>2. /\ w \in Worker /\ WorkerOK(w) /\ r \in Run
      /\ WorkerTargets(w, run[r], storeCheckpoint[r])
  BY <1>1, AtWork
<1>3. ASSUME NEW s \in Store, SkipStore(p, s) PROVE TargetStep
  <2> DEFINE v == [w EXCEPT !.left = @ \ {s}]
  <2>1. Becomes(p, v) /\ w.pc = "loop" /\ s \in D
    BY <1>3 DEF SkipStore, AtTarget, RowOf, Complete
  <2>2. /\ v.pc = "loop" /\ v.run = r /\ v.left = w.left \ {s}
        /\ v.pend = w.pend /\ v.final = w.final /\ v.counts = w.counts
    BY <1>2, <2>1 DEF Worker
  <2> HIDE DEF v
  <2>3. Current(v) = {} /\ Current(w) = {} /\ "loop" \notin AtStore
    BY <2>1, <2>2 DEF Current, AtStore
  <2>4. WorkerTargets(v, run[r], storeCheckpoint[r])
    BY <1>2, <2>1, <2>2, <2>3 DEF WorkerTargets
  <2> QED  BY <1>1, <2>1, <2>2, <2>4, QuietStep
<1>4. ASSUME NEW s \in Store, PauseBefore(p, s) PROVE TargetStep
  <2>1. PICK f \in Paused : Pause(p, f) /\ w.pc = "loop"
    BY <1>4 DEF PauseBefore, Paused, ToCollect, AtTarget
  <2> DEFINE v == [w EXCEPT !.pc = "finish", !.final = f]
  <2>2. Becomes(p, v)
    BY <2>1 DEF Pause
  <2>3. /\ v.pc = "finish" /\ v.run = r /\ v.left = w.left
        /\ v.pend = w.pend /\ v.final = f
    BY <1>2 DEF Worker
  <2> HIDE DEF v
  <2>4. Current(v) = {} /\ Current(w) = {} /\ "finish" \notin AtStore
    BY <2>1, <2>3 DEF Current, AtStore
  <2>5. f # "SUCCEEDED"
    BY DEF Paused
  <2>6. WorkerTargets(v, run[r], storeCheckpoint[r])
    BY <1>2, <2>1, <2>3, <2>4, <2>5 DEF WorkerTargets
  <2> QED  BY <1>1, <2>2, <2>3, <2>6, QuietStep
<1>5. CASE EnterLoop(p)
  <2> DEFINE c == run[r].counts
             v == [w EXCEPT !.pc = "loop", !.counts = c]
  <2>1. Becomes(p, v) /\ w.pc = "pending"
    BY <1>5 DEF EnterLoop
  <2> HIDE DEF c
  <2>2. /\ v.pc = "loop" /\ v.run = r /\ v.left = w.left
        /\ v.pend = w.pend /\ v.final = w.final
    BY <1>2 DEF Worker
  <2> HIDE DEF v
  <2>3. /\ Current(v) = {} /\ Current(w) = {}
        /\ "loop" \notin AtStore /\ "pending" # "finish"
    BY <2>1, <2>2 DEF Current, AtStore
  <2>4. w.left = T /\ T \ (v.left \cup Current(v)) = {}
    BY <1>2, <2>1, <2>2, <2>3 DEF WorkerTargets
  <2>5. WorkerTargets(v, run[r], storeCheckpoint[r])
    BY <1>2, <2>1, <2>2, <2>3, <2>4 DEF WorkerTargets
  <2> QED  BY <1>1, <2>1, <2>2, <2>5, QuietStep
<1>6. ~SkipCompleteStore(p)
  <2>1. SUFFICES ASSUME SkipCompleteStore(p) PROVE FALSE
    OBVIOUS
  <2>2. w.pc = "open" /\ storeCheckpoint[r][w.store].state \in Done
    BY <2>1 DEF SkipCompleteStore
  <2>3. w.store \in Store
    BY <1>2, <2>2 DEF WorkerOK
  <2> QED  BY <1>2, <2>2, <2>3 DEF WorkerTargets, AtStore, Complete
<1>7. CASE Crash(p)
  BY <1>1, <1>7, IdleTyped, QuietStep DEF Crash
<1> QED  BY <1>3, <1>4, <1>5, <1>6, <1>7

\* The row of a run is written, its store count stays.
LEMMA RunRowWritten ==
  ASSUME TargetInv, NEW r \in Run, NEW st, NEW b, NEW c,
         run' = [run EXCEPT ![r] = [run[r] EXCEPT
                   !.status = st, !.slot = b, !.counts = c]]
  PROVE  /\ \A q \in Run \ {r} : run'[q] = run[q]
         /\ run'[r].status = st /\ run'[r].stores = run[r].stores
         /\ TargetsOf(r, run'[r]) = TargetsOf(r, run[r])
<1> DEFINE row == [run[r] EXCEPT !.status = st, !.slot = b, !.counts = c]
<1>1. run \in [Run -> RunRow] /\ run[r] \in RunRow
  BY DEF TargetInv, TypeInv, TypeOK
<1>2. row.status = st /\ row.stores = run[r].stores
  BY <1>1 DEF RunRow
<1>3. run'[r] = row /\ \A q \in Run \ {r} : run'[q] = run[q]
  BY <1>1
<1>4. TargetsOf(r, row) = TargetsOf(r, run[r])
  BY <1>2 DEF TargetsOf
<1> QED  BY <1>2, <1>3, <1>4

LEMMA AccountTargets ==
  ASSUME TargetInv, OneWorkerPerRun, TypeInv', NEW p \in Proc,
         AccountStore(p)
  PROVE  TargetStep
<1> DEFINE w == worker[p]
           r == w.run
           on == w.final = "SUCCEEDED"
           st == IF on THEN "RUNNING" ELSE w.final
           row == [run[r] EXCEPT !.status = st, !.slot = on,
                                 !.counts = w.counts]
           pc == IF on THEN "loop" ELSE "finish"
           v == [w EXCEPT !.pc = pc]
<1>1. /\ w.pc = "account"
      /\ \/ Becomes(p, Idle) /\ UNCHANGED run
         \/ Becomes(p, v) /\ run' = [run EXCEPT ![r] = row]
      /\ UNCHANGED <<storeCheckpoint, locators>>
  BY DEF AccountStore, progress
<1>2. /\ w \in Worker /\ r \in Run /\ w.final \in Finals
      /\ WorkerTargets(w, run[r], storeCheckpoint[r])
      /\ RunTargets(r, run[r], storeCheckpoint[r])
  BY <1>1, AtWork DEF Worker
<1>3. st \notin {"NONE", "SUCCEEDED"}
  BY <1>2 DEF Finals, Paused, Closed, Stopped
<1>4. CASE Becomes(p, Idle) /\ UNCHANGED run
  BY <1>1, <1>4, IdleTyped, QuietStep
<1>5. CASE Becomes(p, v) /\ run' = [run EXCEPT ![r] = row]
  <2>1. pc = IF on THEN "loop" ELSE "finish"
    OBVIOUS
  <2> HIDE DEF st, pc
  <2>2. /\ \A q \in Run \ {r} : run'[q] = run[q]
        /\ run'[r].status = st /\ run'[r].stores = run[r].stores
        /\ TargetsOf(r, run'[r]) = TargetsOf(r, run[r])
    BY <1>2, <1>5, RunRowWritten
  <2>3. RunTargets(r, run'[r], storeCheckpoint[r])
    BY <1>2, <1>3, <2>2 DEF RunTargets
  <2>4. /\ v.pc = pc /\ v.run = r /\ v.left = w.left /\ v.pend = w.pend
        /\ v.final = w.final /\ v.counts = w.counts
    BY <1>2 DEF Worker
  <2> HIDE DEF v
  <2>5. Current(v) = {} /\ Current(w) = {} /\ pc \notin AtStore
    BY <1>1, <2>1, <2>4 DEF Current, AtStore
  <2>6. WorkerTargets(v, run'[r], storeCheckpoint[r])
    BY <1>1, <1>2, <1>3, <2>1, <2>2, <2>4, <2>5 DEF WorkerTargets
  <2>7. \A q \in Proc \ {p} : ~(worker[q].pc # "idle" /\ worker[q].run = r)
    BY <1>1 DEF OneWorkerPerRun
  <2> HIDE DEF row, on
  <2>8. LocatorsKept'
    BY <1>1 DEF TargetInv, LocatorsKept
  <2> QED
    BY <1>1, <1>2, <1>5, <2>2, <2>3, <2>4, <2>6, <2>7, <2>8, TargetFrame
<1> QED  BY <1>1, <1>4, <1>5

LEMMA FinishTargets ==
  ASSUME TargetInv, OneWorkerPerRun, TypeInv', NEW p \in Proc,
         FinishRun(p)
  PROVE  TargetStep
<1> DEFINE w == worker[p]
           r == w.run
           f == FinalStatus(w)
           on == FALSE
           row == [run[r] EXCEPT !.status = f, !.slot = on,
                                 !.counts = w.counts]
<1>1. /\ w.pc = "finish" \/ (w.pc = "loop" /\ w.left = {})
      /\ Becomes(p, Idle) /\ run' = [run EXCEPT ![r] = row]
      /\ locators' = IF f = "SUCCEEDED"
                     THEN [locators EXCEPT ![DiscoveryOf[r]] = {}]
                     ELSE locators
      /\ UNCHANGED storeCheckpoint
  BY DEF FinishRun, progress
<1>2. /\ w \in Worker /\ r \in Run /\ w.final \in Finals /\ w.counts \in Counts
      /\ WorkerTargets(w, run[r], storeCheckpoint[r])
      /\ RunTargets(r, run[r], storeCheckpoint[r])
  BY <1>1, AtWork DEF Worker
<1>3. f # "NONE" /\ (f = "SUCCEEDED" =>
                       w.final = "SUCCEEDED" /\ w.counts.failed = 0)
  BY <1>2 DEF FinalStatus, Finals, Paused, Closed, Stopped, Counts
<1> HIDE DEF f, on
<1>4. /\ \A q \in Run \ {r} : run'[q] = run[q]
      /\ run'[r].status = f /\ run'[r].stores = run[r].stores
      /\ TargetsOf(r, run'[r]) = TargetsOf(r, run[r])
  <2> DEFINE c == w.counts
  <2>1. run' = [run EXCEPT ![r] = [run[r] EXCEPT !.status = f, !.slot = on,
                                                 !.counts = c]]
    BY <1>1
  <2> HIDE DEF c
  <2> QED  BY <1>2, <2>1, RunRowWritten
<1> HIDE DEF row
<1>5. Current(w) = {}
  BY <1>1 DEF Current, AtStore
<1>6. f = "SUCCEEDED" =>
        TargetsOf(r, run[r]) \subseteq Complete(storeCheckpoint[r])
  BY <1>1, <1>2, <1>3, <1>5 DEF WorkerTargets
<1>7. RunTargets(r, run'[r], storeCheckpoint[r])
  BY <1>2, <1>3, <1>4, <1>6 DEF RunTargets
<1>8. \A q \in Proc \ {p} : ~(worker[q].pc # "idle" /\ worker[q].run = r)
  BY <1>1 DEF OneWorkerPerRun
<1>9. LocatorsKept'
  <2>1. locators \in [Discovery -> SUBSET Store]
    BY DEF TargetInv, TypeInv, TypeOK
  <2> QED  BY <1>1, <2>1 DEF TargetInv, LocatorsKept
<1> QED  BY <1>1, <1>2, <1>4, <1>7, <1>8, <1>9, IdleTyped, TargetFrame

\* The targets the locators give a run that starts, or goes on with as many
\* as it began with.
LEMMA TargetsHere ==
  ASSUME CollectionAssumption, TargetInv, NEW r \in Run, NEW row,
         row.stores = Cardinality(Targets(r))
  PROVE  TargetsOf(r, row) = Targets(r)
<1>1. DiscoveryOf[r] \in Discovery
  BY DEF CollectionAssumption
<1>2. Targets(r) \in {Matched[DiscoveryOf[r]], {}} /\ Targets(r) \in SUBSET Store
  BY <1>1 DEF TargetInv, TypeInv, TypeOK, LocatorsKept, Targets
<1>3. Cardinality(Targets(r)) = 0 <=> Targets(r) = {}
  BY <1>2, FiniteTargets, FS_EmptySet
<1> QED  BY <1>2, <1>3 DEF TargetsOf

LEMMA OperatorTargets ==
  ASSUME CollectionAssumption, TargetInv, TypeInv', NEW p \in Proc,
         NEW r \in Run, StartRun(p, r) \/ ResumeRun(p, r)
  PROVE  TargetStep
<1> DEFINE T == Targets(r)
<1>1. run \in [Run -> RunRow] /\ run[r] \in RunRow
  BY DEF TargetInv, TypeInv, TypeOK
<1>2. Idle \in Worker /\ Idle.final = "SUCCEEDED" /\ Idle.pend = {}
  BY IdleTyped DEF Idle
<1>3. RunTargets(r, run[r], storeCheckpoint[r])
  BY DEF TargetInv, RunsOK
<1>4. UNCHANGED <<storeCheckpoint, locators>>
  BY DEF StartRun, ResumeRun, progress
<1>5. LocatorsKept'
  BY <1>4 DEF TargetInv, LocatorsKept
<1>6. "pending" \notin AtStore \cup {"settle"}
      /\ "loop" \notin AtStore \cup {"settle"}
  BY DEF AtStore
<1>7. CASE StartRun(p, r)
  <2> DEFINE ready == ReadyStores(T)
             c == [NoCounts EXCEPT !.initial = Cardinality(T \ ready),
                                   !.incremental = Cardinality(ready)]
             row == [status |-> "RUNNING", slot |-> TRUE, asOf |-> today,
                     stores |-> Cardinality(T), counts |-> c]
             v == [Idle EXCEPT !.pc = "pending", !.run = r, !.left = T,
                               !.pend = T, !.ready = ready]
  <2>1. /\ Becomes(p, v) /\ run' = [run EXCEPT ![r] = row]
        /\ run[r].status = "NONE"
    BY <1>7 DEF StartRun
  <2> HIDE DEF ready, c
  <2>2. TargetsOf(r, row) = T
    BY TargetsHere
  <2> HIDE DEF T
  <2>3. /\ v.pc = "pending" /\ v.run = r /\ v.left = T /\ v.pend = T
        /\ v.final = "SUCCEEDED"
    BY <1>2 DEF Worker
  <2> HIDE DEF v
  <2>4. run'[r] = row /\ \A q \in Run \ {r} : run'[q] = run[q]
    BY <1>1, <2>1
  <2>5. Complete(storeCheckpoint[r]) = {}
    BY <1>3, <2>1 DEF RunTargets, TargetsOf
  <2>6. RunTargets(r, row, storeCheckpoint[r])
    BY <2>2, <2>5 DEF RunTargets, T
  <2>7. Current(v) = {}
    BY <1>6, <2>3 DEF Current
  <2>8. WorkerTargets(v, row, storeCheckpoint[r])
    BY <1>6, <2>2, <2>3, <2>5, <2>7 DEF WorkerTargets
  <2>9. \A q \in Proc : ~(worker[q].pc # "idle" /\ worker[q].run = r)
    BY <2>1 DEF TargetInv, WorkersAimed, WorkerTargets
  <2> HIDE DEF row
  <2> QED
    BY <1>4, <1>5, <2>1, <2>3, <2>4, <2>6, <2>8, <2>9, TargetFrame
<1>8. CASE ResumeRun(p, r)
  <2> DEFINE k == run[r].counts
             row == [run[r] EXCEPT !.status = "RUNNING", !.slot = TRUE]
             v == [Idle EXCEPT !.pc = "loop", !.run = r, !.left = T,
                               !.counts = k]
  <2>1. /\ Becomes(p, v) /\ run' = [run EXCEPT ![r] = row]
        /\ run[r].status \notin {"NONE", "SUCCEEDED"}
        /\ run[r].stores = Cardinality(T)
    BY <1>8 DEF ResumeRun, Resumable, Closed
  <2>2. TargetsOf(r, run[r]) = T
    BY <2>1, TargetsHere
  <2> HIDE DEF T, k
  <2>3. /\ v.pc = "loop" /\ v.run = r /\ v.left = T /\ v.pend = {}
        /\ v.final = "SUCCEEDED"
    BY <1>2 DEF Worker
  <2> HIDE DEF v
  <2>4. run'[r] = row /\ \A q \in Run \ {r} : run'[q] = run[q]
    BY <1>1, <2>1
  <2>5. row.status = "RUNNING" /\ row.stores = run[r].stores
    BY <1>1 DEF RunRow
  <2> HIDE DEF row
  <2>6. TargetsOf(r, row) = T
    BY <2>2, <2>5 DEF TargetsOf
  <2>7. RunTargets(r, row, storeCheckpoint[r])
    BY <1>3, <2>2, <2>5, <2>6 DEF RunTargets
  <2>8. Current(v) = {}
    BY <1>6, <2>3 DEF Current
  <2>9. WorkerTargets(v, row, storeCheckpoint[r])
    BY <1>6, <2>3, <2>5, <2>6, <2>8 DEF WorkerTargets
  <2>10. ASSUME NEW q \in Proc, worker[q].pc # "idle", worker[q].run = r
         PROVE  WorkerTargets(worker[q], row, storeCheckpoint[r])
    <3>1. WorkerTargets(worker[q], run[r], storeCheckpoint[r])
      BY <2>10 DEF TargetInv, WorkersAimed
    <3>2. TargetsOf(worker[q].run, row) = TargetsOf(worker[q].run, run[r])
      BY <2>5 DEF TargetsOf
    <3>3. row.status \notin {"NONE", "SUCCEEDED"}
      BY <2>5
    <3> QED  BY <3>1, <3>2, <3>3 DEF WorkerTargets
  <2> QED
    BY <1>4, <1>5, <2>1, <2>3, <2>4, <2>7, <2>9, <2>10, TargetFrame
<1> QED  BY <1>7, <1>8

LEMMA NextTargets ==
  ASSUME CollectionAssumption, TargetInv, OneWorkerPerRun, [Next]_vars
  PROVE  TargetStep
<1>1. TypeInv'
  BY NextTyped DEF TargetInv
<1>2. CASE UNCHANGED <<run, storeCheckpoint, locators, worker>>
  <2>1. LocatorsKept' /\ RunsOK' /\ WorkersAimed'
    BY <1>2 DEF TargetInv, LocatorsKept, RunsOK, WorkersAimed
  <2> QED  BY <1>1, <1>2, <2>1 DEF TargetStep, TargetInv
<1>3. CASE UNCHANGED vars
  BY <1>2, <1>3 DEF vars
<1>4. CASE Provider
  <2>1. UNCHANGED <<run, storeCheckpoint, locators, worker>>
    BY <1>4 DEF Provider, Post, Hide, Reveal, progress
  <2> QED  BY <1>2, <2>1
<1>5. ASSUME NEW p \in Proc, Operator(p) PROVE TargetStep
  BY <1>1, <1>5, OperatorTargets DEF Operator
<1>6. ASSUME NEW p \in Proc, Work(p) PROVE TargetStep
  <2>1. ASSUME NEW s \in Store,
               \/ WritePending(p, s) \/ SkipStore(p, s)
               \/ PauseBefore(p, s) \/ BeginStore(p, s)
        PROVE  TargetStep
    BY <1>1, <2>1, PendingTargets, LoopTargets, BeginTargets
  <2>2. CASE EnterLoop(p) \/ SkipCompleteStore(p)
    BY <1>1, <2>2, LoopTargets
  <2>3. CASE \/ OpenStore(p) \/ ReadPage(p) \/ ClosePage(p) \/ FallBack(p)
             \/ NextPage(p)
    BY <1>1, <2>3, PageTargets
  <2>4. CASE \/ StopProvider(p) \/ ReadFails(p)
             \/ ReviewFails(p) \/ PauseStore(p)
    BY <1>1, <2>4, LeavingTargets
  <2>5. ASSUME NEW d \in Day,
               \/ RejectReview(p, d) \/ DuplicateReview(p, d)
               \/ EncryptReview(p, d) \/ MarkSeen(p, d)
        PROVE  TargetStep
    BY <1>1, <2>5, ReviewTargets
  <2>6. CASE CompleteStore(p)
    BY <1>1, <2>6, CompleteTargets
  <2>7. CASE SettleStore(p) \/ AccountStore(p) \/ FinishRun(p)
    BY <1>1, <2>7, SettleTargets, AccountTargets, FinishTargets
  <2> QED
    BY <1>6, <2>1, <2>2, <2>3, <2>4, <2>5, <2>6, <2>7 DEF Work
<1>7. ASSUME NEW p \in Proc, Crash(p) PROVE TargetStep
  BY <1>1, <1>7, LoopTargets
<1> QED
  BY <1>3, <1>4, <1>5, <1>6, <1>7 DEF Next

LEMMA TargetInvHolds == Spec /\ []OneWorkerPerRun => []TargetInv
<1>1. Init => TargetInv
  BY InitTargets, CollectionAssumption
<1>2. TargetInv /\ OneWorkerPerRun /\ [Next]_vars => TargetInv'
  BY NextTargets, CollectionAssumption DEF TargetStep
<1> QED
  BY <1>1, <1>2, PTL DEF Spec

\* A run that is SUCCEEDED has completed every store it had as a target,
\* whatever crashed, failed, paused or was resumed before, as long as the
\* operator lets no two processes work on one run: runReviewBatch skips only
\* what it finds COMPLETE or NO_REVIEWS, and calls the run PARTIAL after a
\* failure.
THEOREM SucceededIsComplete ==
  Spec /\ []OneWorkerPerRun => []SucceededMeansComplete
<1>1. TargetInv => SucceededMeansComplete
  <2>1. SUFFICES ASSUME TargetInv, NEW r \in Run, run[r].status = "SUCCEEDED"
                 PROVE  Cardinality({s \in Store :
                                       storeCheckpoint[r][s].state \in Done})
                          = run[r].stores
    BY DEF SucceededMeansComplete
  <2>2. RunTargets(r, run[r], storeCheckpoint[r])
    BY <2>1 DEF TargetInv, RunsOK
  <2>3. Complete(storeCheckpoint[r]) = TargetsOf(r, run[r])
    BY <2>1, <2>2 DEF RunTargets
  <2> QED  BY <2>2, <2>3 DEF RunTargets, Complete
<1> QED
  BY <1>1, TargetInvHolds, PTL

\* No step takes the completion of a store back within its run, under the same
\* condition: collectStoreReviews is not called for it, and no row is written
\* over the final one.
THEOREM CompletionIsKept ==
  Spec /\ []OneWorkerPerRun => CompleteStaysComplete
<1>1. TargetInv /\ OneWorkerPerRun /\ [Next]_vars =>
        [\A r \in Run, s \in Store :
           storeCheckpoint[r][s].state \in Done =>
             storeCheckpoint'[r][s].state \in Done]_vars
  <2>1. SUFFICES ASSUME TargetInv, OneWorkerPerRun, [Next]_vars,
                        NEW r \in Run, NEW s \in Store,
                        storeCheckpoint[r][s].state \in Done
                 PROVE  storeCheckpoint'[r][s].state \in Done
    OBVIOUS
  <2>2. Complete(storeCheckpoint[r]) \subseteq Complete(storeCheckpoint'[r])
    BY <2>1, CollectionAssumption, NextTargets DEF TargetStep
  <2> QED  BY <2>1, <2>2 DEF Complete
<1> QED
  BY <1>1, TargetInvHolds, PTL DEF Spec, CompleteStaysComplete

-----------------------------------------------------------------------------
(* Anchors *)

\* No review goes away, and none appears late.
ListGrows == ProviderMoves \subseteq {"post"}

\* A store as a pass sees it: the days it shows, those that are dealt with
\* (recorded, or never to be recorded), and today.
ViewOf(s) ==
  [list |-> listing[s], done |-> seen[s] \cup Pii[s], today |-> today]

NextView(s) ==
  [list |-> listing'[s], done |-> seen'[s] \cup Pii[s], today |-> today']

GoodView(v) == v.today \in Nat /\ v.list \subseteq 1..v.today

\* View u is v after a while.
Later(v, u) ==
  /\ v.today <= u.today /\ v.done \subseteq u.done
  /\ v.list \subseteq u.list /\ \A d \in u.list \ v.list : v.today < d

RankIn(list, d) == Cardinality({e \in list : e >= d})

\* Reviews of the last 12 months back to day a that are not dealt with.
Undone(v, a) ==
  {d \in v.list : v.today - Window <= d /\ d <= a /\ d \notin v.done}

InWindow(d, asOf) == asOf - Window <= d /\ d <= asOf

\* Of the first k reviews, those of the window are dealt with or in left.
Covers(v, asOf, k, left) ==
  \A d \in v.list :
    RankIn(v.list, d) <= k /\ InWindow(d, asOf) => d \in v.done \cup left

PagesBefore(n) == (n - 1) * PageSize
PagesUpTo(n) == n * PageSize

\* A row of a page: the pages before a partial one and up to a complete one
\* are dealt with, and everything is once the anchor was found.
RowKnows(c, v, asOf) ==
  /\ c.anchor <= asOf
  /\ Covers(v, asOf,
            IF c.complete THEN PagesUpTo(c.page) ELSE PagesBefore(c.page), {})
  /\ c.anchorSeen /\ c.mode \in {"INCREMENTAL", "none"}
       => Undone(v, asOf) = {}

InPage == {"protect", "sealed", "closed"}
Reading == {"read"} \cup InPage

\* What the page still has.
PageLeft(w) == IF w.pc \in {"protect", "sealed"} THEN w.todo ELSE {}

\* A process: nothing is missing behind the previous anchor, nor before its
\* page; and what its page has left is all that is missing once it found the
\* anchor or the end of the list.  A page is handled from its new end.
WorkerKnows(w, v, asOf) ==
  /\ w.anchor <= asOf /\ w.previous <= v.today
  /\ Undone(v, w.previous) = {}
  /\ Covers(v, asOf, PagesBefore(w.page), {})
  /\ AnchorReached(w) => Undone(v, asOf) \subseteq PageLeft(w)
  /\ w.pc \in InPage =>
       /\ Covers(v, asOf, PagesUpTo(w.page), PageLeft(w))
       /\ ListEnded(w) => Undone(v, asOf) \subseteq PageLeft(w)
  /\ \A t \in PageLeft(w) :
       /\ t <= asOf
       /\ \A d \in v.list :
            t <= d /\ InWindow(d, asOf) => d \in v.done \cup PageLeft(w)

StoresOK ==
  \A s \in Store : /\ listing[s] \subseteq 1..today /\ sync[s].anchor <= today
                   /\ Undone(ViewOf(s), sync[s].anchor) = {}

RunsBegan == \A r \in Run : run[r].asOf <= today

RowsOK ==
  \A r \in Run, s \in Store :
    /\ run[r].status = "NONE" => pageCheckpoint[r][s] = {}
    /\ \A c \in pageCheckpoint[r][s] : RowKnows(c, ViewOf(s), run[r].asOf)

WorkersOK ==
  \A p \in Proc :
    LET w == worker[p] IN
    /\ w.pc # "idle" => run[w.run].status # "NONE"
    /\ w.pc \in Reading => WorkerKnows(w, ViewOf(w.store), run[w.run].asOf)

AnchorInv == TypeInv /\ StoresOK /\ RunsBegan /\ RowsOK /\ WorkersOK

-----------------------------------------------------------------------------
(* Finite sets of days and ranks in them *)

LEMMA LeastElement ==
  ASSUME NEW T \in SUBSET Nat, T # {}
  PROVE  \E n \in T : \A m \in T : n <= m
<1> DEFINE Upto(n) == {m \in T : m <= n}
           F == {Upto(n) : n \in T}
           R == StrictSubsetOrdering(Nat)
<1>1. \A n \in T : Upto(n) \in FiniteSubsetsOf(Nat)
  <2> TAKE n \in T
  <2>1. n \in Nat /\ T \subseteq Nat
    OBVIOUS
  <2>2. IsFiniteSet(0..n)
    BY <2>1, FS_Interval
  <2>3. Upto(n) \subseteq 0..n
    <3> SUFFICES ASSUME NEW m \in Upto(n) PROVE m \in 0..n
      OBVIOUS
    <3>1. m \in Nat /\ m <= n
      BY <2>1
    <3> QED  BY <2>1, <3>1
  <2>4. IsFiniteSet(Upto(n))
    BY <2>2, <2>3, FS_Subset
  <2> QED  BY <2>1, <2>4 DEF FiniteSubsetsOf
<1>2. IsWellFoundedOn(R, FiniteSubsetsOf(Nat))
  BY FS_StrictSubsetOrderingWellFounded
<1>3. PICK A \in F : \A B \in F : ~ (<<B, A>> \in R)
  <2>1. F # {} /\ F \subseteq FiniteSubsetsOf(Nat)
    BY <1>1
  <2> HIDE DEF F, R
  <2> QED  BY <2>1, <1>2, WFMin
<1>4. PICK n \in T : A = Upto(n)
  OBVIOUS
<1>5. ASSUME NEW m \in T, m < n PROVE FALSE
  <2>1. n \in Nat /\ m \in Nat /\ T \subseteq Nat
    OBVIOUS
  <2>2. n \notin Upto(m) /\ n \in Upto(n)
    BY <2>1, <1>5
  <2>3. Upto(m) \subseteq Upto(n)
    <3> SUFFICES ASSUME NEW x \in Upto(m) PROVE x \in Upto(n)
      OBVIOUS
    <3>1. x \in T /\ x \in Nat /\ x <= m
      BY <2>1
    <3>2. x <= n
      BY <2>1, <1>5, <3>1
    <3> QED  BY <3>1, <3>2
  <2>4. Upto(m) \subseteq Nat /\ Upto(n) \subseteq Nat /\ Upto(m) \in F
    OBVIOUS
  <2>5. <<Upto(m), A>> \in R
    <3> HIDE DEF Upto
    <3> QED  BY <1>4, <2>2, <2>3, <2>4 DEF StrictSubsetOrdering
  <2> QED  BY <1>3, <2>4, <2>5
<1> QED  BY <1>5

\* Ranks are positive numbers that grow with age and with the list.
LEMMA RankFacts ==
  ASSUME NEW t \in Nat, NEW list \in SUBSET (1..t), NEW d \in Int
  PROVE  /\ IsFiniteSet({e \in list : e >= d}) /\ RankIn(list, d) \in Nat
         /\ d \in list => RankIn(list, d) >= 1
         /\ \A e \in Int : d <= e => RankIn(list, e) <= RankIn(list, d)
         /\ \A sub \in SUBSET list : RankIn(sub, d) <= RankIn(list, d)
<1> DEFINE From(l, x) == {e \in l : e >= x}
<1>1. IsFiniteSet(1..t)
  BY FS_Interval
<1>2. \A l \in SUBSET list, x \in Int :
        IsFiniteSet(From(l, x)) /\ Cardinality(From(l, x)) \in Nat
  <2> TAKE l \in SUBSET list, x \in Int
  <2>1. From(l, x) \subseteq 1..t
    OBVIOUS
  <2> QED  BY <1>1, <2>1, FS_Subset, FS_CardinalityType
<1>3. \A e \in Int : d <= e => From(list, e) \subseteq From(list, d)
  <2> SUFFICES ASSUME NEW e \in Int, d <= e, NEW x \in From(list, e)
               PROVE  x \in From(list, d)
    OBVIOUS
  <2>1. x \in list /\ x \in Int /\ x >= e
    OBVIOUS
  <2> QED  BY <2>1
<1>4. \A sub \in SUBSET list : From(sub, d) \subseteq From(list, d)
  OBVIOUS
<1>5. ASSUME d \in list PROVE Cardinality(From(list, d)) # 0
  <2>1. d \in From(list, d)
    BY <1>5
  <2> QED  BY <1>2, <2>1, FS_EmptySet
<1> HIDE DEF From
<1>6. \A e \in Int : d <= e =>
        Cardinality(From(list, e)) <= Cardinality(From(list, d))
  BY <1>2, <1>3, FS_Subset
<1>7. \A sub \in SUBSET list :
        Cardinality(From(sub, d)) <= Cardinality(From(list, d))
  BY <1>2, <1>4, FS_Subset
<1>8. IsFiniteSet(From(list, d)) /\ Cardinality(From(list, d)) \in Nat
  BY <1>2
<1>9. d \in list => Cardinality(From(list, d)) >= 1
  BY <1>5, <1>8
<1> QED  BY <1>6, <1>7, <1>8, <1>9 DEF From, RankIn

LEMMA ListRanks ==
  ASSUME NEW v, GoodView(v), NEW d \in v.list
  PROVE  /\ d \in Int /\ d \in Nat
         /\ RankIn(v.list, d) \in Nat /\ RankIn(v.list, d) >= 1
<1>1. /\ v.today \in Nat /\ v.list \in SUBSET (1..v.today)
      /\ d \in Int /\ d \in Nat
  BY DEF GoodView
<1> QED  BY <1>1, RankFacts

\* Ranks leave no gap: when none follows the first k, there are only k.
LEMMA RanksHaveNoGap ==
  ASSUME NEW t \in Nat, NEW list \in SUBSET (1..t), NEW k \in Nat,
         \A d \in list : RankIn(list, d) # k + 1
  PROVE  \A d \in list : RankIn(list, d) <= k
<1> DEFINE Beyond == {d \in list : RankIn(list, d) > k}
           Ranks == {RankIn(list, d) : d \in Beyond}
<1>1. \A d \in list : d \in Int /\ d \in Nat
  OBVIOUS
<1>2. \A d \in list : RankIn(list, d) \in Nat
  BY <1>1, RankFacts
<1> SUFFICES ASSUME Beyond # {} PROVE FALSE
  BY <1>2
<1>3. PICK d \in Beyond : \A e \in Beyond : RankIn(list, d) <= RankIn(list, e)
  <2>1. Ranks \in SUBSET Nat /\ Ranks # {}
    BY <1>2
  <2>2. PICK n \in Ranks : \A m \in Ranks : n <= m
    <3> HIDE DEF Ranks
    <3> QED  BY <2>1, LeastElement
  <2> QED  BY <2>2
<1> DEFINE Newer == {e \in list : e > d}
<1>4. d \in list /\ d \in Int /\ RankIn(list, d) > k
  BY <1>1, <1>3
<1>5. IsFiniteSet(Newer) /\ Cardinality(Newer) \in Nat
  <2>1. \A e \in Newer : e \in list /\ e >= d
    BY <1>1, <1>4
  <2>2. IsFiniteSet({e \in list : e >= d})
    BY <1>4, RankFacts
  <2>3. Newer \subseteq {e \in list : e >= d}
    BY <2>1
  <2> QED  BY <2>2, <2>3, FS_Subset, FS_CardinalityType
<1>6. RankIn(list, d) = Cardinality(Newer) + 1
  <2>1. d \notin Newer
    BY <1>4
  <2>2. ASSUME NEW e \in list PROVE e >= d <=> e \in Newer \/ e = d
    BY <1>1, <1>4
  <2>3. {e \in list : e >= d} = Newer \cup {d}
    BY <1>4, <2>2
  <2> HIDE DEF Newer
  <2> QED  BY <1>5, <2>1, <2>3, FS_AddElement DEF RankIn
<1>7. Cardinality(Newer) > k
  BY <1>2, <1>4, <1>5, <1>6
<1>8. Newer # {}
  BY <1>7, FS_EmptySet
<1>9. PICK m \in Newer : \A e \in Newer : m <= e
  <2>1. Newer \in SUBSET Nat
    BY <1>1
  <2> HIDE DEF Newer
  <2> QED  BY <1>8, <2>1, LeastElement
<1>10. RankIn(list, m) = Cardinality(Newer)
  <2>1. {e \in list : e >= m} = Newer
    <3>1. m \in Int /\ m > d
      BY <1>1, <1>9
    <3>2. ASSUME NEW e \in list PROVE e >= m <=> e \in Newer
      BY <1>1, <1>4, <1>9, <3>1
    <3> QED  BY <3>2
  <2> QED  BY <2>1 DEF RankIn
<1>11. m \in Beyond /\ RankIn(list, m) < RankIn(list, d)
  BY <1>5, <1>6, <1>7, <1>10
<1> QED  BY <1>2, <1>3, <1>4, <1>11

-----------------------------------------------------------------------------
(* What is known stays known *)

LEMMA UndoneKept ==
  ASSUME CollectionAssumption, NEW v, NEW u, GoodView(v), GoodView(u),
         Later(v, u), NEW a \in Int, a <= v.today
  PROVE  Undone(u, a) \subseteq Undone(v, a)
<1> SUFFICES ASSUME NEW d \in Undone(u, a) PROVE d \in Undone(v, a)
  OBVIOUS
<1>1. /\ d \in u.list /\ u.today - Window <= d /\ d <= a /\ d \notin u.done
      /\ d \in Nat /\ v.today \in Nat /\ u.today \in Nat /\ Window \in Nat
  BY DEF Undone, GoodView, CollectionAssumption
<1>2. d \in v.list
  BY <1>1 DEF Later
<1>3. v.today - Window <= d
  BY <1>1 DEF Later
<1>4. d \notin v.done
  BY <1>1 DEF Later
<1> QED  BY <1>1, <1>2, <1>3, <1>4 DEF Undone

LEMMA CoversKept ==
  ASSUME NEW v, NEW u, GoodView(v), GoodView(u), Later(v, u),
         NEW asOf \in Int, asOf <= v.today, NEW k \in Int, NEW left,
         Covers(v, asOf, k, left)
  PROVE  Covers(u, asOf, k, left)
<1> SUFFICES ASSUME NEW d \in u.list, RankIn(u.list, d) <= k, InWindow(d, asOf)
             PROVE  d \in u.done \cup left
  BY DEF Covers
<1>1. d \in Int /\ u.list \in SUBSET (1..u.today) /\ u.today \in Nat
  BY DEF GoodView
<1>2. d \in v.list
  <2>1. d <= asOf /\ v.today \in Nat
    BY DEF InWindow, GoodView
  <2> QED  BY <1>1, <2>1 DEF Later
<1>3. v.list \in SUBSET u.list
  BY DEF Later
<1>4. RankIn(v.list, d) <= RankIn(u.list, d) /\ RankIn(u.list, d) \in Nat
  BY <1>1, <1>3, RankFacts
<1>5. RankIn(v.list, d) \in Nat
  BY <1>1, RankFacts DEF GoodView
<1>6. d \in v.done \cup left
  BY <1>2, <1>4, <1>5 DEF Covers
<1> QED  BY <1>6 DEF Later

LEMMA RowKept ==
  ASSUME CollectionAssumption, NEW v, NEW u, GoodView(v), GoodView(u),
         Later(v, u), NEW asOf \in Nat, asOf <= v.today, NEW c \in PageRow,
         RowKnows(c, v, asOf)
  PROVE  RowKnows(c, u, asOf)
<1> DEFINE k == IF c.complete THEN PagesUpTo(c.page) ELSE PagesBefore(c.page)
<1>1. k \in Int
  BY DEF PageRow, PagesUpTo, PagesBefore, CollectionAssumption
<1>2. Covers(v, asOf, k, {})
  BY DEF RowKnows
<1>3. Covers(u, asOf, k, {})
  <2> HIDE DEF k
  <2> QED  BY <1>1, <1>2, CoversKept
<1>4. Undone(v, asOf) = {} => Undone(u, asOf) = {}
  BY UndoneKept
<1> QED  BY <1>3, <1>4 DEF RowKnows

LEMMA WorkerKept ==
  ASSUME CollectionAssumption, NEW v, NEW u, GoodView(v), GoodView(u),
         Later(v, u), NEW asOf \in Nat, asOf <= v.today, NEW w \in Worker,
         WorkerKnows(w, v, asOf)
  PROVE  WorkerKnows(w, u, asOf)
<1>1. /\ PagesBefore(w.page) \in Int /\ PagesUpTo(w.page) \in Int
      /\ w.previous \in Int /\ w.previous <= v.today /\ v.today \in Nat
      /\ u.today \in Nat /\ v.today <= u.today
  BY DEF Worker, PagesUpTo, PagesBefore, CollectionAssumption, Anchor, Day,
         NoReview, WorkerKnows, GoodView, Later
<1>2. Undone(u, w.previous) \subseteq Undone(v, w.previous)
  BY <1>1, UndoneKept
<1>3. Undone(u, asOf) \subseteq Undone(v, asOf)
  BY UndoneKept
<1>4. \A k \in Int : \A left :
        Covers(v, asOf, k, left) => Covers(u, asOf, k, left)
  BY CoversKept
<1>5. ASSUME NEW t \in PageLeft(w), NEW d \in u.list, t <= d, InWindow(d, asOf)
      PROVE  d \in u.done \cup PageLeft(w)
  <2>1. d \in v.list
    <3>1. d <= asOf /\ v.today \in Nat /\ d \in Int
      BY <1>5 DEF InWindow, GoodView
    <3> QED  BY <3>1 DEF Later
  <2>2. d \in v.done \cup PageLeft(w)
    BY <1>5, <2>1 DEF WorkerKnows
  <2> QED  BY <2>2 DEF Later
<1>6. w.previous <= u.today
  BY <1>1
<1> QED  BY <1>1, <1>2, <1>3, <1>4, <1>5, <1>6 DEF WorkerKnows

-----------------------------------------------------------------------------
(* What a pass learns *)

\* Before the first page nothing has to be known.
LEMMA NoPageKnows ==
  ASSUME CollectionAssumption, NEW v, GoodView(v), NEW asOf \in Nat
  PROVE  RowKnows(NoPage, v, asOf)
<1>1. /\ NoPage.page = 0 /\ NoPage.complete = TRUE /\ NoPage.anchor = 0
      /\ NoPage.anchorSeen = FALSE
  BY DEF NoPage, PartialPage, NoReview
<1>2. PagesUpTo(0) = 0
  BY DEF PagesUpTo, CollectionAssumption
<1>3. \A d \in v.list : RankIn(v.list, d) \in Nat /\ RankIn(v.list, d) >= 1
  BY ListRanks
<1>4. Covers(v, asOf, 0, {})
  BY <1>3 DEF Covers
<1> QED  BY <1>1, <1>2, <1>4 DEF RowKnows

\* A process that knows w's page as well as w does.
LEMMA SameKnowledge ==
  ASSUME NEW v, NEW asOf, NEW w, NEW x, WorkerKnows(w, v, asOf),
         x.anchor = w.anchor, x.previous = w.previous, x.page = w.page,
         AnchorReached(x) => AnchorReached(w),
         ListEnded(x) => ListEnded(w),
         x.pc \in InPage => w.pc \in InPage, PageLeft(x) = PageLeft(w)
  PROVE  WorkerKnows(x, v, asOf)
BY DEF WorkerKnows

\* Review d of the page was dealt with.
LEMMA HandledKnows ==
  ASSUME NEW v, NEW asOf \in Nat, NEW w, NEW x, NEW d, GoodView(v),
         CollectionAssumption, asOf <= v.today, WorkerKnows(w, v, asOf),
         w.pc \in {"protect", "sealed"}, x.pc = "protect",
         w.todo \in SUBSET Nat, Newest(d, w.todo), d \in v.done,
         x.todo = w.todo \ {d},
         x.previous = w.previous, x.page = w.page, x.boundary = w.boundary,
         x.anchor \in {w.anchor, d},
         AnchorReached(x) => AnchorReached(w) \/ d = w.previous
  PROVE  WorkerKnows(x, v, asOf)
<1>1. /\ PageLeft(w) = w.todo /\ PageLeft(x) = w.todo \ {d}
      /\ w.pc \in InPage /\ x.pc \in InPage
  BY DEF PageLeft, InPage
<1>2. d \in w.todo /\ d \in Nat /\ \A e \in w.todo : e <= d
  BY DEF Newest
<1>3. x.anchor <= asOf
  BY <1>1, <1>2 DEF WorkerKnows
<1>4. \A k : Covers(v, asOf, k, w.todo) => Covers(v, asOf, k, w.todo \ {d})
  BY DEF Covers
<1>5. ListEnded(x) = ListEnded(w)
  BY DEF ListEnded
<1>6. Undone(v, asOf) \subseteq w.todo
        => Undone(v, asOf) \subseteq w.todo \ {d}
  BY DEF Undone
<1>7. ASSUME d = w.previous PROVE Undone(v, asOf) = {}
  <2> SUFFICES ASSUME NEW e \in Undone(v, asOf) PROVE FALSE
    OBVIOUS
  <2>1. /\ e \in v.list /\ e \in Nat /\ v.today - Window <= e /\ e <= asOf
        /\ e \notin v.done
    BY DEF Undone, GoodView
  <2>2. CASE e <= d
    <3>1. e \in Undone(v, w.previous)
      BY <1>7, <2>1, <2>2 DEF Undone
    <3> QED  BY <3>1 DEF WorkerKnows
  <2>3. CASE d <= e
    <3>1. InWindow(e, asOf)
      BY <2>1 DEF InWindow, GoodView, CollectionAssumption
    <3>2. e \in v.done \cup w.todo
      BY <1>1, <1>2, <2>1, <2>3, <3>1 DEF WorkerKnows
    <3>3. e = d
      BY <1>2, <2>1, <2>3, <3>2
    <3> QED  BY <2>1, <3>3
  <2> QED  BY <1>2, <2>1, <2>2, <2>3
<1>8. AnchorReached(x) => Undone(v, asOf) \subseteq w.todo \ {d}
  BY <1>1, <1>6, <1>7 DEF WorkerKnows
<1>9. /\ Covers(v, asOf, PagesUpTo(x.page), w.todo \ {d})
      /\ ListEnded(x) => Undone(v, asOf) \subseteq w.todo \ {d}
  BY <1>1, <1>4, <1>5, <1>6 DEF WorkerKnows
<1>10. ASSUME NEW t \in w.todo \ {d}
       PROVE  /\ t <= asOf
              /\ \A e \in v.list :
                   t <= e /\ InWindow(e, asOf)
                     => e \in v.done \cup (w.todo \ {d})
  BY <1>1 DEF WorkerKnows
<1>11. /\ x.previous <= v.today /\ Undone(v, x.previous) = {}
       /\ Covers(v, asOf, PagesBefore(x.page), {})
  BY DEF WorkerKnows
<1> QED  BY <1>1, <1>3, <1>8, <1>9, <1>10, <1>11 DEF WorkerKnows

\* A page was read.  What it has left of the window is all that can be missing
\* before it; when it is the last one, all that can be missing at all.
LEMMA PageKnows ==
  ASSUME CollectionAssumption, NEW v, NEW asOf \in Nat, NEW w \in Worker,
         NEW x, GoodView(v), asOf <= v.today, WorkerKnows(w, v, asOf),
         w.pc = "read",
         x.pc = "protect", x.anchor = w.anchor, x.previous = w.previous,
         x.page = w.page, x.mode = w.mode, x.anchorSeen = w.anchorSeen,
         NEW items, NEW next,
         items = {d \in v.list : RankIn(v.list, d) \in
                    (PagesBefore(w.page) + 1)..PagesUpTo(w.page)},
         next = {d \in v.list : RankIn(v.list, d) \in
                    (PagesUpTo(w.page) + 1)..(PagesUpTo(w.page) + PageSize)},
         \A d \in items : ~ (d > asOf),
         x.todo = {d \in items : d >= asOf - Window},
         ListEnded(x) => x.todo # items \/ next = {}
  PROVE  WorkerKnows(x, v, asOf)
<1> DEFINE m == PagesBefore(w.page)
           n == PagesUpTo(w.page)
           rank(d) == RankIn(v.list, d)
<1>1. /\ m \in Int /\ n \in Nat /\ w.page \in Nat
      /\ PageSize \in Nat /\ PageSize > 0 /\ Window \in Nat
      /\ v.today \in Nat
  BY DEF Worker, PagesUpTo, PagesBefore, CollectionAssumption, GoodView
<1>2. \A d \in v.list : d \in Int /\ rank(d) \in Nat
  BY ListRanks
<1>3. \A d, e \in v.list : d <= e => rank(e) <= rank(d)
  BY <1>2, RankFacts DEF GoodView
<1>4. /\ PageLeft(x) = x.todo /\ PageLeft(w) = {} /\ x.pc \in InPage
      /\ AnchorReached(x) = AnchorReached(w)
  BY DEF PageLeft, InPage, AnchorReached
<1>5. Covers(v, asOf, m, {})
  BY DEF WorkerKnows
<1> HIDE DEF m, n, rank
<1>6. ASSUME NEW d \in v.list, InWindow(d, asOf), rank(d) <= n
      PROVE  d \in v.done \cup x.todo
  <2>1. CASE rank(d) <= m
    BY <1>5, <1>6, <2>1 DEF Covers, rank
  <2>2. CASE rank(d) > m
    <3>1. rank(d) \in (m + 1)..n
      BY <1>1, <1>2, <1>6, <2>2
    <3>2. d \in items
      BY <3>1 DEF m, n, rank
    <3>3. d >= asOf - Window
      BY <1>1, <1>2, <1>6 DEF InWindow
    <3> QED  BY <3>2, <3>3
  <2> QED  BY <1>1, <1>2, <2>1, <2>2
<1>7. \A t \in items : t \in v.list /\ rank(t) <= n
  BY <1>1, <1>2 DEF m, n, rank
<1>8. ASSUME NEW t \in x.todo
      PROVE  /\ t <= asOf
             /\ \A d \in v.list :
                  t <= d /\ InWindow(d, asOf) => d \in v.done \cup x.todo
  <2>1. t \in items /\ t \in v.list /\ t \in Int /\ rank(t) <= n
    BY <1>2, <1>7
  <2>2. t <= asOf
    BY <2>1
  <2>3. ASSUME NEW d \in v.list, t <= d, InWindow(d, asOf)
        PROVE  d \in v.done \cup x.todo
    BY <1>1, <1>2, <1>3, <1>6, <2>1, <2>3
  <2> QED  BY <2>2, <2>3
<1>9. ASSUME ListEnded(x) PROVE Undone(v, asOf) \subseteq x.todo
  <2> SUFFICES ASSUME NEW d \in Undone(v, asOf) PROVE d \in x.todo
    OBVIOUS
  <2>1. /\ d \in v.list /\ d \in Int /\ v.today - Window <= d /\ d <= asOf
        /\ d \notin v.done
    BY <1>2 DEF Undone
  <2>2. InWindow(d, asOf)
    BY <1>1, <2>1 DEF InWindow
  <2>3. rank(d) <= n
    <3>1. CASE x.todo # items
      <4>1. PICK i \in items : ~ (i >= asOf - Window)
        BY <3>1
      <4>2. i \in v.list /\ i \in Int /\ rank(i) <= n /\ i <= d
        BY <1>1, <1>2, <1>7, <2>1, <2>2, <4>1 DEF InWindow
      <4> QED  BY <1>1, <1>2, <1>3, <2>1, <4>2
    <3>2. CASE next = {}
      <4>1. \A e \in v.list : rank(e) # n + 1
        BY <1>1, <3>2 DEF n, rank
      <4> QED  BY <1>1, <2>1, <4>1, RanksHaveNoGap DEF rank, GoodView
    <3> QED  BY <1>9, <3>1, <3>2
  <2> QED  BY <1>6, <2>1, <2>2, <2>3
<1>10. Covers(v, asOf, n, x.todo)
  BY <1>6 DEF Covers, rank
<1>11. AnchorReached(x) => Undone(v, asOf) \subseteq x.todo
  BY <1>4 DEF WorkerKnows
<1>12. /\ x.anchor <= asOf /\ x.previous <= v.today
       /\ Undone(v, x.previous) = {}
       /\ Covers(v, asOf, PagesBefore(x.page), {})
  BY DEF WorkerKnows
<1> QED
  BY <1>4, <1>8, <1>9, <1>10, <1>11, <1>12 DEF WorkerKnows, n

\* A pass is opened at the page after the last row, with what the last
\* complete one says.
LEMMA OpenKnows ==
  ASSUME CollectionAssumption, NEW v, NEW asOf \in Nat, GoodView(v),
         NEW latest \in PageRow, NEW c \in PageRow, NEW x,
         RowKnows(latest, v, asOf), RowKnows(c, v, asOf),
         x.pc = "read", x.page = ResumePage(latest),
         x.mode = "INCREMENTAL" => c.mode \in {"INCREMENTAL", "none"},
         x.anchorSeen = c.anchorSeen, x.anchor = c.anchor,
         x.previous <= v.today, Undone(v, x.previous) = {}
  PROVE  WorkerKnows(x, v, asOf)
<1>1. PageLeft(x) = {} /\ x.pc \notin InPage
  BY DEF PageLeft, InPage
<1>2. latest.page \in Nat /\ latest.complete \in BOOLEAN
  BY DEF PageRow
<1>3. Covers(v, asOf, PagesBefore(x.page), {})
  <2>1. CASE latest.complete
    <3>1. PagesBefore(x.page) = PagesUpTo(latest.page)
      <4>1. x.page = latest.page + 1
        BY <2>1 DEF ResumePage
      <4>2. x.page - 1 = latest.page
        BY <1>2, <4>1
      <4> QED  BY <4>2 DEF PagesBefore, PagesUpTo
    <3> QED  BY <2>1, <3>1 DEF RowKnows
  <2>2. CASE ~latest.complete
    BY <2>2 DEF RowKnows, ResumePage
  <2> QED  BY <2>1, <2>2
<1>4. AnchorReached(x) => Undone(v, asOf) \subseteq PageLeft(x)
  BY <1>1 DEF RowKnows, AnchorReached
<1> QED  BY <1>1, <1>3, <1>4 DEF WorkerKnows, RowKnows

\* The row of a page that was completed, and of one that was not.
LEMMA RowsOfPage ==
  ASSUME NEW v, NEW asOf \in Nat, NEW w \in Worker, NEW mode,
         WorkerKnows(w, v, asOf)
  PROVE  /\ RowKnows(PartialPage(w.page), v, asOf)
         /\ w.pc \in InPage /\ PageLeft(w) = {}
              /\ (mode = w.mode \/ ~w.anchorSeen)
              => RowKnows([page |-> w.page, complete |-> TRUE, mode |-> mode,
                           anchorSeen |-> w.anchorSeen, anchor |-> w.anchor],
                          v, asOf)
<1>1. RowKnows(PartialPage(w.page), v, asOf)
  <2>1. /\ PartialPage(w.page).anchor = 0
        /\ PartialPage(w.page).anchorSeen = FALSE
        /\ PartialPage(w.page).complete = FALSE
        /\ PartialPage(w.page).page = w.page
    BY DEF PartialPage, NoReview
  <2> QED  BY <2>1 DEF WorkerKnows, RowKnows
<1>2. ASSUME w.pc \in InPage, PageLeft(w) = {}, mode = w.mode \/ ~w.anchorSeen,
             NEW c,
             c = [page |-> w.page, complete |-> TRUE, mode |-> mode,
                  anchorSeen |-> w.anchorSeen, anchor |-> w.anchor]
      PROVE  RowKnows(c, v, asOf)
  <2>1. /\ c.page = w.page /\ c.complete = TRUE /\ c.mode = mode
        /\ c.anchorSeen = w.anchorSeen /\ c.anchor = w.anchor
    BY <1>2
  <2>2. w.mode \in Modes /\ w.mode # "none"
    BY DEF Worker, Modes
  <2>3. w.anchor <= asOf /\ Covers(v, asOf, PagesUpTo(w.page), {})
    BY <1>2 DEF WorkerKnows
  <2>4. ASSUME w.anchorSeen, mode \in {"INCREMENTAL", "none"}
        PROVE  Undone(v, asOf) = {}
    <3>1. AnchorReached(w)
      BY <1>2, <2>2, <2>4 DEF AnchorReached
    <3> QED  BY <1>2, <3>1 DEF WorkerKnows
  <2> QED  BY <2>1, <2>3, <2>4 DEF RowKnows
<1> QED  BY <1>1, <1>2
-----------------------------------------------------------------------------
(* Steps *)

\* What a step may do to a run: begin it, or go on with it.
RunKept(r) ==
  \/ /\ run'[r].asOf = run[r].asOf
     /\ run'[r].status = "NONE" <=> run[r].status = "NONE"
  \/ /\ run[r].status = "NONE" /\ run'[r].status # "NONE"
     /\ run'[r].asOf = today

\* What a step may do to a process.
WorkerNext(w) ==
  /\ w.pc # "idle" => run'[w.run].status # "NONE"
  /\ w.pc \in Reading => WorkerKnows(w, NextView(w.store), run'[w.run].asOf)

\* What a step may do to the pages of a store.
RowsNext(r, s) ==
  \A c \in pageCheckpoint'[r][s] :
    \/ c \in pageCheckpoint[r][s]
    \/ run[r].status # "NONE" /\ RowKnows(c, NextView(s), run[r].asOf)

\* What a step may do to an anchor.
AnchorNext(s) ==
  \/ sync'[s].anchor = sync[s].anchor
  \/ /\ sync'[s].anchor <= today'
     /\ Undone(NextView(s), sync'[s].anchor) = {}

ViewsNext ==
  /\ today <= today'
  /\ \A s \in Store : GoodView(NextView(s)) /\ Later(ViewOf(s), NextView(s))

LEMMA ViewFields ==
  ASSUME NEW s
  PROVE  /\ ViewOf(s).today = today /\ ViewOf(s).list = listing[s]
         /\ ViewOf(s).done = seen[s] \cup Pii[s]
         /\ NextView(s).today = today' /\ NextView(s).list = listing'[s]
         /\ NextView(s).done = seen'[s] \cup Pii[s]
BY DEF ViewOf, NextView

LEMMA GoodNow ==
  ASSUME CollectionAssumption, AnchorInv, NEW s \in Store
  PROVE  GoodView(ViewOf(s)) /\ today \in Nat
<1>1. today \in Nat
  BY DEF AnchorInv, TypeInv, TypeOK, CollectionAssumption
<1>2. listing[s] \subseteq 1..today
  BY DEF AnchorInv, StoresOK
<1> QED  BY <1>1, <1>2, ViewFields DEF GoodView

\* The invariant is kept by a step that does no more than that.
LEMMA AnchorFrame ==
  ASSUME CollectionAssumption, AnchorInv, TypeInv', ViewsNext,
         \A r \in Run : RunKept(r),
         \A r \in Run, s \in Store : RowsNext(r, s),
         \A s \in Store : AnchorNext(s),
         \A q \in Proc : worker'[q] = worker[q] \/ WorkerNext(worker'[q])
  PROVE  AnchorInv'
<1>1. today \in Nat /\ today' \in Nat /\ today <= today'
  BY DEF ViewsNext, AnchorInv, TypeInv, TypeOK, CollectionAssumption
<1>2. \A s \in Store : /\ GoodView(ViewOf(s)) /\ GoodView(NextView(s))
                       /\ Later(ViewOf(s), NextView(s))
                       /\ ViewOf(s).today = today
  BY GoodNow, ViewFields DEF ViewsNext
<1>3. \A r \in Run : run[r].asOf \in Nat /\ run[r].asOf <= today
  BY DEF AnchorInv, RunsBegan, TypeInv, TypeOK, RunRow, CollectionAssumption
<1>4. ASSUME NEW r \in Run
      PROVE  /\ run'[r].asOf <= today'
             /\ run'[r].status = "NONE" => run[r].status = "NONE"
             /\ run[r].status # "NONE" => run'[r].asOf = run[r].asOf
  <2>1. run'[r].asOf = run[r].asOf \/ run'[r].asOf = today
    BY DEF RunKept
  <2>2. run'[r].asOf <= today'
    BY <1>1, <1>3, <2>1
  <2> QED  BY <2>2 DEF RunKept
<1>5. ASSUME NEW s \in Store
      PROVE  /\ listing'[s] \subseteq 1..today'
             /\ sync'[s].anchor <= today'
             /\ Undone(NextView(s), sync'[s].anchor) = {}
  <2>1. listing'[s] \subseteq 1..today'
    BY <1>2, ViewFields DEF GoodView
  <2>2. sync[s].anchor <= today /\ Undone(ViewOf(s), sync[s].anchor) = {}
    BY DEF AnchorInv, StoresOK
  <2>3. sync[s].anchor \in Int
    BY DEF AnchorInv, TypeInv, TypeOK, SyncState, Anchor, Day, NoReview
  <2>4. Undone(NextView(s), sync[s].anchor) = {}
    BY <1>2, <2>2, <2>3, UndoneKept
  <2>5. CASE sync'[s].anchor = sync[s].anchor
    BY <1>1, <2>1, <2>2, <2>3, <2>4, <2>5
  <2> QED  BY <2>1, <2>5 DEF AnchorNext
<1>6. ASSUME NEW r \in Run, NEW s \in Store
      PROVE  /\ run'[r].status = "NONE" => pageCheckpoint'[r][s] = {}
             /\ \A c \in pageCheckpoint'[r][s] :
                  RowKnows(c, NextView(s), run'[r].asOf)
  <2>1. RowsNext(r, s)
    OBVIOUS
  <2>2. run[r].status = "NONE" => pageCheckpoint[r][s] = {}
    BY DEF AnchorInv, RowsOK
  <2>3. ASSUME NEW c \in pageCheckpoint'[r][s] PROVE run[r].status # "NONE"
    BY <2>1, <2>2, <2>3 DEF RowsNext
  <2>4. ASSUME NEW c \in pageCheckpoint'[r][s]
        PROVE  RowKnows(c, NextView(s), run'[r].asOf)
    <3>1. run'[r].asOf = run[r].asOf
      BY <1>4, <2>3, <2>4
    <3>2. CASE c \in pageCheckpoint[r][s]
      <4>1. c \in PageRow
        BY <3>2 DEF AnchorInv, TypeInv, TypeOK
      <4>2. RowKnows(c, ViewOf(s), run[r].asOf)
        BY <3>2 DEF AnchorInv, RowsOK
      <4> QED  BY <1>2, <1>3, <3>1, <4>1, <4>2, RowKept
    <3> QED  BY <2>1, <2>4, <3>1, <3>2 DEF RowsNext
  <2> QED  BY <1>4, <2>3, <2>4
<1>7. ASSUME NEW q \in Proc PROVE WorkerNext(worker'[q])
  <2> DEFINE w == worker[q]
  <2> SUFFICES ASSUME worker'[q] = w PROVE WorkerNext(w)
    OBVIOUS
  <2>1. w \in Worker /\ WorkerOK(w)
    BY WorkerTyped DEF AnchorInv
  <2>2. /\ w.pc # "idle" => run[w.run].status # "NONE"
        /\ w.pc \in Reading
             => WorkerKnows(w, ViewOf(w.store), run[w.run].asOf)
    BY DEF AnchorInv, WorkersOK
  <2> HIDE DEF w
  <2>3. w.pc # "idle" => w.run \in Run
    BY <2>1 DEF WorkerOK
  <2>4. ASSUME w.pc \in Reading
        PROVE  WorkerKnows(w, NextView(w.store), run'[w.run].asOf)
    <3>1. w.pc # "idle" /\ w.store \in Store
      BY <2>1, <2>4 DEF WorkerOK, Reading, InPage
    <3>2. run'[w.run].asOf = run[w.run].asOf
      BY <1>4, <2>2, <2>3, <3>1
    <3> QED  BY <1>2, <1>3, <2>1, <2>2, <2>3, <2>4, <3>1, <3>2, WorkerKept
  <2> QED  BY <1>4, <2>2, <2>3, <2>4 DEF WorkerNext
<1>8. StoresOK'
  BY <1>5 DEF StoresOK, ViewOf, NextView
<1>9. RowsOK'
  BY <1>6 DEF RowsOK, ViewOf, NextView
<1>10. WorkersOK'
  BY <1>7 DEF WorkersOK, WorkerNext, ViewOf, NextView
<1>11. RunsBegan'
  BY <1>4 DEF RunsBegan
<1> QED  BY <1>8, <1>9, <1>10, <1>11 DEF AnchorInv

\* A step that leaves the provider alone and forgets no review.
LEMMA SameViews ==
  ASSUME CollectionAssumption, AnchorInv, UNCHANGED provider,
         \A s \in Store : seen[s] \subseteq seen'[s]
  PROVE  ViewsNext
<1>1. today' = today /\ listing' = listing
  BY DEF provider
<1>2. today \in Nat
  BY DEF AnchorInv, TypeInv, TypeOK, CollectionAssumption
<1>3. ASSUME NEW s \in Store
      PROVE  GoodView(NextView(s)) /\ Later(ViewOf(s), NextView(s))
  <2>1. GoodView(ViewOf(s))
    BY <1>3, GoodNow
  <2>2. /\ NextView(s).today = ViewOf(s).today
        /\ NextView(s).list = ViewOf(s).list
        /\ ViewOf(s).done \subseteq NextView(s).done
    BY <1>1, <1>3, ViewFields
  <2> QED  BY <2>1, <2>2 DEF GoodView, Later
<1> QED  BY <1>1, <1>2, <1>3 DEF ViewsNext

\* No row and no anchor is written.
LEMMA QuietTables ==
  ASSUME UNCHANGED <<pageCheckpoint, sync>>
  PROVE  /\ \A r \in Run, s \in Store : RowsNext(r, s)
         /\ \A s \in Store : AnchorNext(s)
BY DEF RowsNext, AnchorNext

\* Only process p goes on.
LEMMA OthersStay ==
  ASSUME AnchorInv, NEW p \in Proc, NEW v, Becomes(p, v), WorkerNext(v)
  PROVE  \A q \in Proc : worker'[q] = worker[q] \/ WorkerNext(worker'[q])
<1>1. worker \in [Proc -> Worker]
  BY DEF AnchorInv, TypeInv, TypeOK
<1>2. \A q \in Proc : worker'[q] = IF q = p THEN v ELSE worker[q]
  BY <1>1 DEF Becomes
<1> QED  BY <1>2

\* A process goes on outside the pages of a store.
LEMMA OutsideStep ==
  ASSUME CollectionAssumption, AnchorInv, TypeInv', NEW p \in Proc, NEW v,
         Becomes(p, v), v.pc \notin Reading,
         v.pc # "idle" => run'[v.run].status # "NONE",
         UNCHANGED <<provider, seen, sync, pageCheckpoint>>,
         \A r \in Run : RunKept(r)
  PROVE  AnchorInv'
<1>1. ViewsNext
  BY SameViews
<1>2. WorkerNext(v)
  BY DEF WorkerNext
<1> QED  BY <1>1, <1>2, QuietTables, OthersStay, AnchorFrame

\* A process goes on in the page of its store.
LEMMA ReadingStep ==
  ASSUME CollectionAssumption, AnchorInv, TypeInv', NEW p \in Proc, NEW v,
         worker[p].pc # "idle", Becomes(p, v), v.run = worker[p].run,
         v.pc \in Reading => WorkerKnows(v, ViewOf(v.store), run[v.run].asOf),
         UNCHANGED <<provider, run, seen, sync, pageCheckpoint>>
  PROVE  AnchorInv'
<1>1. ViewsNext
  BY SameViews
<1>2. WorkerNext(v)
  <2>1. run[v.run].status # "NONE"
    BY DEF AnchorInv, WorkersOK
  <2>2. NextView(v.store) = ViewOf(v.store)
    BY DEF NextView, ViewOf, provider
  <2> QED  BY <2>1, <2>2 DEF WorkerNext
<1>3. \A r \in Run : RunKept(r)
  BY DEF RunKept
<1> QED  BY <1>1, <1>2, <1>3, QuietTables, OthersStay, AnchorFrame

\* A process writes a row of the page it is in.
LEMMA PageStep ==
  ASSUME CollectionAssumption, AnchorInv, TypeInv', NEW p \in Proc, NEW v,
         NEW row,
         worker[p].pc \in Reading, PutPage(worker[p], row), Becomes(p, v),
         v.run = worker[p].run, v.store = worker[p].store,
         v.pc \in Reading,
         \A s \in Store : seen[s] \subseteq seen'[s],
         WorkerKnows(v, NextView(v.store), run[v.run].asOf),
         RowKnows(row, NextView(v.store), run[v.run].asOf),
         UNCHANGED <<provider, run, sync>>
  PROVE  AnchorInv'
<1>1. ViewsNext
  BY SameViews
<1>2. run[v.run].status # "NONE"
  BY DEF AnchorInv, WorkersOK, Reading, InPage
<1>3. WorkerNext(v)
  BY <1>2 DEF WorkerNext
<1>4. \A r \in Run : RunKept(r)
  BY DEF RunKept
<1>5. \A s \in Store : AnchorNext(s)
  BY DEF AnchorNext
<1>6. ASSUME NEW r \in Run, NEW s \in Store PROVE RowsNext(r, s)
  <2> DEFINE w == worker[p]
             new == {c \in pageCheckpoint[w.run][w.store] : c.page # row.page}
                      \cup {row}
  <2>1. w.run \in Run /\ w.store \in Store
    BY WorkerTyped DEF AnchorInv, WorkerOK, Reading, InPage
  <2>2. pageCheckpoint \in [Run -> [Store -> SUBSET PageRow]]
    BY DEF AnchorInv, TypeInv, TypeOK
  <2>3. pageCheckpoint'[r][s] = IF r = w.run /\ s = w.store THEN new
                                ELSE pageCheckpoint[r][s]
    BY <2>1, <2>2 DEF PutPage
  <2>4. new \subseteq pageCheckpoint[w.run][w.store] \cup {row}
    OBVIOUS
  <2> HIDE DEF new
  <2> QED  BY <1>2, <2>3, <2>4 DEF RowsNext
<1> QED  BY <1>1, <1>3, <1>4, <1>5, <1>6, OthersStay, AnchorFrame

-----------------------------------------------------------------------------
(* The provider, the operator and the loop over the stores *)

\* A review of a later day is the only thing that may happen to a list.
LEMMA ProviderKeeps ==
  ASSUME CollectionAssumption, ListGrows, AnchorInv, TypeInv', Provider
  PROVE  AnchorInv'
<1>1. PICK s \in Store : Post(s)
  BY DEF Provider, ListGrows, Hide, Reveal
<1>2. /\ today' = today + 1
      /\ listing' = [listing EXCEPT ![s] = listing[s] \cup {today + 1}]
      /\ UNCHANGED <<run, progress, reviews, worker>>
  BY <1>1 DEF Post
<1>3. today \in Nat /\ today' \in Nat /\ today < today' /\ today <= today'
  BY <1>2, GoodNow
<1>4. listing \in [Store -> SUBSET Day]
  BY DEF AnchorInv, TypeInv, TypeOK
<1>5. ASSUME NEW t \in Store
      PROVE  GoodView(NextView(t)) /\ Later(ViewOf(t), NextView(t))
  <2>1. /\ listing[t] \subseteq listing'[t]
        /\ listing'[t] \subseteq listing[t] \cup {today'}
    BY <1>2, <1>4
  <2>2. listing[t] \subseteq 1..today
    BY DEF AnchorInv, StoresOK
  <2>3. listing'[t] \subseteq 1..today'
    <3> SUFFICES ASSUME NEW d \in listing'[t] PROVE d \in 1..today'
      OBVIOUS
    <3>1. d \in 1..today \/ d = today'
      BY <2>1, <2>2
    <3> QED  BY <1>2, <1>3, <3>1
  <2>4. seen' = seen
    BY <1>2 DEF reviews
  <2> QED  BY <1>3, <2>1, <2>3, <2>4, ViewFields DEF GoodView, Later
<1>6. ViewsNext
  BY <1>3, <1>5 DEF ViewsNext
<1>7. \A r \in Run : RunKept(r)
  BY <1>2 DEF RunKept
<1>8. UNCHANGED <<pageCheckpoint, sync>>
  BY <1>2 DEF progress
<1> QED  BY <1>2, <1>6, <1>7, <1>8, QuietTables, AnchorFrame

\* A process goes on in its run, or ends.
LEMMA BatchStep ==
  ASSUME CollectionAssumption, AnchorInv, TypeInv', NEW p \in Proc, NEW v,
         worker[p].pc # "idle", Becomes(p, v), v.pc \notin Reading,
         v.run = worker[p].run \/ v.pc = "idle",
         UNCHANGED <<provider, run, seen, sync, pageCheckpoint>>
  PROVE  AnchorInv'
<1>1. v.pc # "idle" => run'[v.run].status # "NONE"
  BY DEF AnchorInv, WorkersOK
<1>2. \A r \in Run : RunKept(r)
  BY DEF RunKept
<1> QED  BY <1>1, <1>2, OutsideStep

LEMMA OperatorKeeps ==
  ASSUME CollectionAssumption, AnchorInv, TypeInv', NEW p \in Proc,
         Operator(p)
  PROVE  AnchorInv'
<1>1. PICK r \in Run : StartRun(p, r) \/ ResumeRun(p, r)
  BY DEF Operator
<1>2. run \in [Run -> RunRow] /\ run[r] \in RunRow
  BY DEF AnchorInv, TypeInv, TypeOK
<1>3. CASE StartRun(p, r)
  <2> DEFINE T == Targets(r)
             ready == ReadyStores(T)
             counts == [NoCounts EXCEPT !.initial = Cardinality(T \ ready),
                                        !.incremental = Cardinality(ready)]
             row == [status |-> "RUNNING", slot |-> TRUE, asOf |-> today,
                     stores |-> Cardinality(T), counts |-> counts]
             v == [Idle EXCEPT !.pc = "pending", !.run = r, !.left = T,
                               !.pend = T, !.ready = ready]
  <2>1. /\ Becomes(p, v) /\ run[r].status = "NONE"
        /\ run' = [run EXCEPT ![r] = row]
        /\ UNCHANGED <<provider, progress, reviews, locators>>
    BY <1>3 DEF StartRun
  <2> HIDE DEF T, ready, counts
  <2>2. v.pc = "pending" /\ v.run = r
    BY DEF Idle
  <2>3. row.status = "RUNNING" /\ row.asOf = today
    OBVIOUS
  <2> HIDE DEF row, v
  <2>4. \A q \in Run : run'[q] = IF q = r THEN row ELSE run[q]
    BY <1>2, <2>1
  <2>5. \A q \in Run : RunKept(q)
    BY <2>1, <2>3, <2>4 DEF RunKept
  <2>6. run'[v.run].status # "NONE"
    BY <2>2, <2>3, <2>4
  <2>7. v.pc \notin Reading
    BY <2>2 DEF Reading, InPage
  <2> QED
    BY <2>1, <2>5, <2>6, <2>7, OutsideStep DEF progress, reviews
<1>4. CASE ResumeRun(p, r)
  <2> DEFINE T == Targets(r)
             row == [run[r] EXCEPT !.status = "RUNNING", !.slot = TRUE]
             v == [Idle EXCEPT !.pc = "loop", !.run = r, !.left = T,
                               !.counts = run[r].counts]
  <2>1. /\ Becomes(p, v) /\ run[r].status # "NONE"
        /\ run' = [run EXCEPT ![r] = row]
        /\ UNCHANGED <<provider, progress, reviews, locators>>
    BY <1>4 DEF ResumeRun, Resumable
  <2> HIDE DEF T
  <2>2. v.pc = "loop" /\ v.run = r
    BY DEF Idle
  <2>3. row.status = "RUNNING" /\ row.asOf = run[r].asOf
    BY <1>2 DEF RunRow
  <2> HIDE DEF row, v
  <2>4. \A q \in Run : run'[q] = IF q = r THEN row ELSE run[q]
    BY <1>2, <2>1
  <2>5. \A q \in Run : RunKept(q)
    BY <2>1, <2>3, <2>4 DEF RunKept
  <2>6. run'[v.run].status # "NONE"
    BY <2>2, <2>3, <2>4
  <2>7. v.pc \notin Reading
    BY <2>2 DEF Reading, InPage
  <2> QED
    BY <2>1, <2>5, <2>6, <2>7, OutsideStep DEF progress, reviews
<1> QED  BY <1>1, <1>3, <1>4

LEMMA LoopKeeps ==
  ASSUME CollectionAssumption, AnchorInv, TypeInv', NEW p \in Proc,
         NEW s \in Store,
         \/ WritePending(p, s) \/ SkipStore(p, s)
         \/ PauseBefore(p, s) \/ BeginStore(p, s)
  PROVE  AnchorInv'
<1> DEFINE w == worker[p]
<1>1. w \in Worker
  BY WorkerTyped DEF AnchorInv
<1>2. CASE WritePending(p, s)
  <2> DEFINE v == [w EXCEPT !.pend = @ \ {s}]
  <2>1. /\ Becomes(p, v) /\ w.pc = "pending"
        /\ UNCHANGED <<provider, run, seen, sync, pageCheckpoint>>
    BY <1>2 DEF WritePending, reviews
  <2>2. v.pc = "pending" /\ v.run = w.run
    BY <1>1, <2>1 DEF Worker
  <2> HIDE DEF v
  <2> QED  BY <2>1, <2>2, BatchStep DEF Reading, InPage
<1>3. CASE SkipStore(p, s)
  <2> DEFINE v == [w EXCEPT !.left = @ \ {s}]
  <2>1. /\ Becomes(p, v) /\ w.pc = "loop"
        /\ UNCHANGED <<provider, run, seen, sync, pageCheckpoint>>
    BY <1>3 DEF SkipStore, AtTarget, database
  <2>2. v.pc = "loop" /\ v.run = w.run
    BY <1>1, <2>1 DEF Worker
  <2> HIDE DEF v
  <2> QED  BY <2>1, <2>2, BatchStep DEF Reading, InPage
<1>4. CASE PauseBefore(p, s)
  <2>1. PICK f \in Paused : Pause(p, f)
    BY <1>4 DEF PauseBefore, Paused
  <2> DEFINE v == [w EXCEPT !.pc = "finish", !.final = f]
  <2>2. /\ Becomes(p, v) /\ w.pc = "loop"
        /\ UNCHANGED <<provider, run, seen, sync, pageCheckpoint>>
    BY <1>4, <2>1 DEF PauseBefore, ToCollect, AtTarget, Pause, database
  <2>3. v.pc = "finish" /\ v.run = w.run
    BY <1>1 DEF Worker
  <2> HIDE DEF v
  <2> QED  BY <2>2, <2>3, BatchStep DEF Reading, InPage
<1>5. CASE BeginStore(p, s)
  <2> DEFINE m == TargetMode(RowOf(p, s))
             v == [w EXCEPT !.pc = "open", !.store = s, !.target = m,
                            !.left = w.left \ {s}]
  <2>1. /\ Becomes(p, v) /\ w.pc = "loop"
        /\ UNCHANGED <<provider, run, seen, sync, pageCheckpoint>>
    BY <1>5 DEF BeginStore, ToCollect, AtTarget, reviews
  <2> HIDE DEF m
  <2>2. v.pc = "open" /\ v.run = w.run
    BY <1>1 DEF Worker
  <2> HIDE DEF v
  <2> QED  BY <2>1, <2>2, BatchStep DEF Reading, InPage
<1> QED  BY <1>2, <1>3, <1>4, <1>5

LEMMA LeaveKeeps ==
  ASSUME CollectionAssumption, AnchorInv, TypeInv', NEW p \in Proc,
         NEW o \in Outcomes, worker[p].pc # "idle", Leave(p, o)
  PROVE  AnchorInv'
<1> DEFINE w == worker[p]
           v == [w EXCEPT !.pc = "settle", !.outcome = o]
<1>1. Becomes(p, v) /\ UNCHANGED <<provider, run, seen, sync, pageCheckpoint>>
  BY DEF Leave, database
<1>2. v.pc = "settle" /\ v.run = w.run
  BY WorkerTyped DEF AnchorInv, Worker
<1> HIDE DEF v
<1> QED  BY <1>1, <1>2, BatchStep DEF Reading, InPage

\* The steps of a process that read no page and write none.
LEMMA BatchKeeps ==
  ASSUME CollectionAssumption, AnchorInv, TypeInv', NEW p \in Proc,
         \/ EnterLoop(p) \/ SkipCompleteStore(p) \/ StopProvider(p)
         \/ ReadFails(p) \/ ReviewFails(p) \/ PauseStore(p)
         \/ SettleStore(p) \/ Crash(p)
  PROVE  AnchorInv'
<1> DEFINE w == worker[p]
<1>1. w \in Worker
  BY WorkerTyped DEF AnchorInv
<1>2. CASE EnterLoop(p)
  <2> DEFINE c == run[w.run].counts
             v == [w EXCEPT !.pc = "loop", !.counts = c]
  <2>1. /\ Becomes(p, v) /\ w.pc = "pending"
        /\ UNCHANGED <<provider, run, seen, sync, pageCheckpoint>>
    BY <1>2 DEF EnterLoop, database
  <2> HIDE DEF c
  <2>2. v.pc = "loop" /\ v.run = w.run
    BY <1>1 DEF Worker
  <2> HIDE DEF v
  <2> QED  BY <2>1, <2>2, BatchStep DEF Reading, InPage
<1>3. CASE SkipCompleteStore(p)
  <2> DEFINE m == InitialMode(sync[w.store].anchor)
             v == [w EXCEPT !.pc = "settle", !.outcome = "done", !.got = 0,
                            !.mode = m]
  <2>1. /\ Becomes(p, v) /\ w.pc = "open"
        /\ UNCHANGED <<provider, run, seen, sync, pageCheckpoint>>
    BY <1>3 DEF SkipCompleteStore, database
  <2> HIDE DEF m
  <2>2. v.pc = "settle" /\ v.run = w.run
    BY <1>1 DEF Worker
  <2> HIDE DEF v
  <2> QED  BY <2>1, <2>2, BatchStep DEF Reading, InPage
<1>4. CASE \/ StopProvider(p) \/ ReadFails(p)
           \/ ReviewFails(p) \/ PauseStore(p)
  <2>1. w.pc # "idle" /\ \E o \in Outcomes : Leave(p, o)
    BY <1>4, OutcomeNames
       DEF StopProvider, ReadFails, ReviewFails, PauseStore, Protecting
  <2> QED  BY <2>1, LeaveKeeps
<1>5. CASE SettleStore(p)
  <2> DEFINE c == CountsAfter(w)
             f == FinalOf(w.outcome)
             v == [w EXCEPT !.pc = "account", !.counts = c, !.got = 0,
                            !.final = f]
  <2>1. /\ Becomes(p, v) /\ w.pc = "settle"
        /\ UNCHANGED <<provider, run, seen, sync, pageCheckpoint>>
    BY <1>5 DEF SettleStore, reviews
  <2> HIDE DEF c, f
  <2>2. v.pc = "account" /\ v.run = w.run
    BY <1>1 DEF Worker
  <2> HIDE DEF v
  <2> QED  BY <2>1, <2>2, BatchStep DEF Reading, InPage
<1>6. CASE Crash(p)
  <2>1. /\ Becomes(p, Idle) /\ w.pc # "idle"
        /\ UNCHANGED <<provider, run, seen, sync, pageCheckpoint>>
    BY <1>6 DEF Crash, database
  <2> QED  BY <2>1, IdleTyped, BatchStep DEF Reading, InPage
<1> QED  BY <1>2, <1>3, <1>4, <1>5, <1>6

\* A run that was begun is never taken back.
LEMMA AccountKeeps ==
  ASSUME CollectionAssumption, AnchorInv, TypeInv', NEW p \in Proc,
         AccountStore(p) \/ FinishRun(p)
  PROVE  AnchorInv'
<1> DEFINE w == worker[p]
<1>1. /\ w \in Worker /\ WorkerOK(w) /\ w.final \in Finals
      /\ w.pc # "idle" => run[w.run].status # "NONE"
  BY WorkerTyped DEF AnchorInv, Worker, WorkersOK
<1>2. w.pc # "idle" /\ w.run \in Run
  BY <1>1 DEF AccountStore, FinishRun, WorkerOK
<1>3. run \in [Run -> RunRow] /\ run[w.run] \in RunRow
  BY <1>2 DEF AnchorInv, TypeInv, TypeOK
<1>4. ASSUME NEW st \in Finals \cup {"RUNNING"}, NEW b, NEW c, NEW v,
             run' = [run EXCEPT ![w.run] =
                       [@ EXCEPT !.status = st, !.slot = b, !.counts = c]],
             Becomes(p, v), v.pc \in {"idle", "loop", "finish"},
             v.pc # "idle" => v.run = w.run,
             UNCHANGED <<provider, seen, sync, pageCheckpoint>>
      PROVE  AnchorInv'
  <2> DEFINE row == [run[w.run] EXCEPT !.status = st, !.slot = b, !.counts = c]
  <2>1. row.status = st /\ row.asOf = run[w.run].asOf
    BY <1>3 DEF RunRow
  <2>2. run' = [run EXCEPT ![w.run] = row]
    BY <1>4
  <2> HIDE DEF row
  <2>3. \A q \in Run : run'[q] = IF q = w.run THEN row ELSE run[q]
    BY <1>3, <2>2
  <2>4. st # "NONE"
    BY DEF Finals, Paused, Closed, Stopped
  <2>5. \A q \in Run : RunKept(q)
    BY <1>1, <1>2, <2>1, <2>3, <2>4 DEF RunKept
  <2>6. v.pc # "idle" => run'[v.run].status # "NONE"
    BY <1>2, <1>4, <2>1, <2>3, <2>4
  <2>7. v.pc \notin Reading
    BY <1>4 DEF Reading, InPage
  <2> QED  BY <1>4, <2>5, <2>6, <2>7, OutsideStep
<1>5. CASE AccountStore(p)
  <2> DEFINE on == w.final = "SUCCEEDED"
             st == IF on THEN "RUNNING" ELSE w.final
             pc == IF on THEN "loop" ELSE "finish"
             v == [w EXCEPT !.pc = pc]
  <2>1. /\ \/ Becomes(p, Idle) /\ UNCHANGED run
           \/ /\ Becomes(p, v)
              /\ run' = [run EXCEPT ![w.run] = [@ EXCEPT
                           !.status = st, !.slot = on, !.counts = w.counts]]
        /\ UNCHANGED <<provider, seen, sync, pageCheckpoint>>
    BY <1>5 DEF AccountStore, progress, reviews
  <2>2. st \in Finals \cup {"RUNNING"} /\ pc \in {"idle", "loop", "finish"}
    BY <1>1
  <2> HIDE DEF on, st, pc
  <2>3. v.pc = pc /\ v.run = w.run
    BY <1>1 DEF Worker
  <2> HIDE DEF v
  <2>4. CASE Becomes(p, Idle) /\ UNCHANGED run
    <3>1. Idle.pc = "idle" /\ Idle.pc \notin Reading
      BY IdleTyped DEF Reading, InPage
    <3>2. UNCHANGED <<provider, run, seen, sync, pageCheckpoint>>
      BY <2>1, <2>4
    <3> QED  BY <1>2, <2>4, <3>1, <3>2, BatchStep
  <2>5. CASE /\ Becomes(p, v)
             /\ run' = [run EXCEPT ![w.run] = [@ EXCEPT
                          !.status = st, !.slot = on, !.counts = w.counts]]
    <3>1. v.pc \in {"idle", "loop", "finish"}
      BY <2>2, <2>3
    <3> HIDE DEF w
    <3> QED  BY <1>4, <2>1, <2>2, <2>3, <2>5, <3>1
  <2> QED  BY <2>1, <2>4, <2>5
<1>6. CASE FinishRun(p)
  <2> DEFINE final == FinalStatus(w)
  <2>1. /\ Becomes(p, Idle)
        /\ run' = [run EXCEPT ![w.run] = [@ EXCEPT
                     !.status = final, !.slot = FALSE, !.counts = w.counts]]
        /\ UNCHANGED <<provider, seen, sync, pageCheckpoint>>
    BY <1>6 DEF FinishRun, progress, reviews
  <2>2. final \in Finals \cup {"RUNNING"}
    BY <1>1 DEF FinalStatus, Finals, Closed
  <2> HIDE DEF final
  <2> QED  BY <1>4, <2>1, <2>2, IdleTyped
<1> QED  BY <1>5, <1>6

-----------------------------------------------------------------------------
(* The pages of a store *)

LEMMA InStore ==
  ASSUME CollectionAssumption, AnchorInv, NEW p \in Proc, NEW w,
         w = worker[p], w.pc \in {"open"} \cup Reading
  PROVE  /\ w \in Worker /\ w.run \in Run /\ w.store \in Store
         /\ w.pc # "idle" /\ w.page \in Nat /\ w.todo \in SUBSET Nat
         /\ w.mode \in Modes /\ w.anchorSeen \in BOOLEAN
         /\ run[w.run].asOf \in Nat /\ run[w.run].asOf <= today
         /\ GoodView(ViewOf(w.store)) /\ ViewOf(w.store).today = today
         /\ w.pc \in Reading
              => WorkerKnows(w, ViewOf(w.store), run[w.run].asOf)
<1>1. w \in Worker /\ WorkerOK(w)
  BY WorkerTyped DEF AnchorInv
<1>2. w.run \in Run /\ w.store \in Store /\ w.pc # "idle"
  BY <1>1 DEF WorkerOK, Reading, InPage
<1>3. run[w.run].asOf \in Nat /\ run[w.run].asOf <= today
  BY <1>2 DEF AnchorInv, RunsBegan, TypeInv, TypeOK, RunRow,
              CollectionAssumption
<1>4. /\ w.page \in Nat /\ w.todo \in SUBSET Nat
      /\ w.mode \in Modes /\ w.anchorSeen \in BOOLEAN
  BY <1>1 DEF Worker, Day
<1>5. w.pc \in Reading => WorkerKnows(w, ViewOf(w.store), run[w.run].asOf)
  BY DEF AnchorInv, WorkersOK
<1> QED  BY <1>1, <1>2, <1>3, <1>4, <1>5, GoodNow, ViewFields

LEMMA OpenKeeps ==
  ASSUME CollectionAssumption, AnchorInv, TypeInv', NEW p \in Proc,
         OpenStore(p)
  PROVE  AnchorInv'
<1> DEFINE w == worker[p]
           rows == pageCheckpoint[w.run][w.store]
           prev == sync[w.store].anchor
           mode == InitialMode(prev)
           view == ViewOf(w.store)
           asOf == run[w.run].asOf
<1>1. w.pc = "open" /\ UNCHANGED <<provider, run, seen, sync, pageCheckpoint>>
  BY DEF OpenStore, database
<1>2. /\ w \in Worker /\ w.run \in Run /\ w.store \in Store
      /\ asOf \in Nat /\ GoodView(view) /\ view.today = today
  BY <1>1, InStore
<1>3. PICK l \in Latest(rows), c \in Latest({r \in rows : r.complete}) :
        Becomes(p, [w EXCEPT !.pc = "read",
                             !.previous = prev,
                             !.page = ResumePage(l),
                             !.mode = IF c.mode = "none"
                                      THEN mode ELSE c.mode,
                             !.anchorSeen = c.anchorSeen,
                             !.anchor = c.anchor,
                             !.got = 0, !.opened = FALSE, !.shown = {},
                             !.outcome = "none"])
  BY DEF OpenStore
<1>4. \A r \in rows : r \in PageRow /\ RowKnows(r, view, asOf)
  BY <1>2 DEF AnchorInv, RowsOK, TypeInv, TypeOK
<1>5. NoPage \in PageRow /\ RowKnows(NoPage, view, asOf)
  BY <1>2, NoPageTyped, NoPageKnows
<1>6. l \in rows \cup {NoPage} /\ c \in rows \cup {NoPage}
  BY DEF Latest
<1>7. /\ l \in PageRow /\ RowKnows(l, view, asOf)
      /\ c \in PageRow /\ RowKnows(c, view, asOf)
  BY <1>4, <1>5, <1>6
<1>8. prev <= view.today /\ Undone(view, prev) = {}
  BY <1>2 DEF AnchorInv, StoresOK
<1> DEFINE n == ResumePage(l)
           m == IF c.mode = "none" THEN mode ELSE c.mode
           v == [w EXCEPT !.pc = "read", !.previous = prev, !.page = n,
                          !.mode = m, !.anchorSeen = c.anchorSeen,
                          !.anchor = c.anchor, !.got = 0, !.opened = FALSE,
                          !.shown = {}, !.outcome = "none"]
<1>9. Becomes(p, v)
  BY <1>3
<1>10. m = "INCREMENTAL" => c.mode \in {"INCREMENTAL", "none"}
  OBVIOUS
<1> HIDE DEF n, m, rows, prev, mode
<1>11. /\ v.pc = "read" /\ v.run = w.run /\ v.store = w.store
       /\ v.page = n /\ v.mode = m /\ v.anchorSeen = c.anchorSeen
       /\ v.anchor = c.anchor /\ v.previous = prev
  BY <1>2 DEF Worker
<1> HIDE DEF v, view, asOf
<1>12. WorkerKnows(v, view, asOf)
  BY <1>2, <1>7, <1>8, <1>10, <1>11, OpenKnows DEF n
<1> QED  BY <1>1, <1>9, <1>11, <1>12, ReadingStep DEF view, asOf

LEMMA PageBetween ==
  ASSUME NEW s, NEW n, NEW i, NEW j,
         (n - 1) * PageSize = i, n * PageSize = j
  PROVE  PageOf(s, n) = {d \in listing[s] : Rank(s, d) \in (i + 1)..j}
BY DEF PageOf

LEMMA ReadKeeps ==
  ASSUME CollectionAssumption, AnchorInv, TypeInv', NEW p \in Proc,
         ReadPage(p)
  PROVE  AnchorInv'
<1> DEFINE w == worker[p]
           view == ViewOf(w.store)
           asOf == run[w.run].asOf
           items == PageOf(w.store, w.page)
           next == PageOf(w.store, w.page + 1)
           recent == {d \in items : d >= asOf - Window}
           shown == IF recent = {} THEN w.shown ELSE recent
           end == BoundaryOf(w, items, recent)
           v == [w EXCEPT !.pc = "protect", !.todo = recent, !.opened = TRUE,
                          !.shown = shown, !.boundary = end]
<1>1. /\ w.pc = "read" /\ Becomes(p, v)
      /\ UNCHANGED <<provider, run, seen, sync, pageCheckpoint>>
  BY DEF ReadPage, database
<1>2. \A d \in items : ~ (d > asOf)
  BY DEF ReadPage, BadOrder
<1>3. end # "MORE" => recent # items \/ next = {}
  BY DEF BoundaryOf
<1>4. /\ w \in Worker /\ w.run \in Run /\ w.store \in Store
      /\ w.page \in Nat /\ asOf \in Nat /\ asOf <= today
      /\ GoodView(view) /\ view.today = today /\ w.pc # "idle"
      /\ WorkerKnows(w, view, asOf)
  BY <1>1, InStore DEF Reading
<1>5. \A d : Rank(w.store, d) = RankIn(view.list, d)
  BY ViewFields DEF Rank, RankIn
<1>6. view.list = listing[w.store]
  BY ViewFields
<1>7. items = {d \in view.list : RankIn(view.list, d) \in
                 (PagesBefore(w.page) + 1)..PagesUpTo(w.page)}
  BY <1>5, <1>6 DEF PageOf, PagesBefore, PagesUpTo
<1>8. next = {d \in view.list : RankIn(view.list, d) \in
                (PagesUpTo(w.page) + 1)..(PagesUpTo(w.page) + PageSize)}
  <2> SUFFICES ASSUME NEW n, n = w.page + 1, NEW i, i = PagesUpTo(w.page),
                      NEW j, j = PagesUpTo(w.page) + PageSize
               PROVE  next = {d \in view.list : RankIn(view.list, d) \in
                                                  (i + 1)..j}
    OBVIOUS
  <2>1. (n - 1) * PageSize = i /\ n * PageSize = j
    <3>1. n - 1 = w.page /\ n = w.page + 1
      BY <1>4
    <3>2. (w.page + 1) * PageSize = PagesUpTo(w.page) + PageSize
      BY <1>4 DEF PagesUpTo, CollectionAssumption
    <3> QED  BY <3>1, <3>2 DEF PagesUpTo
  <2>2. next = PageOf(w.store, n)
    BY <2>1
  <2> HIDE DEF next, view, w
  <2>3. next = {d \in listing[w.store] : Rank(w.store, d) \in (i + 1)..j}
    BY <2>1, <2>2, PageBetween
  <2> QED  BY <1>5, <1>6, <2>3
<1> HIDE DEF items, next, shown, end
<1>9. /\ v.pc = "protect" /\ v.run = w.run /\ v.store = w.store
       /\ v.page = w.page /\ v.mode = w.mode /\ v.anchorSeen = w.anchorSeen
       /\ v.anchor = w.anchor /\ v.previous = w.previous
       /\ v.todo = recent /\ v.boundary = end
  <2> HIDE DEF recent
  <2> QED  BY <1>4 DEF Worker
<1> HIDE DEF v, view
<1>10. ListEnded(v) => v.todo # items \/ next = {}
  BY <1>3, <1>9 DEF ListEnded
<1>11. v.todo = {d \in items : d >= asOf - Window}
  BY <1>9
<1> HIDE DEF asOf, recent, w
<1>12. WorkerKnows(v, view, asOf)
  BY <1>1, <1>2, <1>4, <1>7, <1>8, <1>9, <1>10, <1>11, PageKnows
<1> QED  BY <1>1, <1>4, <1>9, <1>12, ReadingStep DEF view, asOf, w

LEMMA NextPageKeeps ==
  ASSUME CollectionAssumption, AnchorInv, TypeInv', NEW p \in Proc,
         NextPage(p)
  PROVE  AnchorInv'
<1> DEFINE w == worker[p]
           view == ViewOf(w.store)
           asOf == run[w.run].asOf
           n == w.page + 1
           v == [w EXCEPT !.pc = "read", !.page = n]
<1>1. /\ w.pc = "closed" /\ Becomes(p, v) /\ ~AnchorReached(w)
      /\ UNCHANGED <<provider, run, seen, sync, pageCheckpoint>>
  BY DEF NextPage, MorePages, PageAfter, database
<1>2. /\ w \in Worker /\ w.page \in Nat /\ w.pc # "idle"
      /\ WorkerKnows(w, view, asOf)
  BY <1>1, InStore DEF Reading, InPage
<1>3. PagesBefore(n) = PagesUpTo(w.page)
  <2>1. n - 1 = w.page
    BY <1>2
  <2> QED  BY <2>1 DEF PagesBefore, PagesUpTo
<1> HIDE DEF n
<1>4. /\ v.pc = "read" /\ v.run = w.run /\ v.store = w.store /\ v.page = n
      /\ v.mode = w.mode /\ v.anchorSeen = w.anchorSeen
      /\ v.anchor = w.anchor /\ v.previous = w.previous
  BY <1>2 DEF Worker
<1> HIDE DEF v, view, asOf
<1>5. /\ PageLeft(v) = {} /\ PageLeft(w) = {} /\ ~AnchorReached(v)
      /\ v.pc \notin InPage /\ w.pc \in InPage
  BY <1>1, <1>4 DEF PageLeft, AnchorReached, InPage
<1>6. WorkerKnows(v, view, asOf)
  BY <1>2, <1>3, <1>4, <1>5 DEF WorkerKnows
<1> QED  BY <1>1, <1>2, <1>4, <1>6, ReadingStep DEF view, asOf

\* A review that was dealt with.
LEMMA AbsorbKnows ==
  ASSUME NEW w \in Worker, NEW d \in Day, NEW b \in BOOLEAN, NEW x,
         x = Absorb(w, d, b)
  PROVE  /\ x.pc = "protect" /\ x.run = w.run /\ x.store = w.store
         /\ x.todo = w.todo \ {d} /\ x.previous = w.previous
         /\ x.page = w.page /\ x.boundary = w.boundary
         /\ x.anchor \in {w.anchor, d}
         /\ AnchorReached(x) => AnchorReached(w) \/ d = w.previous
<1> DEFINE a == IF w.anchor = NoReview THEN d ELSE w.anchor
           as == w.anchorSeen \/ (w.mode = "INCREMENTAL" /\ d = w.previous)
           m == IF HoleFound(w, d, b) THEN "BACKFILL_FALLBACK" ELSE w.mode
           v == [w EXCEPT !.pc = "protect", !.todo = @ \ {d}, !.anchor = a,
                          !.anchorSeen = as, !.mode = m]
<1>1. x = v
  BY DEF Absorb
<1>2. a \in {w.anchor, d}
  OBVIOUS
<1>3. m = "INCREMENTAL" => w.mode = "INCREMENTAL"
  OBVIOUS
<1>4. as => w.anchorSeen \/ d = w.previous
  OBVIOUS
<1> HIDE DEF a, as, m
<1>5. /\ v.pc = "protect" /\ v.run = w.run /\ v.store = w.store
      /\ v.todo = w.todo \ {d} /\ v.previous = w.previous
      /\ v.page = w.page /\ v.boundary = w.boundary
      /\ v.anchor = a /\ v.anchorSeen = as /\ v.mode = m
  BY DEF Worker
<1> HIDE DEF v
<1>6. AnchorReached(x) => AnchorReached(w) \/ d = w.previous
  BY <1>1, <1>3, <1>4, <1>5 DEF AnchorReached
<1> QED  BY <1>1, <1>2, <1>5, <1>6

LEMMA RejectKeeps ==
  ASSUME CollectionAssumption, AnchorInv, TypeInv', NEW p \in Proc,
         NEW d \in Day, RejectReview(p, d)
  PROVE  AnchorInv'
<1> DEFINE w == worker[p]
           view == ViewOf(w.store)
           asOf == run[w.run].asOf
           v == [w EXCEPT !.todo = @ \ {d}]
<1>1. /\ w.pc = "protect" /\ Becomes(p, v) /\ Newest(d, w.todo)
      /\ d \in Pii[w.store]
      /\ UNCHANGED <<provider, run, seen, sync, pageCheckpoint>>
  BY DEF RejectReview, Protecting, database
<1>2. /\ w \in Worker /\ w.pc # "idle" /\ asOf \in Nat /\ asOf <= today
      /\ w.todo \in SUBSET Nat /\ GoodView(view) /\ view.today = today
      /\ WorkerKnows(w, view, asOf)
  BY <1>1, InStore DEF Reading, InPage
<1>3. d \in view.done
  BY <1>1, ViewFields
<1>4. /\ v.pc = "protect" /\ v.run = w.run /\ v.store = w.store
      /\ v.todo = w.todo \ {d} /\ v.page = w.page /\ v.mode = w.mode
      /\ v.anchorSeen = w.anchorSeen /\ v.anchor = w.anchor
      /\ v.previous = w.previous /\ v.boundary = w.boundary
  BY <1>1, <1>2 DEF Worker
<1> HIDE DEF v, view, asOf
<1>5. AnchorReached(v) => AnchorReached(w)
  BY <1>4 DEF AnchorReached
<1> HIDE DEF w
<1>6. WorkerKnows(v, view, asOf)
  BY <1>1, <1>2, <1>3, <1>4, <1>5, HandledKnows
<1> QED  BY <1>1, <1>2, <1>4, <1>6, ReadingStep DEF view, asOf, w

LEMMA EncryptKeeps ==
  ASSUME CollectionAssumption, AnchorInv, TypeInv', NEW p \in Proc,
         NEW d \in Day, EncryptReview(p, d)
  PROVE  AnchorInv'
<1> DEFINE w == worker[p]
           view == ViewOf(w.store)
           asOf == run[w.run].asOf
           got == IF NotStored(w.store, d) THEN w.got + 1 ELSE w.got
           v == [w EXCEPT !.pc = "sealed", !.got = got]
<1>1. /\ w.pc = "protect" /\ Becomes(p, v)
      /\ UNCHANGED <<provider, run, seen, sync, pageCheckpoint>>
  BY DEF EncryptReview, Protecting, progress
<1>2. w \in Worker /\ w.pc # "idle" /\ WorkerKnows(w, view, asOf)
  BY <1>1, InStore DEF Reading, InPage
<1> HIDE DEF got
<1>3. /\ v.pc = "sealed" /\ v.run = w.run /\ v.store = w.store
      /\ v.todo = w.todo /\ v.page = w.page /\ v.mode = w.mode
      /\ v.anchorSeen = w.anchorSeen /\ v.anchor = w.anchor
      /\ v.previous = w.previous /\ v.boundary = w.boundary
  BY <1>2 DEF Worker
<1> HIDE DEF v, view, asOf
<1>4. /\ AnchorReached(v) => AnchorReached(w)
      /\ ListEnded(v) => ListEnded(w)
      /\ v.pc \in InPage => w.pc \in InPage
      /\ PageLeft(v) = PageLeft(w)
  BY <1>1, <1>3 DEF AnchorReached, ListEnded, InPage, PageLeft
<1>5. WorkerKnows(v, view, asOf)
  BY <1>2, <1>3, <1>4, SameKnowledge
<1> QED  BY <1>1, <1>2, <1>3, <1>5, ReadingStep DEF view, asOf

\* A review that was recorded, now or before, with the row of its page.
LEMMA RecordKeeps ==
  ASSUME CollectionAssumption, AnchorInv, TypeInv', NEW p \in Proc,
         NEW d \in Day, NEW b \in BOOLEAN, NEW w, w = worker[p],
         w.pc \in {"protect", "sealed"}, Newest(d, w.todo),
         MarkPage(w), Becomes(p, Absorb(w, d, b)),
         \A s \in Store : seen[s] \subseteq seen'[s],
         d \in seen'[w.store], UNCHANGED <<provider, run, sync>>
  PROVE  AnchorInv'
<1> DEFINE view == NextView(w.store)
           asOf == run[w.run].asOf
           v == Absorb(w, d, b)
           row == PartialPage(w.page)
<1>1. /\ w \in Worker /\ w.store \in Store /\ asOf \in Nat /\ asOf <= today
      /\ w.todo \in SUBSET Nat /\ w.pc \in Reading
      /\ GoodView(ViewOf(w.store)) /\ ViewOf(w.store).today = today
      /\ WorkerKnows(w, ViewOf(w.store), asOf)
  BY InStore DEF Reading, InPage
<1>2. GoodView(view) /\ Later(ViewOf(w.store), view) /\ view.today = today
  BY <1>1, SameViews, ViewFields DEF ViewsNext, provider
<1>3. d \in view.done
  BY ViewFields
<1>4. /\ v.pc = "protect" /\ v.run = w.run /\ v.store = w.store
      /\ v.todo = w.todo \ {d} /\ v.previous = w.previous
      /\ v.page = w.page /\ v.boundary = w.boundary
      /\ v.anchor \in {w.anchor, d}
      /\ AnchorReached(v) => AnchorReached(w) \/ d = w.previous
  BY <1>1, AbsorbKnows
<1>5. PutPage(w, row) /\ Becomes(p, v)
  BY DEF MarkPage
<1> HIDE DEF v, view, asOf, row
<1>6. WorkerKnows(w, view, asOf)
  BY <1>1, <1>2, WorkerKept
<1>7. WorkerKnows(v, view, asOf)
  BY <1>1, <1>2, <1>3, <1>4, <1>6, HandledKnows
<1>8. RowKnows(row, view, asOf)
  BY <1>1, <1>6, RowsOfPage DEF row
<1>9. v.pc \in Reading
  BY <1>4 DEF Reading, InPage
<1> QED  BY <1>1, <1>4, <1>5, <1>7, <1>8, <1>9, PageStep DEF view, asOf

LEMMA ReviewKeeps ==
  ASSUME CollectionAssumption, AnchorInv, TypeInv', NEW p \in Proc,
         NEW d \in Day, DuplicateReview(p, d) \/ MarkSeen(p, d)
  PROVE  AnchorInv'
<1> DEFINE w == worker[p]
<1>1. CASE DuplicateReview(p, d)
  <2>1. /\ w.pc \in {"protect", "sealed"} /\ Newest(d, w.todo) /\ MarkPage(w)
        /\ Becomes(p, Absorb(w, d, TRUE)) /\ d \in seen[w.store]
        /\ seen' = seen /\ UNCHANGED <<provider, run, sync>>
    BY <1>1 DEF DuplicateReview, Protecting, reviews
  <2>2. /\ \A s \in Store : seen[s] \subseteq seen'[s]
        /\ d \in seen'[w.store]
    BY <2>1
  <2> HIDE DEF w
  <2> QED  BY <2>1, <2>2, RecordKeeps DEF w
<1>2. CASE MarkSeen(p, d)
  <2>1. /\ w.pc \in {"protect", "sealed"} /\ Newest(d, w.todo) /\ MarkPage(w)
        /\ Becomes(p, Absorb(w, d, FALSE))
        /\ seen' = [seen EXCEPT ![w.store] = @ \cup {d}]
        /\ UNCHANGED <<provider, run, sync>>
    BY <1>2 DEF MarkSeen
  <2>2. w.store \in Store
    BY <2>1, InStore DEF Reading, InPage
  <2>3. seen \in [Store -> SUBSET Day]
    BY DEF AnchorInv, TypeInv, TypeOK
  <2>4. /\ \A s \in Store : seen[s] \subseteq seen'[s]
        /\ d \in seen'[w.store]
    BY <2>1, <2>2, <2>3
  <2> HIDE DEF w
  <2> QED  BY <2>1, <2>4, RecordKeeps DEF w
<1> QED  BY <1>1, <1>2

\* A page is completed, in the mode it was read in or as a fallback.
LEMMA CloseKeeps ==
  ASSUME CollectionAssumption, AnchorInv, TypeInv', NEW p \in Proc,
         ClosePage(p) \/ FallBack(p)
  PROVE  AnchorInv'
<1> DEFINE w == worker[p]
           view == NextView(w.store)
           asOf == run[w.run].asOf
<1>1. w.pc \in {"protect", "closed"} /\ UNCHANGED <<provider, run, seen, sync>>
  BY DEF ClosePage, FallBack, reviews
<1>2. /\ w \in Worker /\ w.store \in Store /\ asOf \in Nat
      /\ w.pc \in Reading /\ WorkerKnows(w, ViewOf(w.store), asOf)
  BY <1>1, InStore DEF Reading, InPage
<1>3. view = ViewOf(w.store)
  BY <1>1 DEF NextView, ViewOf, provider
<1>4. WorkerKnows(w, view, asOf) /\ PageLeft(w) = {} /\ w.pc \in InPage
  <2>1. w.pc = "closed" \/ w.todo = {}
    BY DEF ClosePage, FallBack
  <2> QED  BY <1>1, <1>2, <1>3, <2>1 DEF PageLeft, InPage
<1> HIDE DEF view, asOf
<1>5. ASSUME NEW m, m = w.mode \/ ~w.anchorSeen, CompletePage(w, m),
             NEW v, Becomes(p, v), v.pc = "closed", v.run = w.run,
             v.store = w.store, v.page = w.page, v.anchor = w.anchor,
             v.previous = w.previous, v.boundary = w.boundary,
             AnchorReached(v) => AnchorReached(w)
      PROVE  AnchorInv'
  <2> DEFINE row == [page |-> w.page, complete |-> TRUE, mode |-> m,
                     anchorSeen |-> w.anchorSeen, anchor |-> w.anchor]
  <2>1. PutPage(w, row)
    BY <1>5 DEF CompletePage
  <2>2. RowKnows(row, view, asOf)
    BY <1>2, <1>4, <1>5, RowsOfPage
  <2> HIDE DEF row
  <2>3. /\ ListEnded(v) => ListEnded(w)
        /\ PageLeft(v) = PageLeft(w) /\ v.pc \in Reading
    BY <1>4, <1>5 DEF ListEnded, PageLeft, Reading, InPage
  <2>4. WorkerKnows(v, view, asOf)
    BY <1>4, <1>5, <2>3, SameKnowledge
  <2>5. \A s \in Store : seen[s] \subseteq seen'[s]
    BY <1>1
  <2> QED
    BY <1>1, <1>2, <1>5, <2>1, <2>2, <2>3, <2>4, <2>5, PageStep DEF view, asOf
<1>6. CASE ClosePage(p)
  <2> DEFINE v == [w EXCEPT !.pc = "closed"]
  <2>1. Becomes(p, v) /\ CompletePage(w, w.mode)
    BY <1>6 DEF ClosePage
  <2>2. /\ v.pc = "closed" /\ v.run = w.run /\ v.store = w.store
        /\ v.page = w.page /\ v.anchor = w.anchor /\ v.previous = w.previous
        /\ v.boundary = w.boundary /\ v.mode = w.mode
        /\ v.anchorSeen = w.anchorSeen
    BY <1>2 DEF Worker
  <2> HIDE DEF v
  <2>3. AnchorReached(v) => AnchorReached(w)
    BY <2>2 DEF AnchorReached
  <2> HIDE DEF w
  <2> QED  BY <1>5, <2>1, <2>2, <2>3
<1>7. CASE FallBack(p)
  <2> DEFINE m == "BACKFILL_FALLBACK"
             v == [w EXCEPT !.mode = m]
  <2>1. /\ Becomes(p, v) /\ CompletePage(w, m) /\ ~w.anchorSeen
        /\ w.pc = "closed"
    BY <1>7 DEF FallBack
  <2>2. /\ v.pc = "closed" /\ v.run = w.run /\ v.store = w.store
        /\ v.page = w.page /\ v.anchor = w.anchor /\ v.previous = w.previous
        /\ v.boundary = w.boundary /\ v.mode = m
    BY <1>2, <2>1 DEF Worker
  <2> HIDE DEF v
  <2>3. AnchorReached(v) => AnchorReached(w)
    BY <2>2 DEF AnchorReached
  <2> HIDE DEF w, m
  <2> QED  BY <1>5, <2>1, <2>2, <2>3
<1> QED  BY <1>6, <1>7

\* A store is completed only when its page had nothing left, so that nothing
\* of the run's days is missing, and its anchor is none of a later day.
LEMMA CompleteKeeps ==
  ASSUME CollectionAssumption, AnchorInv, TypeInv', NEW p \in Proc,
         CompleteStore(p)
  PROVE  AnchorInv'
<1> DEFINE w == worker[p]
           view == ViewOf(w.store)
           asOf == run[w.run].asOf
           v == [w EXCEPT !.pc = "settle", !.outcome = "done"]
           state == IF w.anchor = NoReview THEN sync[w.store]
                    ELSE [anchor |-> w.anchor, mode |-> w.mode, run |-> w.run]
<1>1. /\ w.pc = "closed" /\ Becomes(p, v)
      /\ AnchorReached(w) \/ ListEnded(w)
      /\ sync' = [sync EXCEPT ![w.store] = state]
      /\ UNCHANGED <<provider, run, seen, pageCheckpoint>>
  BY DEF CompleteStore, reviews
<1>2. /\ w \in Worker /\ w.store \in Store /\ asOf \in Nat /\ asOf <= today
      /\ w.pc # "idle" /\ GoodView(view) /\ WorkerKnows(w, view, asOf)
  BY <1>1, InStore DEF Reading, InPage
<1>3. w.anchor \in Int /\ today \in Nat
  BY <1>2, GoodNow DEF Worker, Anchor, Day, NoReview
<1>4. PageLeft(w) = {} /\ w.pc \in InPage
  BY <1>1 DEF PageLeft, InPage
<1>5. Undone(view, asOf) = {} /\ w.anchor <= asOf
  BY <1>1, <1>2, <1>4 DEF WorkerKnows
<1>6. Undone(view, w.anchor) = {}
  <2> SUFFICES ASSUME NEW d \in Undone(view, w.anchor)
               PROVE  d \in Undone(view, asOf)
    BY <1>5
  <2>1. d \in view.list /\ d <= w.anchor /\ d \in Int
    BY <1>2 DEF Undone, GoodView
  <2>2. d <= asOf
    BY <1>2, <1>3, <1>5, <2>1
  <2> QED  BY <2>2 DEF Undone
<1>7. NextView(w.store) = view
  BY <1>1 DEF NextView, ViewOf, provider
<1>8. /\ sync \in [Store -> SyncState]
      /\ state.anchor \in {w.anchor, sync[w.store].anchor}
      /\ state.anchor = w.anchor \/ state = sync[w.store]
  BY <1>2 DEF AnchorInv, TypeInv, TypeOK
<1>9. v.pc = "settle" /\ v.run = w.run
  BY <1>2 DEF Worker
<1>10. today' = today
  BY <1>1 DEF provider
<1> HIDE DEF v, view, asOf, state
<1>11. ASSUME NEW s \in Store PROVE AnchorNext(s)
  <2>1. CASE s = w.store /\ state.anchor = w.anchor
    <3>1. sync'[s].anchor = w.anchor
      BY <1>1, <1>8, <2>1
    <3>2. w.anchor <= today'
      BY <1>2, <1>3, <1>5, <1>10
    <3> QED  BY <1>6, <1>7, <2>1, <3>1, <3>2 DEF AnchorNext
  <2>2. CASE s # w.store \/ state = sync[w.store]
    <3>1. sync'[s] = sync[s]
      BY <1>1, <1>2, <1>8, <2>2
    <3> QED  BY <3>1 DEF AnchorNext
  <2> QED  BY <1>8, <2>1, <2>2
<1>12. WorkerNext(v)
  <2>1. run[v.run].status # "NONE"
    BY <1>2, <1>9 DEF AnchorInv, WorkersOK
  <2> QED  BY <1>1, <1>9, <2>1 DEF WorkerNext, Reading, InPage
<1>13. /\ \A r \in Run : RunKept(r)
       /\ \A r \in Run, s \in Store : RowsNext(r, s)
  BY <1>1 DEF RunKept, RowsNext
<1>14. ViewsNext
  BY <1>1, SameViews
<1>15. \A q \in Proc : worker'[q] = worker[q] \/ WorkerNext(worker'[q])
  BY <1>1, <1>12, OthersStay
<1> QED  BY <1>11, <1>13, <1>14, <1>15, AnchorFrame
-----------------------------------------------------------------------------
LEMMA AnchorInit ==
  ASSUME CollectionAssumption, Init
  PROVE  AnchorInv
<1>1. TypeInv
  BY InitTyped
<1>2. today \in Nat /\ \A s \in Store : listing[s] \subseteq 1..today
  BY DEF Init, CollectionAssumption
<1>3. ASSUME NEW s \in Store
      PROVE  sync[s].anchor = 0 /\ Undone(ViewOf(s), 0) = {}
  <2>1. sync[s].anchor = 0
    BY DEF Init, NoReview
  <2>2. \A d \in listing[s] : ~ (d <= 0)
    BY <1>2, <1>3
  <2> QED  BY <2>1, <2>2, ViewFields DEF Undone
<1>4. StoresOK
  BY <1>2, <1>3 DEF StoresOK
<1>5. RunsBegan
  BY <1>2 DEF RunsBegan, Init
<1>6. RowsOK
  BY DEF RowsOK, Init
<1>7. WorkersOK
  BY IdleTyped DEF WorkersOK, Init, Reading, InPage
<1> QED  BY <1>1, <1>4, <1>5, <1>6, <1>7 DEF AnchorInv

LEMMA AnchorNextKept ==
  ASSUME CollectionAssumption, ListGrows, AnchorInv, [Next]_vars
  PROVE  AnchorInv'
<1>1. TypeInv'
  BY NextTyped DEF AnchorInv
<1>2. CASE UNCHANGED vars
  BY <1>1, <1>2
     DEF vars, AnchorInv, StoresOK, RunsBegan, RowsOK, WorkersOK, ViewOf
<1>3. CASE Provider
  BY <1>1, <1>3, ProviderKeeps
<1>4. ASSUME NEW p \in Proc, Operator(p) PROVE AnchorInv'
  BY <1>1, <1>4, OperatorKeeps
<1>5. ASSUME NEW p \in Proc, Work(p) PROVE AnchorInv'
  <2>1. ASSUME NEW s \in Store,
               \/ WritePending(p, s) \/ SkipStore(p, s)
               \/ PauseBefore(p, s) \/ BeginStore(p, s)
        PROVE  AnchorInv'
    BY <1>1, <2>1, LoopKeeps
  <2>2. CASE \/ EnterLoop(p) \/ SkipCompleteStore(p) \/ StopProvider(p)
             \/ ReadFails(p) \/ ReviewFails(p) \/ PauseStore(p)
             \/ SettleStore(p)
    BY <1>1, <2>2, BatchKeeps
  <2>3. CASE OpenStore(p) \/ ReadPage(p) \/ NextPage(p)
    BY <1>1, <2>3, OpenKeeps, ReadKeeps, NextPageKeeps
  <2>4. ASSUME NEW d \in Day,
               \/ RejectReview(p, d) \/ DuplicateReview(p, d)
               \/ EncryptReview(p, d) \/ MarkSeen(p, d)
        PROVE  AnchorInv'
    BY <1>1, <2>4, RejectKeeps, EncryptKeeps, ReviewKeeps
  <2>5. CASE ClosePage(p) \/ FallBack(p) \/ CompleteStore(p)
    BY <1>1, <2>5, CloseKeeps, CompleteKeeps
  <2>6. CASE AccountStore(p) \/ FinishRun(p)
    BY <1>1, <2>6, AccountKeeps
  <2> QED  BY <1>5, <2>1, <2>2, <2>3, <2>4, <2>5, <2>6 DEF Work
<1>6. ASSUME NEW p \in Proc, Crash(p) PROVE AnchorInv'
  BY <1>1, <1>6, BatchKeeps
<1> QED  BY <1>2, <1>3, <1>4, <1>5, <1>6 DEF Next

LEMMA AnchorInvGives ==
  ASSUME CollectionAssumption, AnchorInv
  PROVE  NothingMissingBehindAnchor
<1> SUFFICES ASSUME NEW s \in Store, NEW d \in listing[s],
                    today - Window <= d, d <= sync[s].anchor,
                    d \notin Pii[s], d \notin seen[s]
             PROVE  FALSE
  BY DEF NothingMissingBehindAnchor
<1>1. d \in Undone(ViewOf(s), sync[s].anchor)
  BY ViewFields DEF Undone
<1> QED  BY <1>1 DEF AnchorInv, StoresOK

\* Whatever the number of stores, runs and processes, the page size and the
\* window, and whatever stops, fails or crashes in between: as long as the list
\* of a store only gains reviews, at its new end, an incremental pass that
\* stops at the anchor leaves nothing behind it that should have been recorded.
\* The hypothesis is needed: a review that is hidden moves the older ones to
\* earlier pages, and a resumed pass goes on by the number of its page.
THEOREM NothingIsMissing ==
  ASSUME ListGrows
  PROVE  Spec => []NothingMissingBehindAnchor
<1>1. Init => AnchorInv
  BY AnchorInit, CollectionAssumption
<1>2. AnchorInv /\ [Next]_vars => AnchorInv'
  BY AnchorNextKept, CollectionAssumption
<1>3. AnchorInv => NothingMissingBehindAnchor
  BY AnchorInvGives, CollectionAssumption
<1> QED  BY <1>1, <1>2, <1>3, PTL DEF Spec

-----------------------------------------------------------------------------
(* Holes *)

\* No review goes away.
NothingHides == "hide" \notin ProviderMoves

\* A page that has yet to tell whether it demands the fallback.
Undecided(w) ==
  \/ w.pc \in {"protect", "sealed"}
  \/ w.pc = "closed" /\ ListEnded(w) /\ w.mode = "INCREMENTAL" /\ ~w.anchorSeen

\* No process crashes or gives up in the middle of such a page.
PagesEnd == \A p \in Proc : Undecided(worker[p]) => worker'[p].pc \in InPage

\* A run completes no store another run has begun and not completed.
NotOvertaking ==
  \A s \in Store, q \in Run :
    sync'[s] # sync[s] /\ q # sync'[s].run =>
      pageCheckpoint[q][s] = {} \/ storeCheckpoint[q][s].state \in Done

\* Review a is none of the first k of the list.
Beyond(list, a, k) == a # NoReview /\ RankIn(list, a) > k

\* All that run r collected is newer than a.
NewerThan(a, r, kept) == \A d \in Day : kept[d] = r => d > a

\* An anchor is a review the provider shows and deidentifyReview accepts.
Shows(list, s, x) == x # NoReview => x \in list \ Pii[s]

\* The row of the last page.
IsLast(c, rows) == \A e \in rows : e.page <= c.page

\* A store a run has begun, while no process is in one of its pages: the next
\* pass stays incremental only with the anchor still to come, or met.
Between(r, rows, list, a, kept) ==
  /\ \A c \in rows : c.complete /\ c.mode # "none" /\ c.page >= 1
  /\ rows = {} => \A d \in Day : kept[d] # r
  /\ \A c \in rows :
       c.mode = "INCREMENTAL" /\ IsLast(c, rows) =>
         /\ a # NoReview /\ NewerThan(a, r, kept)
         /\ c.anchorSeen \/ Beyond(list, a, PagesUpTo(c.page))

\* Before it has met the anchor, a pass has it before it: in its page, or the
\* page is newer and the list goes on, or ends, without it.
Ahead(w, list, a) ==
  \/ a \in PageLeft(w)
  \/ /\ \A t \in PageLeft(w) : t > a
     /\ ListEnded(w) \/ Beyond(list, a, PagesUpTo(w.page))

\* A pass that is incremental: what its run collected is newer than the
\* anchor, but for the review whose row was just written.
SafelyIncremental(w, list, a, kept) ==
  /\ a # NoReview
  /\ \A d \in Day :
       kept[d] = w.run => d > a \/ (w.pc = "sealed" /\ Newest(d, w.todo))
  /\ w.pc = "read" => w.anchorSeen \/ Beyond(list, a, PagesBefore(w.page))
  /\ w.pc \in InPage /\ ~w.anchorSeen => Ahead(w, list, a)

\* The rows of a store up to the page a process is in.
RowsFit(w, rows) ==
  /\ \A c \in rows : /\ c.page >= 1 /\ c.page <= w.page
                     /\ c.page < w.page => c.complete /\ c.mode # "none"
  /\ w.pc = "read" => \A c \in rows : c.page < w.page
  /\ w.pc = "closed" =>
       /\ \E c \in rows : c.page = w.page
       /\ \A c \in rows : c.page = w.page =>
            c.complete /\ c.mode = w.mode /\ c.anchorSeen = w.anchorSeen

\* A process in a store.
WorkerFits(w, rows, list, a, kept) ==
  /\ w.previous = a /\ w.page >= 1 /\ Shows(list, w.store, w.anchor)
  /\ PageLeft(w) \subseteq list
  /\ w.pc = "sealed" =>
       \A d \in w.todo : Newest(d, w.todo) => d \notin Pii[w.store]
  /\ RowsFit(w, rows)
  /\ w.mode = "INCREMENTAL" => SafelyIncremental(w, list, a, kept)

Away == {"idle", "finish"}

\* Of all processes one is at work: it holds the slot.
Alone ==
  /\ \A p \in Proc : worker[p].pc \notin Away => run[worker[p].run].slot
  /\ \A q, r \in Run : run[q].slot /\ run[r].slot => q = r

AnchorsShown ==
  \A s \in Store :
    /\ Shows(listing[s], s, sync[s].anchor)
    /\ \A r \in Run : \A c \in pageCheckpoint[r][s] :
         Shows(listing[s], s, c.anchor)

InPagesOf(w, r, s) == w.pc \in InPage /\ w.run = r /\ w.store = s

Busy(r, s) == \E p \in Proc : InPagesOf(worker[p], r, s)

BetweenNow(r, s) ==
  Between(r, pageCheckpoint[r][s], listing[s], sync[s].anchor, raw[s])

RowsRest ==
  \A r \in Run, s \in Store :
    storeCheckpoint[r][s].state \notin Done /\ ~Busy(r, s) => BetweenNow(r, s)

FitsNow(w) ==
  w.pc \in Reading =>
    WorkerFits(w, pageCheckpoint[w.run][w.store], listing[w.store],
               sync[w.store].anchor, raw[w.store])

WorkersFit == \A p \in Proc : FitsNow(worker[p])

HoleInv == TypeInv /\ Alone /\ AnchorsShown /\ RowsRest /\ WorkersFit

-----------------------------------------------------------------------------
(* The next state *)

BetweenNext(r, s) ==
  Between(r, pageCheckpoint'[r][s], listing'[s], sync'[s].anchor, raw'[s])

FitsNext(w) ==
  w.pc \in Reading =>
    WorkerFits(w, pageCheckpoint'[w.run][w.store], listing'[w.store],
               sync'[w.store].anchor, raw'[w.store])

ListsGrow == \A s \in Store : listing[s] \subseteq listing'[s]

DoneKept ==
  \A r \in Run, s \in Store :
    storeCheckpoint[r][s].state \in Done =>
      storeCheckpoint'[r][s].state \in Done

\* What a step of a process, from memory w to memory v, does to the pages of a
\* store.
RestNext(r, s, w, v) ==
  storeCheckpoint'[r][s].state \notin Done /\ ~InPagesOf(v, r, s) =>
    \/ ~InPagesOf(w, r, s) /\ (BetweenNow(r, s) => BetweenNext(r, s))
    \/ BetweenNext(r, s)

\* A step leaves alone the stores it is not in.
LEMMA RestFrame ==
  ASSUME HoleInv, DoneKept, NEW p \in Proc, NEW w, w = worker[p], NEW v,
         Becomes(p, v), \A r \in Run, s \in Store : RestNext(r, s, w, v)
  PROVE  RowsRest'
<1>1. worker'[p] = v /\ \A q \in Proc \ {p} : worker'[q] = worker[q]
  BY Updated DEF HoleInv
<1>2. SUFFICES ASSUME NEW r \in Run, NEW s \in Store,
                      storeCheckpoint'[r][s].state \notin Done,
                      \A q \in Proc : ~InPagesOf(worker'[q], r, s)
               PROVE  BetweenNext(r, s)
  BY DEF RowsRest, Busy, BetweenNow, BetweenNext
<1>3. ~InPagesOf(v, r, s) /\ RestNext(r, s, w, v)
  BY <1>1, <1>2
<1>4. CASE ~InPagesOf(w, r, s) /\ (BetweenNow(r, s) => BetweenNext(r, s))
  <2>1. \A q \in Proc : ~InPagesOf(worker[q], r, s)
    BY <1>1, <1>2, <1>4
  <2>2. storeCheckpoint[r][s].state \notin Done
    BY <1>2 DEF DoneKept
  <2>3. BetweenNow(r, s)
    BY <2>1, <2>2 DEF HoleInv, RowsRest, Busy
  <2> QED  BY <1>4, <2>3
<1> QED  BY <1>2, <1>3, <1>4 DEF RestNext

\* While a process is at work, no other is in a store.
LEMMA FitFrame ==
  ASSUME HoleInv, OneWorkerPerRun, NEW p \in Proc, NEW v, Becomes(p, v),
         FitsNext(v),
         \/ UNCHANGED <<listing, pageCheckpoint, sync, raw>>
         \/ worker[p].pc \notin Away
  PROVE  WorkersFit'
<1>1. worker'[p] = v /\ \A q \in Proc \ {p} : worker'[q] = worker[q]
  BY Updated DEF HoleInv
<1>2. ASSUME NEW q \in Proc PROVE FitsNext(worker'[q])
  <2>1. CASE q = p
    BY <1>1, <2>1
  <2>2. CASE q # p
    <3>1. worker'[q] = worker[q] /\ FitsNow(worker[q])
      BY <1>1, <2>2 DEF HoleInv, WorkersFit
    <3>2. CASE UNCHANGED <<listing, pageCheckpoint, sync, raw>>
      BY <3>1, <3>2 DEF FitsNow, FitsNext
    <3>3. CASE worker[p].pc \notin Away
      <4> SUFFICES ASSUME worker[q].pc \in Reading PROVE FALSE
        BY <3>1 DEF FitsNext
      <4>1. worker[q].pc \notin Away /\ worker[q].pc # "idle"
            /\ worker[p].pc # "idle"
        BY <3>3 DEF Reading, InPage, Away
      <4>2. worker[q].run \in Run /\ worker[p].run \in Run
        BY <4>1, WorkerTyped DEF HoleInv, WorkerOK
      <4>3. worker[q].run = worker[p].run
        BY <3>3, <4>1, <4>2 DEF HoleInv, Alone
      <4> QED  BY <2>2, <4>1, <4>3 DEF OneWorkerPerRun
    <3> QED  BY <3>2, <3>3
  <2> QED  BY <2>1, <2>2
<1> QED  BY <1>2 DEF WorkersFit, FitsNow, FitsNext

\* Anchors stay shown while lists only grow.
LEMMA ShownFrame ==
  ASSUME HoleInv, ListsGrow, UNCHANGED <<sync, pageCheckpoint>>
  PROVE  AnchorsShown'
BY DEF HoleInv, AnchorsShown, ListsGrow, Shows

\* A process that goes on in its run, or stops.
LEMMA AloneFrame ==
  ASSUME HoleInv, NEW p \in Proc, NEW v, Becomes(p, v), UNCHANGED run,
         v.pc \notin Away => worker[p].pc \notin Away /\ v.run = worker[p].run
  PROVE  Alone'
<1>1. worker'[p] = v /\ \A q \in Proc \ {p} : worker'[q] = worker[q]
  BY Updated DEF HoleInv
<1>2. ASSUME NEW q \in Proc, worker'[q].pc \notin Away
      PROVE  run'[worker'[q].run].slot
  BY <1>1, <1>2 DEF HoleInv, Alone
<1> QED  BY <1>2 DEF HoleInv, Alone

\* A step outside the pages of a store.
LEMMA OutsideHole ==
  ASSUME HoleInv, OneWorkerPerRun, TypeInv', DoneKept, Alone',
         NEW p \in Proc, NEW v, Becomes(p, v),
         worker[p].pc \notin InPage, v.pc \notin Reading,
         UNCHANGED <<listing, pageCheckpoint, sync, raw>>
  PROVE  HoleInv'
<1>1. AnchorsShown'
  BY ShownFrame DEF ListsGrow
<1>2. ASSUME NEW r \in Run, NEW s \in Store
      PROVE  RestNext(r, s, worker[p], v)
  BY DEF RestNext, InPagesOf, BetweenNow, BetweenNext
<1>3. RowsRest'
  BY <1>2, RestFrame
<1>4. WorkersFit'
  BY FitFrame DEF FitsNext
<1> QED  BY <1>1, <1>3, <1>4 DEF HoleInv

\* A step of a process that is in a store, and stays in its run and store.
LEMMA InsideHole ==
  ASSUME HoleInv, OneWorkerPerRun, TypeInv', DoneKept, AnchorsShown',
         NEW p \in Proc, NEW w, w = worker[p], NEW v, Becomes(p, v),
         w.pc \notin Away, v.run = w.run, UNCHANGED run, FitsNext(v),
         \A r \in Run, s \in Store : RestNext(r, s, w, v)
  PROVE  HoleInv'
<1>1. RowsRest'
  BY RestFrame
<1>2. WorkersFit'
  BY FitFrame
<1>3. Alone'
  BY AloneFrame
<1> QED  BY <1>1, <1>2, <1>3 DEF HoleInv

-----------------------------------------------------------------------------
(* What a longer list leaves as it is *)

\* A review that joins the list moves the others to later places only.
LEMMA BeyondKept ==
  ASSUME CollectionAssumption, NEW list \in SUBSET Day, NEW u \in SUBSET Day,
         list \subseteq u, NEW a \in Anchor, NEW k \in Int, Beyond(list, a, k)
  PROVE  Beyond(u, a, k)
<1>1. u \in SUBSET (1..LastDay) /\ LastDay \in Nat /\ list \in SUBSET u
  BY DEF Day, CollectionAssumption
<1>2. a \in Int
  BY DEF Anchor, Day, NoReview
<1>3. RankIn(list, a) <= RankIn(u, a) /\ RankIn(u, a) \in Nat
  BY <1>1, <1>2, RankFacts
<1>4. RankIn(list, a) \in Nat
  <2>1. list \in SUBSET (1..LastDay)
    BY <1>1
  <2> QED  BY <1>1, <1>2, <2>1, RankFacts
<1> QED  BY <1>3, <1>4 DEF Beyond

\* The next page begins where a page ends.
LEMMA PageEnds ==
  ASSUME CollectionAssumption, NEW n \in Nat
  PROVE  /\ PagesUpTo(n) \in Int /\ PagesBefore(n) \in Int
         /\ PagesBefore(n + 1) = PagesUpTo(n)
<1>1. PageSize \in Nat /\ (n + 1) - 1 = n
  BY DEF CollectionAssumption
<1>2. PagesBefore(n + 1) = PagesUpTo(n)
  BY <1>1 DEF PagesUpTo, PagesBefore
<1>3. PagesUpTo(n) \in Int /\ PagesBefore(n) \in Int
  BY <1>1 DEF PagesUpTo, PagesBefore
<1> QED  BY <1>2, <1>3

\* What is true of a store at rest stays true when its list grows.
LEMMA BetweenKept ==
  ASSUME CollectionAssumption, NEW r, NEW rows \in SUBSET PageRow,
         NEW list \in SUBSET Day, NEW u \in SUBSET Day, list \subseteq u,
         NEW a \in Anchor, NEW kept, NEW then,
         \A d \in Day : then[d] = r => kept[d] = r,
         Between(r, rows, list, a, kept)
  PROVE  Between(r, rows, u, a, then)
<1>1. rows = {} => \A d \in Day : then[d] # r
  BY DEF Between
<1>2. ASSUME NEW c \in rows, c.mode = "INCREMENTAL", IsLast(c, rows)
      PROVE  /\ a # NoReview /\ NewerThan(a, r, then)
             /\ c.anchorSeen \/ Beyond(u, a, PagesUpTo(c.page))
  <2>1. /\ a # NoReview /\ NewerThan(a, r, kept)
        /\ c.anchorSeen \/ Beyond(list, a, PagesUpTo(c.page))
    BY <1>2 DEF Between
  <2>2. PagesUpTo(c.page) \in Int
    BY PageEnds DEF PageRow
  <2>3. c.anchorSeen \/ Beyond(u, a, PagesUpTo(c.page))
    BY <2>1, <2>2, BeyondKept
  <2> QED  BY <2>1, <2>3 DEF NewerThan
<1> QED  BY <1>1, <1>2 DEF Between

\* What a process relies on stays true when the list of its store grows.
LEMMA FitsKept ==
  ASSUME CollectionAssumption, NEW w \in Worker, NEW rows,
         NEW list \in SUBSET Day, NEW u \in SUBSET Day, list \subseteq u,
         NEW a \in Anchor, NEW kept, WorkerFits(w, rows, list, a, kept)
  PROVE  WorkerFits(w, rows, u, a, kept)
<1>1. \A k \in Int : Beyond(list, a, k) => Beyond(u, a, k)
  BY BeyondKept
<1>2. PagesUpTo(w.page) \in Int /\ PagesBefore(w.page) \in Int
  BY PageEnds DEF Worker
<1>3. Ahead(w, list, a) => Ahead(w, u, a)
  BY <1>1, <1>2 DEF Ahead
<1>4. SafelyIncremental(w, list, a, kept) => SafelyIncremental(w, u, a, kept)
  BY <1>1, <1>2, <1>3 DEF SafelyIncremental
<1>5. Shows(u, w.store, w.anchor)
  BY DEF WorkerFits, Shows
<1> QED  BY <1>4, <1>5 DEF WorkerFits

\* The list of a store as a process in it sees it.
LEMMA InHole ==
  ASSUME CollectionAssumption, HoleInv, NEW p \in Proc, NEW w, w = worker[p],
         w.pc \in {"open"} \cup Reading
  PROVE  /\ w \in Worker /\ w.run \in Run /\ w.store \in Store
         /\ w.pc \notin Away /\ w.page \in Nat /\ w.todo \in SUBSET Day
         /\ w.mode \in Modes /\ w.anchorSeen \in BOOLEAN
         /\ w.anchor \in Anchor /\ w.previous \in Anchor
         /\ listing[w.store] \in SUBSET Day
         /\ sync[w.store].anchor \in Anchor
         /\ pageCheckpoint[w.run][w.store] \in SUBSET PageRow
         /\ w.pc \in Reading =>
              WorkerFits(w, pageCheckpoint[w.run][w.store], listing[w.store],
                         sync[w.store].anchor, raw[w.store])
<1>1. w \in Worker /\ WorkerOK(w)
  BY WorkerTyped DEF HoleInv
<1>2. w.run \in Run /\ w.store \in Store /\ w.pc \notin Away
  BY <1>1 DEF WorkerOK, Reading, InPage, Away
<1>3. /\ w.page \in Nat /\ w.todo \in SUBSET Day
      /\ w.mode \in Modes /\ w.anchorSeen \in BOOLEAN
      /\ w.anchor \in Anchor /\ w.previous \in Anchor
  BY <1>1 DEF Worker
<1>4. /\ listing[w.store] \in SUBSET Day /\ sync[w.store] \in SyncState
      /\ pageCheckpoint[w.run][w.store] \in SUBSET PageRow
  BY <1>2 DEF HoleInv, TypeInv, TypeOK
<1>5. w.pc \in Reading =>
        WorkerFits(w, pageCheckpoint[w.run][w.store], listing[w.store],
                   sync[w.store].anchor, raw[w.store])
  BY DEF HoleInv, WorkersFit, FitsNow
<1> QED  BY <1>1, <1>2, <1>3, <1>4, <1>5 DEF SyncState

-----------------------------------------------------------------------------
(* The provider, the operator and the loop over the stores *)

\* The provider posts a review, or shows one again.
LEMMA ProviderHole ==
  ASSUME CollectionAssumption, NothingHides, HoleInv, TypeInv', Provider
  PROVE  HoleInv'
<1>1. /\ ListsGrow
      /\ UNCHANGED <<run, storeCheckpoint, pageCheckpoint, sync, raw, worker>>
  <2>1. CASE \E s \in Store : Post(s)
    <3>1. PICK s \in Store : Post(s)
      BY <2>1
    <3>2. /\ listing' = [listing EXCEPT ![s] = listing[s] \cup {today + 1}]
          /\ UNCHANGED <<run, progress, reviews, worker>>
      BY <3>1 DEF Post
    <3>3. \A t \in Store : listing[t] \subseteq listing'[t]
      BY <3>2 DEF HoleInv, TypeInv, TypeOK
    <3> QED  BY <3>2, <3>3 DEF ListsGrow, progress, reviews
  <2>2. CASE \E s \in Store, d \in Day : Hide(s, d) \/ Reveal(s, d)
    <3>1. PICK s \in Store, d \in Day : Reveal(s, d)
      BY <2>2 DEF Hide, NothingHides
    <3>2. /\ listing' = [listing EXCEPT ![s] = listing[s] \cup {d}]
          /\ UNCHANGED <<run, progress, reviews, worker>>
      BY <3>1 DEF Reveal
    <3>3. \A t \in Store : listing[t] \subseteq listing'[t]
      BY <3>2 DEF HoleInv, TypeInv, TypeOK
    <3> QED  BY <3>2, <3>3 DEF ListsGrow, progress, reviews
  <2> QED  BY <2>1, <2>2 DEF Provider
<1>2. \A s \in Store : /\ listing[s] \in SUBSET Day
                       /\ listing'[s] \in SUBSET Day
                       /\ listing[s] \subseteq listing'[s]
                       /\ sync[s].anchor \in Anchor
  <2>1. sync \in [Store -> SyncState]
    BY DEF HoleInv, TypeInv, TypeOK
  <2>2. \A s \in Store : sync[s].anchor \in Anchor
    BY <2>1 DEF SyncState
  <2> QED  BY <1>1, <2>2 DEF HoleInv, TypeInv, TypeOK, ListsGrow
<1>3. AnchorsShown'
  BY <1>1, ShownFrame
<1>4. Alone'
  BY <1>1 DEF HoleInv, Alone
<1>5. ASSUME NEW r \in Run, NEW s \in Store, BetweenNow(r, s)
      PROVE  BetweenNext(r, s)
  <2>1. pageCheckpoint[r][s] \in SUBSET PageRow
    BY DEF HoleInv, TypeInv, TypeOK
  <2>2. Between(r, pageCheckpoint[r][s], listing'[s], sync[s].anchor, raw[s])
    BY <1>2, <1>5, <2>1, BetweenKept DEF BetweenNow
  <2> QED  BY <1>1, <2>2 DEF BetweenNext
<1>6. RowsRest'
  BY <1>1, <1>5 DEF HoleInv, RowsRest, Busy, BetweenNow, BetweenNext
<1>7. ASSUME NEW p \in Proc PROVE FitsNext(worker[p])
  <2> DEFINE w == worker[p]
  <2> SUFFICES ASSUME w.pc \in Reading
               PROVE  WorkerFits(w, pageCheckpoint[w.run][w.store],
                                 listing'[w.store], sync[w.store].anchor,
                                 raw[w.store])
    BY <1>1 DEF FitsNext
  <2>1. /\ w \in Worker /\ w.store \in Store
        /\ WorkerFits(w, pageCheckpoint[w.run][w.store], listing[w.store],
                      sync[w.store].anchor, raw[w.store])
    BY InHole
  <2> HIDE DEF w
  <2> QED  BY <1>2, <2>1, FitsKept
<1>8. WorkersFit'
  BY <1>1, <1>7 DEF WorkersFit, FitsNow, FitsNext
<1> QED  BY <1>3, <1>4, <1>6, <1>8 DEF HoleInv

\* A run that is started or resumed takes the slot, which nobody has.
LEMMA OperatorHole ==
  ASSUME HoleInv, OneWorkerPerRun, TypeInv', DoneKept, NEW p \in Proc,
         Operator(p)
  PROVE  HoleInv'
<1>1. PICK r \in Run : StartRun(p, r) \/ ResumeRun(p, r)
  BY DEF Operator
<1>2. run \in [Run -> RunRow] /\ run[r] \in RunRow
  BY DEF HoleInv, TypeInv, TypeOK
<1>3. ASSUME NEW row, NEW v, row.slot, v.pc \in {"pending", "loop"}, v.run = r,
             Becomes(p, v), run' = [run EXCEPT ![r] = row], SlotFreeFor(r),
             worker[p].pc = "idle", UNCHANGED <<provider, progress, reviews>>
      PROVE  HoleInv'
  <2>1. worker'[p] = v /\ \A q \in Proc \ {p} : worker'[q] = worker[q]
    BY <1>3, Updated DEF HoleInv
  <2>2. \A q \in Run : run'[q] = IF q = r THEN row ELSE run[q]
    BY <1>2, <1>3
  <2>3. \A q \in Run : run'[q].slot => q = r
    BY <1>3, <2>2 DEF SlotFreeFor
  <2>4. ASSUME NEW q \in Proc, worker'[q].pc \notin Away
        PROVE  run'[worker'[q].run].slot
    <3>1. CASE q = p
      BY <1>3, <2>1, <2>2, <3>1
    <3>2. CASE q # p
      <4>1. worker'[q] = worker[q] /\ run[worker[q].run].slot
        BY <2>1, <2>4, <3>2 DEF HoleInv, Alone
      <4>2. worker[q].run \in Run
        BY <2>4, <4>1, WorkerTyped DEF HoleInv, WorkerOK, Away
      <4>3. worker[q].run = r
        BY <1>3, <4>1, <4>2 DEF SlotFreeFor
      <4> QED  BY <1>3, <2>2, <4>1, <4>3
    <3> QED  BY <3>1, <3>2
  <2>5. Alone'
    BY <2>3, <2>4 DEF Alone
  <2>6. UNCHANGED <<listing, pageCheckpoint, sync, raw>>
    BY <1>3 DEF provider, progress, reviews
  <2>7. worker[p].pc \notin InPage /\ v.pc \notin Reading
    BY <1>3 DEF Reading, InPage
  <2> QED  BY <1>3, <2>5, <2>6, <2>7, OutsideHole
<1>4. CASE StartRun(p, r)
  <2> DEFINE T == Targets(r)
             ready == ReadyStores(T)
             counts == [NoCounts EXCEPT !.initial = Cardinality(T \ ready),
                                        !.incremental = Cardinality(ready)]
             row == [status |-> "RUNNING", slot |-> TRUE, asOf |-> today,
                     stores |-> Cardinality(T), counts |-> counts]
             v == [Idle EXCEPT !.pc = "pending", !.run = r, !.left = T,
                               !.pend = T, !.ready = ready]
  <2>1. /\ Becomes(p, v) /\ SlotFreeFor(r) /\ worker[p].pc = "idle"
        /\ run' = [run EXCEPT ![r] = row]
        /\ UNCHANGED <<provider, progress, reviews>>
    BY <1>4 DEF StartRun
  <2> HIDE DEF T, ready, counts
  <2>2. v.pc = "pending" /\ v.run = r /\ row.slot
    BY DEF Idle
  <2> HIDE DEF row, v
  <2> QED  BY <1>3, <2>1, <2>2
<1>5. CASE ResumeRun(p, r)
  <2> DEFINE T == Targets(r)
             row == [run[r] EXCEPT !.status = "RUNNING", !.slot = TRUE]
             v == [Idle EXCEPT !.pc = "loop", !.run = r, !.left = T,
                               !.counts = run[r].counts]
  <2>1. /\ Becomes(p, v) /\ SlotFreeFor(r) /\ worker[p].pc = "idle"
        /\ run' = [run EXCEPT ![r] = row]
        /\ UNCHANGED <<provider, progress, reviews>>
    BY <1>5 DEF ResumeRun
  <2> HIDE DEF T
  <2>2. v.pc = "loop" /\ v.run = r
    BY DEF Idle
  <2>3. row.slot
    BY <1>2 DEF RunRow
  <2> HIDE DEF row, v
  <2> QED  BY <1>3, <2>1, <2>2, <2>3
<1> QED  BY <1>1, <1>4, <1>5

\* A process goes on in its run, outside the pages of a store.
LEMMA BatchHole ==
  ASSUME HoleInv, OneWorkerPerRun, TypeInv', DoneKept, NEW p \in Proc, NEW v,
         Becomes(p, v), worker[p].pc \notin Away \cup InPage,
         v.pc \notin Reading, v.pc # "idle" => v.run = worker[p].run,
         UNCHANGED <<provider, run, pageCheckpoint, sync, raw>>
  PROVE  HoleInv'
<1>1. Alone'
  BY AloneFrame DEF Away
<1>2. UNCHANGED <<listing, pageCheckpoint, sync, raw>>
  BY DEF provider
<1> QED  BY <1>1, <1>2, OutsideHole

\* The loop over the targets, up to collectStoreReviews.
LEMMA LoopHole ==
  ASSUME HoleInv, OneWorkerPerRun, TypeInv', DoneKept, NEW p \in Proc,
         NEW s \in Store,
         \/ WritePending(p, s) \/ SkipStore(p, s)
         \/ PauseBefore(p, s) \/ BeginStore(p, s)
  PROVE  HoleInv'
<1> DEFINE w == worker[p]
<1>1. w \in Worker
  BY WorkerTyped DEF HoleInv
<1>2. CASE WritePending(p, s)
  <2> DEFINE v == [w EXCEPT !.pend = @ \ {s}]
  <2>1. /\ Becomes(p, v) /\ w.pc = "pending"
        /\ UNCHANGED <<provider, run, pageCheckpoint, sync, raw>>
    BY <1>2 DEF WritePending, reviews
  <2>2. v.pc = "pending" /\ v.run = w.run
    BY <1>1, <2>1 DEF Worker
  <2> HIDE DEF v
  <2> QED  BY <2>1, <2>2, BatchHole DEF Reading, InPage, Away
<1>3. CASE SkipStore(p, s)
  <2> DEFINE v == [w EXCEPT !.left = @ \ {s}]
  <2>1. /\ Becomes(p, v) /\ w.pc = "loop"
        /\ UNCHANGED <<provider, run, pageCheckpoint, sync, raw>>
    BY <1>3 DEF SkipStore, AtTarget, database
  <2>2. v.pc = "loop" /\ v.run = w.run
    BY <1>1, <2>1 DEF Worker
  <2> HIDE DEF v
  <2> QED  BY <2>1, <2>2, BatchHole DEF Reading, InPage, Away
<1>4. CASE PauseBefore(p, s)
  <2>1. PICK f \in Paused : Pause(p, f)
    BY <1>4 DEF PauseBefore, Paused
  <2> DEFINE v == [w EXCEPT !.pc = "finish", !.final = f]
  <2>2. /\ Becomes(p, v) /\ w.pc = "loop"
        /\ UNCHANGED <<provider, run, pageCheckpoint, sync, raw>>
    BY <1>4, <2>1 DEF PauseBefore, ToCollect, AtTarget, Pause, database
  <2>3. v.pc = "finish" /\ v.run = w.run
    BY <1>1 DEF Worker
  <2> HIDE DEF v
  <2> QED  BY <2>2, <2>3, BatchHole DEF Reading, InPage, Away
<1>5. CASE BeginStore(p, s)
  <2> DEFINE m == TargetMode(RowOf(p, s))
             v == [w EXCEPT !.pc = "open", !.store = s, !.target = m,
                            !.left = w.left \ {s}]
  <2>1. /\ Becomes(p, v) /\ w.pc = "loop"
        /\ UNCHANGED <<provider, run, pageCheckpoint, sync, raw>>
    BY <1>5 DEF BeginStore, ToCollect, AtTarget, reviews
  <2> HIDE DEF m
  <2>2. v.pc = "open" /\ v.run = w.run
    BY <1>1 DEF Worker
  <2> HIDE DEF v
  <2> QED  BY <2>1, <2>2, BatchHole DEF Reading, InPage, Away
<1> QED  BY <1>2, <1>3, <1>4, <1>5

\* The other steps outside the pages.
LEMMA StepHole ==
  ASSUME HoleInv, OneWorkerPerRun, TypeInv', DoneKept, NEW p \in Proc,
         \/ EnterLoop(p) \/ SkipCompleteStore(p) \/ StopProvider(p)
         \/ ReadFails(p) \/ SettleStore(p)
  PROVE  HoleInv'
<1> DEFINE w == worker[p]
<1>1. w \in Worker
  BY WorkerTyped DEF HoleInv
<1>2. CASE EnterLoop(p)
  <2> DEFINE c == run[w.run].counts
             v == [w EXCEPT !.pc = "loop", !.counts = c]
  <2>1. /\ Becomes(p, v) /\ w.pc = "pending"
        /\ UNCHANGED <<provider, run, pageCheckpoint, sync, raw>>
    BY <1>2 DEF EnterLoop, database
  <2> HIDE DEF c
  <2>2. v.pc = "loop" /\ v.run = w.run
    BY <1>1 DEF Worker
  <2> HIDE DEF v
  <2> QED  BY <2>1, <2>2, BatchHole DEF Reading, InPage, Away
<1>3. CASE SkipCompleteStore(p)
  <2> DEFINE m == InitialMode(sync[w.store].anchor)
             v == [w EXCEPT !.pc = "settle", !.outcome = "done", !.got = 0,
                            !.mode = m]
  <2>1. /\ Becomes(p, v) /\ w.pc = "open"
        /\ UNCHANGED <<provider, run, pageCheckpoint, sync, raw>>
    BY <1>3 DEF SkipCompleteStore, database
  <2> HIDE DEF m
  <2>2. v.pc = "settle" /\ v.run = w.run
    BY <1>1 DEF Worker
  <2> HIDE DEF v
  <2> QED  BY <2>1, <2>2, BatchHole DEF Reading, InPage, Away
<1>4. CASE StopProvider(p) \/ ReadFails(p)
  <2>1. w.pc = "read" /\ \E o \in Outcomes : Leave(p, o)
    BY <1>4, OutcomeNames DEF StopProvider, ReadFails
  <2>2. PICK o \in Outcomes : Leave(p, o)
    BY <2>1
  <2> DEFINE v == [w EXCEPT !.pc = "settle", !.outcome = o]
  <2>3. Becomes(p, v) /\ UNCHANGED <<provider, run, pageCheckpoint, sync, raw>>
    BY <2>2 DEF Leave, database
  <2>4. v.pc = "settle" /\ v.run = w.run
    BY <1>1 DEF Worker
  <2> HIDE DEF v
  <2> QED  BY <2>1, <2>3, <2>4, BatchHole DEF Reading, InPage, Away
<1>5. CASE SettleStore(p)
  <2> DEFINE c == CountsAfter(w)
             f == FinalOf(w.outcome)
             v == [w EXCEPT !.pc = "account", !.counts = c, !.got = 0,
                            !.final = f]
  <2>1. /\ Becomes(p, v) /\ w.pc = "settle"
        /\ UNCHANGED <<provider, run, pageCheckpoint, sync, raw>>
    BY <1>5 DEF SettleStore, reviews
  <2> HIDE DEF c, f
  <2>2. v.pc = "account" /\ v.run = w.run
    BY <1>1 DEF Worker
  <2> HIDE DEF v
  <2> QED  BY <2>1, <2>2, BatchHole DEF Reading, InPage, Away
<1> QED  BY <1>2, <1>3, <1>4, <1>5

\* The slot is given back by the only process that could have it.
LEMMA AccountHole ==
  ASSUME HoleInv, OneWorkerPerRun, TypeInv', DoneKept, NEW p \in Proc,
         AccountStore(p) \/ FinishRun(p)
  PROVE  HoleInv'
<1> DEFINE w == worker[p]
<1>1. w \in Worker /\ WorkerOK(w)
  BY WorkerTyped DEF HoleInv
<1>2. w.pc # "idle" /\ w.pc \notin InPage /\ w.run \in Run
  BY <1>1 DEF AccountStore, FinishRun, WorkerOK, InPage
<1>3. run \in [Run -> RunRow] /\ run[w.run] \in RunRow
  BY <1>2 DEF HoleInv, TypeInv, TypeOK
<1>4. ASSUME NEW st, NEW b, NEW c, NEW v, Becomes(p, v),
             run' = [run EXCEPT ![w.run] =
                       [@ EXCEPT !.status = st, !.slot = b, !.counts = c]],
             v.pc \in {"idle", "finish"} \/
               (v.pc = "loop" /\ v.run = w.run /\ b /\ SlotFreeFor(w.run)),
             b => SlotFreeFor(w.run),
             UNCHANGED <<provider, progress, reviews>>
      PROVE  HoleInv'
  <2> DEFINE row == [run[w.run] EXCEPT !.status = st, !.slot = b, !.counts = c]
  <2>1. row.slot = b
    BY <1>3 DEF RunRow
  <2>2. run' = [run EXCEPT ![w.run] = row]
    BY <1>4
  <2> HIDE DEF row
  <2>3. \A q \in Run : run'[q] = IF q = w.run THEN row ELSE run[q]
    BY <1>3, <2>2
  <2>4. worker'[p] = v /\ \A q \in Proc \ {p} : worker'[q] = worker[q]
    BY <1>4, Updated DEF HoleInv
  <2>5. ASSUME NEW q \in Proc, worker'[q].pc \notin Away
        PROVE  run'[worker'[q].run].slot
    <3>1. CASE q = p
      BY <1>2, <1>4, <2>1, <2>3, <2>4, <2>5, <3>1 DEF Away
    <3>2. CASE q # p
      <4>1. /\ worker'[q] = worker[q] /\ run[worker[q].run].slot
            /\ worker[q].pc # "idle"
        BY <2>4, <2>5, <3>2 DEF HoleInv, Alone, Away
      <4>2. worker[q].run \in Run
        BY <4>1, WorkerTyped DEF HoleInv, WorkerOK
      <4>3. worker[q].run # w.run
        BY <1>2, <3>2, <4>1 DEF OneWorkerPerRun
      <4> QED  BY <2>3, <4>1, <4>2, <4>3
    <3> QED  BY <3>1, <3>2
  <2>6. ASSUME NEW q \in Run, NEW r \in Run, run'[q].slot, run'[r].slot
        PROVE  q = r
    BY <1>2, <1>4, <2>1, <2>3, <2>6 DEF SlotFreeFor, HoleInv, Alone
  <2>7. Alone'
    BY <2>5, <2>6 DEF Alone
  <2>8. v.pc \notin Reading /\ UNCHANGED <<listing, pageCheckpoint, sync, raw>>
    BY <1>4 DEF Reading, InPage, provider, progress, reviews
  <2> QED  BY <1>2, <1>4, <2>7, <2>8, OutsideHole
<1>5. CASE AccountStore(p)
  <2> DEFINE on == w.final = "SUCCEEDED"
             st == IF on THEN "RUNNING" ELSE w.final
             pc == IF on THEN "loop" ELSE "finish"
             v == [w EXCEPT !.pc = pc]
  <2>1. /\ w.pc = "account"
        /\ \/ Becomes(p, Idle) /\ UNCHANGED run
           \/ /\ Becomes(p, v) /\ (on => SlotFreeFor(w.run))
              /\ run' = [run EXCEPT ![w.run] = [@ EXCEPT
                           !.status = st, !.slot = on, !.counts = w.counts]]
        /\ UNCHANGED <<provider, progress, reviews>>
    BY <1>5 DEF AccountStore
  <2>2. pc = "finish" \/ (pc = "loop" /\ on)
    OBVIOUS
  <2> HIDE DEF on, st, pc
  <2>3. v.pc = pc /\ v.run = w.run
    BY <1>1 DEF Worker
  <2> HIDE DEF v
  <2>4. CASE Becomes(p, Idle) /\ UNCHANGED run
    <3>1. Idle.pc = "idle" /\ Idle.pc \notin Reading /\ w.pc \notin Away
      BY <2>1, IdleTyped DEF Reading, InPage, Away
    <3>2. UNCHANGED <<provider, run, pageCheckpoint, sync, raw>>
      BY <2>1, <2>4 DEF progress, reviews
    <3> QED  BY <1>2, <2>4, <3>1, <3>2, BatchHole
  <2>5. CASE /\ Becomes(p, v) /\ (on => SlotFreeFor(w.run))
             /\ run' = [run EXCEPT ![w.run] = [@ EXCEPT
                          !.status = st, !.slot = on, !.counts = w.counts]]
    <3> HIDE DEF w
    <3> QED  BY <1>4, <2>1, <2>2, <2>3, <2>5
  <2> QED  BY <2>1, <2>4, <2>5
<1>6. CASE FinishRun(p)
  <2> DEFINE final == FinalStatus(w)
  <2>1. /\ Becomes(p, Idle)
        /\ run' = [run EXCEPT ![w.run] = [@ EXCEPT
                     !.status = final, !.slot = FALSE, !.counts = w.counts]]
        /\ UNCHANGED <<provider, progress, reviews>>
    BY <1>6 DEF FinishRun
  <2> HIDE DEF final, w
  <2> QED  BY <1>4, <2>1, IdleTyped
<1> QED  BY <1>5, <1>6

-----------------------------------------------------------------------------
(* The pages of a store *)

\* A process that stays in its page, or was in none.
LEMMA RestSame ==
  ASSUME NEW w, NEW v, UNCHANGED <<listing, pageCheckpoint, sync, raw>>,
         \/ w.pc \notin InPage
         \/ v.pc \in InPage /\ v.run = w.run /\ v.store = w.store
  PROVE  \A r \in Run, s \in Store : RestNext(r, s, w, v)
BY DEF RestNext, InPagesOf, BetweenNow, BetweenNext

\* A step in a store that writes no table but the page-0 rows.
LEMMA ReadingHole ==
  ASSUME HoleInv, OneWorkerPerRun, TypeInv', DoneKept,
         NEW p \in Proc, NEW w, w = worker[p], NEW v, Becomes(p, v),
         w.pc \notin Away, v.run = w.run, v.store = w.store,
         w.pc \notin InPage \/ v.pc \in InPage, v.pc \in Reading,
         UNCHANGED <<provider, run, pageCheckpoint, sync, raw>>,
         WorkerFits(v, pageCheckpoint[w.run][w.store], listing[w.store],
                    sync[w.store].anchor, raw[w.store])
  PROVE  HoleInv'
<1>1. UNCHANGED <<listing, pageCheckpoint, sync, raw>>
  BY DEF provider
<1>2. AnchorsShown'
  BY <1>1, ShownFrame DEF ListsGrow
<1>3. FitsNext(v)
  BY <1>1 DEF FitsNext
<1>4. \A r \in Run, s \in Store : RestNext(r, s, w, v)
  BY <1>1, RestSame
<1> QED  BY <1>2, <1>3, <1>4, InsideHole

\* The page a pass is opened at.
LEMMA OpenFits ==
  ASSUME CollectionAssumption, NEW r, NEW s, NEW rows \in SUBSET PageRow,
         NEW list \in SUBSET Day, NEW a \in Anchor, NEW kept,
         Between(r, rows, list, a, kept), Shows(list, s, a),
         \A e \in rows : Shows(list, s, e.anchor),
         NEW l \in Latest(rows), NEW c \in Latest({e \in rows : e.complete}),
         NEW v, v.pc = "read", v.run = r, v.store = s, v.previous = a,
         v.page = ResumePage(l),
         v.mode = IF c.mode = "none" THEN InitialMode(a) ELSE c.mode,
         v.anchorSeen = c.anchorSeen, v.anchor = c.anchor
  PROVE  WorkerFits(v, rows, list, a, kept)
<1>1. \A e \in rows : e.complete /\ e.mode # "none" /\ e.page >= 1
  BY DEF Between
<1>2. /\ NoPage.page = 0 /\ NoPage.complete = TRUE /\ NoPage.mode = "none"
      /\ NoPage.anchor = NoReview /\ NoPage.anchorSeen = FALSE
  BY DEF NoPage, PartialPage
<1>3. {e \in rows : e.complete} = rows
  BY <1>1
<1>4. /\ l \in rows \cup {NoPage} /\ c \in rows \cup {NoPage}
      /\ IsLast(l, rows) /\ IsLast(c, rows)
  BY <1>3 DEF Latest, IsLast
<1>5. \A e \in rows : e.page \in Nat
  BY DEF PageRow
<1>6. NoPage \in {l, c} => rows = {}
  BY <1>1, <1>2, <1>4, <1>5 DEF IsLast
<1>7. l.complete /\ l.page \in Nat /\ v.page = l.page + 1
  BY <1>1, <1>2, <1>4, <1>5 DEF ResumePage
<1>8. l.page = c.page
  <2>1. CASE rows = {}
    BY <1>4, <2>1
  <2>2. CASE l \in rows /\ c \in rows
    <3>1. l.page <= c.page /\ c.page <= l.page
      BY <1>4, <2>2 DEF IsLast
    <3> QED  BY <1>5, <2>2, <3>1
  <2> QED  BY <1>4, <1>6, <2>1, <2>2
<1>9. \A e \in rows : e.page < v.page /\ e.page <= v.page
  BY <1>4, <1>5, <1>7 DEF IsLast
<1>10. Shows(list, s, v.anchor)
  BY <1>2, <1>4 DEF Shows
<1>11. PageLeft(v) = {} /\ v.pc \notin InPage
  BY DEF PageLeft, InPage
<1>12. RowsFit(v, rows)
  BY <1>1, <1>9 DEF RowsFit
<1>13. PagesBefore(v.page) = PagesUpTo(c.page)
  BY <1>7, <1>8, PageEnds
<1>14. ASSUME v.mode = "INCREMENTAL"
       PROVE  SafelyIncremental(v, list, a, kept)
  <2>1. CASE c \in rows
    <3>1. c.mode = "INCREMENTAL"
      BY <1>1, <1>14, <2>1
    <3>2. /\ a # NoReview /\ NewerThan(a, r, kept)
          /\ c.anchorSeen \/ Beyond(list, a, PagesUpTo(c.page))
      BY <1>4, <2>1, <3>1 DEF Between
    <3> QED
      BY <1>11, <1>13, <3>2 DEF SafelyIncremental, NewerThan
  <2>2. CASE c = NoPage
    <3>1. rows = {} /\ \A d \in Day : kept[d] # r
      BY <1>6, <2>2 DEF Between
    <3>2. a # NoReview
      BY <1>2, <1>14, <2>2 DEF InitialMode
    <3>3. a \in list
      BY <3>2 DEF Shows
    <3>4. RankIn(list, a) >= 1 /\ RankIn(list, a) \in Nat
      <4>1. list \in SUBSET (1..LastDay) /\ LastDay \in Nat /\ a \in Int
        BY DEF Day, CollectionAssumption, Anchor, NoReview
      <4> QED  BY <3>3, <4>1, RankFacts
    <3>5. PagesUpTo(c.page) = 0
      BY <1>2, <2>2 DEF PagesUpTo, CollectionAssumption
    <3>6. Beyond(list, a, PagesBefore(v.page))
      BY <1>13, <3>2, <3>4, <3>5 DEF Beyond
    <3> QED  BY <1>2, <1>11, <2>2, <3>1, <3>2, <3>6 DEF SafelyIncremental
  <2> QED  BY <1>4, <2>1, <2>2
<1>15. v.page >= 1
  BY <1>7
<1> QED
  BY <1>10, <1>11, <1>12, <1>14, <1>15 DEF WorkerFits

\* collectStoreReviews takes up a store where its rows say.
LEMMA OpenHole ==
  ASSUME CollectionAssumption, HoleInv, OneWorkerPerRun, TypeInv', DoneKept,
         NEW p \in Proc, OpenStore(p)
  PROVE  HoleInv'
<1> DEFINE w == worker[p]
           rows == pageCheckpoint[w.run][w.store]
           a == sync[w.store].anchor
           list == listing[w.store]
           kept == raw[w.store]
<1>1. /\ w.pc = "open" /\ storeCheckpoint[w.run][w.store].state \notin Done
      /\ UNCHANGED <<provider, run, pageCheckpoint, sync, raw>>
  BY DEF OpenStore, database
<1>2. PICK l \in Latest(rows), c \in Latest({r \in rows : r.complete}) :
        Becomes(p, [w EXCEPT !.pc = "read",
                             !.previous = a,
                             !.page = ResumePage(l),
                             !.mode = IF c.mode = "none"
                                      THEN InitialMode(a) ELSE c.mode,
                             !.anchorSeen = c.anchorSeen,
                             !.anchor = c.anchor,
                             !.got = 0, !.opened = FALSE, !.shown = {},
                             !.outcome = "none"])
  BY DEF OpenStore
<1>3. /\ w \in Worker /\ w.run \in Run /\ w.store \in Store /\ w.pc \notin Away
      /\ list \in SUBSET Day /\ a \in Anchor /\ rows \in SUBSET PageRow
  BY <1>1, InHole
<1>4. Between(w.run, rows, list, a, kept)
  <2>1. ASSUME NEW q \in Proc, InPagesOf(worker[q], w.run, w.store)
        PROVE  FALSE
    BY <1>1, <2>1 DEF InPagesOf, InPage, OneWorkerPerRun
  <2> QED  BY <1>1, <1>3, <2>1 DEF HoleInv, RowsRest, Busy, BetweenNow
<1>5. /\ Shows(list, w.store, a)
      /\ \A e \in rows : Shows(list, w.store, e.anchor)
  BY <1>3 DEF HoleInv, AnchorsShown
<1> DEFINE n == ResumePage(l)
           m == IF c.mode = "none" THEN InitialMode(a) ELSE c.mode
           v == [w EXCEPT !.pc = "read", !.previous = a, !.page = n,
                          !.mode = m, !.anchorSeen = c.anchorSeen,
                          !.anchor = c.anchor, !.got = 0, !.opened = FALSE,
                          !.shown = {}, !.outcome = "none"]
<1>6. Becomes(p, v)
  BY <1>2
<1> HIDE DEF n, m, rows, a, list, kept
<1>7. /\ v.pc = "read" /\ v.run = w.run /\ v.store = w.store
      /\ v.page = n /\ v.mode = m /\ v.anchorSeen = c.anchorSeen
      /\ v.anchor = c.anchor /\ v.previous = a
  BY <1>3 DEF Worker
<1> HIDE DEF v, w
<1>8. WorkerFits(v, rows, list, a, kept)
  BY <1>3, <1>4, <1>5, <1>7, OpenFits DEF n, m
<1> QED
  BY <1>1, <1>3, <1>6, <1>7, <1>8, ReadingHole
     DEF rows, a, list, kept, w, Reading, InPage

\* The reviews of page n, and those of them back to a day.
ItemsOf(list, n) ==
  {d \in list : RankIn(list, d) \in (PagesBefore(n) + 1)..PagesUpTo(n)}
Back(items, day) == {d \in items : d >= day}

\* A page was read: the anchor is in it, or all of it is newer.
LEMMA ReadFits ==
  ASSUME CollectionAssumption, NEW w \in Worker, NEW rows,
         NEW list \in SUBSET Day, NEW a \in Anchor, NEW kept,
         WorkerFits(w, rows, list, a, kept), Shows(list, w.store, a),
         w.pc = "read", NEW x, x.pc = "protect", x.run = w.run,
         x.store = w.store,
         x.page = w.page, x.mode = w.mode, x.anchorSeen = w.anchorSeen,
         x.anchor = w.anchor, x.previous = w.previous,
         NEW items, NEW cut \in Int,
         items = ItemsOf(list, w.page), x.todo = Back(items, cut),
         x.todo # items => ListEnded(x)
  PROVE  WorkerFits(x, rows, list, a, kept)
<1> USE DEF ItemsOf, Back
<1>1. PageLeft(x) = x.todo /\ x.pc \in InPage /\ x.todo \subseteq list
  BY DEF PageLeft, InPage
<1>2. RowsFit(x, rows)
  BY DEF WorkerFits, RowsFit
<1>3. ASSUME x.mode = "INCREMENTAL"
      PROVE  SafelyIncremental(x, list, a, kept)
  <2> DEFINE m == PagesBefore(w.page)
             n == PagesUpTo(w.page)
             rank(d) == RankIn(list, d)
  <2>1. SafelyIncremental(w, list, a, kept)
    BY <1>3 DEF WorkerFits
  <2> SUFFICES ASSUME ~w.anchorSeen
               PROVE  SafelyIncremental(x, list, a, kept)
    BY <1>1, <2>1 DEF SafelyIncremental
  <2>2. a # NoReview /\ rank(a) > m
    BY <2>1 DEF SafelyIncremental, Beyond
  <2>3. m \in Int /\ n \in Int
    BY PageEnds DEF Worker
  <2>4. list \in SUBSET (1..LastDay) /\ LastDay \in Nat /\ a \in Int
    BY DEF Day, CollectionAssumption, Anchor, NoReview
  <2>5. rank(a) \in Nat
    BY <2>4, RankFacts
  <2>6. ASSUME NEW d \in list
        PROVE  /\ d \in Int /\ rank(d) \in Nat
               /\ d <= a => rank(a) <= rank(d)
    <3>1. d \in Int
      BY <2>4
    <3> QED  BY <2>4, <3>1, RankFacts
  <2>7. \A d \in list : d <= a => rank(a) <= rank(d)
    BY <2>6
  <2> HIDE DEF m, n, rank
  <2>8. CASE rank(a) > n
    <3>1. \A t \in x.todo : t > a
      <4> SUFFICES ASSUME NEW t \in x.todo, ~ (t > a) PROVE FALSE
        OBVIOUS
      <4>1. t \in list /\ rank(t) \in (m + 1)..n
        BY DEF m, n, rank
      <4>2. t \in Int /\ rank(t) \in Nat /\ rank(t) <= n /\ t <= a
        BY <2>3, <2>4, <2>6, <4>1
      <4> QED  BY <2>3, <2>5, <2>7, <2>8, <4>1, <4>2
    <3>2. Beyond(list, a, PagesUpTo(x.page))
      BY <2>2, <2>8 DEF Beyond, n, rank
    <3> QED  BY <1>1, <3>1, <3>2, <2>1 DEF Ahead, SafelyIncremental
  <2>9. CASE rank(a) <= n /\ a \in list
    <3>1. a \in items
      <4>1. rank(a) \in (m + 1)..n
        BY <2>2, <2>3, <2>5, <2>9
      <4> QED  BY <2>9, <4>1 DEF m, n, rank
    <3>2. CASE a >= cut
      BY <1>1, <2>1, <3>1, <3>2 DEF Ahead, SafelyIncremental
    <3>3. CASE ~ (a >= cut)
      <4>1. a \notin x.todo /\ ListEnded(x)
        BY <3>1, <3>3
      <4>2. \A t \in x.todo : t > a
        <5> SUFFICES ASSUME NEW t \in x.todo PROVE t > a
          OBVIOUS
        <5>1. t \in Int /\ t >= cut
          BY <1>1, <2>6
        <5> QED  BY <2>4, <3>3, <5>1
      <4> QED  BY <1>1, <2>1, <4>1, <4>2 DEF Ahead, SafelyIncremental
    <3> QED  BY <3>2, <3>3
  <2>10. a \in list
    BY <2>2 DEF Shows
  <2> QED  BY <2>3, <2>5, <2>8, <2>9, <2>10
<1> QED  BY <1>1, <1>2, <1>3 DEF WorkerFits

\* A process reads a page.
LEMMA ReadHole ==
  ASSUME CollectionAssumption, HoleInv, OneWorkerPerRun, TypeInv', DoneKept,
         NEW p \in Proc, ReadPage(p)
  PROVE  HoleInv'
<1> DEFINE w == worker[p]
           rows == pageCheckpoint[w.run][w.store]
           a == sync[w.store].anchor
           list == listing[w.store]
           kept == raw[w.store]
           cut == run[w.run].asOf - Window
           items == PageOf(w.store, w.page)
           recent == {d \in items : d >= cut}
           shown == IF recent = {} THEN w.shown ELSE recent
           end == BoundaryOf(w, items, recent)
           v == [w EXCEPT !.pc = "protect", !.todo = recent, !.opened = TRUE,
                          !.shown = shown, !.boundary = end]
<1>1. /\ w.pc = "read" /\ Becomes(p, v)
      /\ UNCHANGED <<provider, run, pageCheckpoint, sync, raw>>
  BY DEF ReadPage, database
<1>2. /\ w \in Worker /\ w.run \in Run /\ w.store \in Store /\ w.pc \notin Away
      /\ list \in SUBSET Day /\ a \in Anchor
      /\ WorkerFits(w, rows, list, a, kept)
  BY <1>1, InHole DEF Reading
<1>3. Shows(list, w.store, a)
  BY <1>2 DEF HoleInv, AnchorsShown
<1>4. cut \in Int
  BY <1>2 DEF HoleInv, TypeInv, TypeOK, RunRow, CollectionAssumption
<1>5. items = ItemsOf(list, w.page)
  BY DEF ItemsOf, PageOf, PagesBefore, PagesUpTo, Rank, RankIn
<1>6. recent # items => end = "CUTOFF"
  BY DEF BoundaryOf
<1> HIDE DEF rows, a, list, kept, cut, items, recent, shown, end
<1>7. /\ v.pc = "protect" /\ v.run = w.run /\ v.store = w.store
      /\ v.page = w.page /\ v.mode = w.mode /\ v.anchorSeen = w.anchorSeen
      /\ v.anchor = w.anchor /\ v.previous = w.previous
      /\ v.todo = recent /\ v.boundary = end
  BY <1>2 DEF Worker
<1> HIDE DEF v
<1>8. v.todo # items => ListEnded(v)
  BY <1>6, <1>7 DEF ListEnded
<1>9. v.todo = Back(items, cut)
  BY <1>7 DEF recent, Back
<1> HIDE DEF w
<1>10. WorkerFits(v, rows, list, a, kept)
  BY <1>1, <1>2, <1>3, <1>4, <1>5, <1>7, <1>8, <1>9, ReadFits
<1> QED
  BY <1>1, <1>2, <1>7, <1>10, ReadingHole
     DEF rows, a, list, kept, w, Reading, InPage

\* A completed page is left: for the next one, in a pause or by a crash.
LEMMA ClosedBetween ==
  ASSUME NEW w \in Worker, NEW rows \in SUBSET PageRow, NEW list, NEW a,
         NEW kept, WorkerFits(w, rows, list, a, kept), w.pc = "closed",
         ~Undecided(w)
  PROVE  Between(w.run, rows, list, a, kept)
<1>1. RowsFit(w, rows) /\ w.page \in Nat /\ w.mode # "none"
  BY DEF WorkerFits, Worker, Modes
<1>2. PICK e \in rows : e.page = w.page
  BY <1>1 DEF RowsFit
<1>3. \A c \in rows : c.page \in Nat
  BY DEF PageRow
<1>4. ASSUME NEW c \in rows
      PROVE  c.complete /\ c.mode # "none" /\ c.page >= 1
  <2>1. CASE c.page < w.page
    BY <1>1, <2>1 DEF RowsFit
  <2>2. CASE c.page = w.page
    BY <1>1, <2>2 DEF RowsFit
  <2>3. c.page <= w.page
    BY <1>1 DEF RowsFit
  <2> QED  BY <1>1, <1>3, <2>1, <2>2, <2>3
<1>5. ASSUME NEW c \in rows, c.mode = "INCREMENTAL", IsLast(c, rows)
      PROVE  /\ a # NoReview /\ NewerThan(a, w.run, kept)
             /\ c.anchorSeen \/ Beyond(list, a, PagesUpTo(c.page))
  <2>1. c.page = w.page
    <3>1. c.page <= w.page /\ e.page <= c.page
      BY <1>1, <1>5 DEF RowsFit, IsLast
    <3> QED  BY <1>1, <1>2, <1>3, <3>1
  <2>2. w.mode = "INCREMENTAL" /\ c.anchorSeen = w.anchorSeen
    BY <1>1, <1>5, <2>1 DEF RowsFit
  <2>3. w.anchorSeen \/ ~ListEnded(w)
    BY <2>2 DEF Undecided
  <2>4. SafelyIncremental(w, list, a, kept) /\ PageLeft(w) = {}
    BY <2>2 DEF WorkerFits, PageLeft
  <2>5. /\ a # NoReview /\ NewerThan(a, w.run, kept)
        /\ w.anchorSeen \/ Beyond(list, a, PagesUpTo(w.page))
    BY <2>3, <2>4 DEF SafelyIncremental, Ahead, NewerThan, InPage
  <2> QED  BY <2>1, <2>2, <2>3, <2>5
<1> QED  BY <1>2, <1>4, <1>5 DEF Between

\* The page after a completed one.
LEMMA NextFits ==
  ASSUME CollectionAssumption, NEW w \in Worker, NEW rows \in SUBSET PageRow,
         NEW list, NEW a, NEW kept, WorkerFits(w, rows, list, a, kept),
         w.pc = "closed", MorePages(w), Between(w.run, rows, list, a, kept),
         NEW v, v.pc = "read", v.run = w.run, v.store = w.store,
         v.page = w.page + 1, v.mode = w.mode, v.anchorSeen = w.anchorSeen,
         v.anchor = w.anchor, v.previous = w.previous
  PROVE  WorkerFits(v, rows, list, a, kept)
<1>1. RowsFit(w, rows) /\ w.page \in Nat
  BY DEF WorkerFits, Worker
<1>2. \A c \in rows : c.page \in Nat
  BY DEF PageRow
<1>3. \A c \in rows : c.page <= w.page /\ c.page >= 1
  BY <1>1 DEF RowsFit
<1>4. \A c \in rows : c.page < v.page /\ c.page <= v.page
  BY <1>1, <1>2, <1>3
<1>5. RowsFit(v, rows)
  BY <1>3, <1>4 DEF RowsFit, Between
<1>6. PageLeft(v) = {} /\ v.pc \notin InPage /\ v.page >= 1
  BY <1>1 DEF PageLeft, InPage
<1>7. ASSUME v.mode = "INCREMENTAL"
      PROVE  SafelyIncremental(v, list, a, kept)
  <2>1. SafelyIncremental(w, list, a, kept) /\ PageLeft(w) = {}
    BY <1>7 DEF WorkerFits, PageLeft
  <2>2. ~w.anchorSeen /\ ~ListEnded(w)
    BY <1>7 DEF MorePages, AnchorReached
  <2>3. Beyond(list, a, PagesUpTo(w.page))
    BY <2>1, <2>2 DEF SafelyIncremental, Ahead, InPage
  <2>4. PagesBefore(v.page) = PagesUpTo(w.page)
    BY <1>1, PageEnds
  <2> QED  BY <1>6, <2>1, <2>2, <2>3, <2>4 DEF SafelyIncremental
<1> QED  BY <1>5, <1>6, <1>7 DEF WorkerFits

\* A process goes on to the next page, or pauses before it.
LEMMA MoreHole ==
  ASSUME CollectionAssumption, HoleInv, OneWorkerPerRun, TypeInv', DoneKept,
         NEW p \in Proc, PauseStore(p) \/ NextPage(p)
  PROVE  HoleInv'
<1> DEFINE w == worker[p]
           rows == pageCheckpoint[w.run][w.store]
           a == sync[w.store].anchor
           list == listing[w.store]
           kept == raw[w.store]
<1>1. /\ w.pc = "closed" /\ MorePages(w)
      /\ UNCHANGED <<provider, run, pageCheckpoint, sync, raw>>
  BY DEF PauseStore, NextPage, Leave, database
<1>2. /\ w \in Worker /\ w.run \in Run /\ w.store \in Store /\ w.pc \notin Away
      /\ rows \in SUBSET PageRow
      /\ WorkerFits(w, rows, list, a, kept)
  BY <1>1, InHole DEF Reading, InPage
<1>3. Between(w.run, rows, list, a, kept)
  <2>1. ~Undecided(w)
    BY <1>1 DEF Undecided, MorePages
  <2> QED  BY <1>1, <1>2, <2>1, ClosedBetween
<1>4. UNCHANGED <<listing, pageCheckpoint, sync, raw>>
  BY <1>1 DEF provider
<1>5. AnchorsShown'
  BY <1>4, ShownFrame DEF ListsGrow
<1>6. ASSUME NEW v, NEW r \in Run, NEW s \in Store PROVE RestNext(r, s, w, v)
  <2>1. CASE r = w.run /\ s = w.store
    BY <1>3, <1>4, <2>1 DEF RestNext, BetweenNext
  <2>2. CASE ~ (r = w.run /\ s = w.store)
    BY <1>4, <2>2 DEF RestNext, InPagesOf, BetweenNow, BetweenNext
  <2> QED  BY <2>1, <2>2
<1>7. ASSUME NEW v, Becomes(p, v), v.run = w.run, v.store = w.store,
             v.pc \in Reading => WorkerFits(v, rows, list, a, kept)
      PROVE  HoleInv'
  <2>1. FitsNext(v)
    BY <1>4, <1>7 DEF FitsNext
  <2> HIDE DEF w
  <2> QED  BY <1>1, <1>2, <1>5, <1>6, <1>7, <2>1, InsideHole DEF w
<1>8. CASE PauseStore(p)
  <2> DEFINE v == [w EXCEPT !.pc = "settle", !.outcome = "paused"]
  <2>1. Becomes(p, v)
    BY <1>8 DEF PauseStore, Leave
  <2>2. v.pc = "settle" /\ v.run = w.run /\ v.store = w.store
    BY <1>2 DEF Worker
  <2> HIDE DEF v, w, rows, list, a, kept
  <2>3. v.pc \notin Reading
    BY <2>2 DEF Reading, InPage
  <2> QED  BY <1>7, <2>1, <2>2, <2>3
<1>9. CASE NextPage(p)
  <2> DEFINE n == w.page + 1
             v == [w EXCEPT !.pc = "read", !.page = n]
  <2>1. Becomes(p, v)
    BY <1>9 DEF NextPage, PageAfter
  <2> HIDE DEF n, rows, list, a, kept
  <2>2. /\ v.pc = "read" /\ v.run = w.run /\ v.store = w.store /\ v.page = n
        /\ v.mode = w.mode /\ v.anchorSeen = w.anchorSeen
        /\ v.anchor = w.anchor /\ v.previous = w.previous
    BY <1>2 DEF Worker
  <2> HIDE DEF v, w
  <2>3. WorkerFits(v, rows, list, a, kept)
    BY <1>1, <1>2, <1>3, <2>2, NextFits DEF n
  <2> QED  BY <1>7, <2>1, <2>2, <2>3
<1> QED  BY <1>8, <1>9

\* A rejected review is no anchor.
LEMMA RejectHole ==
  ASSUME CollectionAssumption, HoleInv, OneWorkerPerRun, TypeInv', DoneKept,
         NEW p \in Proc, NEW d \in Day, RejectReview(p, d)
  PROVE  HoleInv'
<1> DEFINE w == worker[p]
           rows == pageCheckpoint[w.run][w.store]
           a == sync[w.store].anchor
           list == listing[w.store]
           kept == raw[w.store]
           v == [w EXCEPT !.todo = @ \ {d}]
<1>1. /\ w.pc = "protect" /\ Becomes(p, v) /\ d \in Pii[w.store]
      /\ UNCHANGED <<provider, run, pageCheckpoint, sync, raw>>
  BY DEF RejectReview, Protecting, database
<1>2. /\ w \in Worker /\ w.run \in Run /\ w.store \in Store /\ w.pc \notin Away
      /\ WorkerFits(w, rows, list, a, kept)
  BY <1>1, InHole DEF Reading, InPage
<1>3. Shows(list, w.store, a)
  BY <1>2 DEF HoleInv, AnchorsShown
<1>4. /\ v.pc = "protect" /\ v.run = w.run /\ v.store = w.store
      /\ v.todo = w.todo \ {d} /\ v.page = w.page /\ v.mode = w.mode
      /\ v.anchorSeen = w.anchorSeen /\ v.anchor = w.anchor
      /\ v.previous = w.previous /\ v.boundary = w.boundary
  BY <1>1, <1>2 DEF Worker
<1> HIDE DEF v, rows, a, list, kept
<1>5. PageLeft(v) = w.todo \ {d} /\ PageLeft(w) = w.todo
  BY <1>1, <1>4 DEF PageLeft
<1>6. RowsFit(v, rows)
  BY <1>1, <1>2, <1>4 DEF WorkerFits, RowsFit
<1>7. ASSUME v.mode = "INCREMENTAL"
      PROVE  SafelyIncremental(v, list, a, kept)
  <2>1. SafelyIncremental(w, list, a, kept)
    BY <1>2, <1>4, <1>7 DEF WorkerFits
  <2>2. a # d
    BY <1>1, <1>3, <2>1 DEF Shows, SafelyIncremental
  <2>3. Ahead(w, list, a) => Ahead(v, list, a)
    BY <1>4, <1>5, <2>2 DEF Ahead, ListEnded
  <2> QED  BY <1>1, <1>4, <2>1, <2>3 DEF SafelyIncremental, InPage
<1>8. WorkerFits(v, rows, list, a, kept)
  BY <1>1, <1>2, <1>4, <1>5, <1>6, <1>7 DEF WorkerFits
<1> HIDE DEF w
<1> QED
  BY <1>1, <1>2, <1>4, <1>8, ReadingHole
     DEF rows, a, list, kept, w, Reading, InPage

\* The newest review of a page is one.
LEMMA OneNewest ==
  ASSUME NEW todo \in SUBSET Day, NEW d, NEW e, Newest(d, todo),
         Newest(e, todo)
  PROVE  d = e /\ d \in todo /\ d \in Int
<1>1. d \in todo /\ e \in todo /\ d <= e /\ e <= d
  BY DEF Newest
<1>2. d \in Int /\ e \in Int
  BY <1>1 DEF Day
<1> QED  BY <1>1, <1>2

\* The row of a review is written: what the other runs collected stays as it
\* was.
LEMMA EncryptHole ==
  ASSUME CollectionAssumption, HoleInv, OneWorkerPerRun, TypeInv', DoneKept,
         NEW p \in Proc, NEW d \in Day, EncryptReview(p, d)
  PROVE  HoleInv'
<1> DEFINE w == worker[p]
           rows == pageCheckpoint[w.run][w.store]
           a == sync[w.store].anchor
           list == listing[w.store]
           then == raw'[w.store]
           got == IF NotStored(w.store, d) THEN w.got + 1 ELSE w.got
           v == [w EXCEPT !.pc = "sealed", !.got = got]
<1>1. /\ w.pc = "protect" /\ Becomes(p, v) /\ d \notin Pii[w.store]
      /\ Newest(d, w.todo)
      /\ raw' = [raw EXCEPT ![w.store][d] =
                   IF NotStored(w.store, d) THEN w.run ELSE @]
      /\ UNCHANGED <<provider, run, pageCheckpoint, sync>>
  BY DEF EncryptReview, Protecting, progress
<1>2. /\ w \in Worker /\ w.run \in Run /\ w.store \in Store /\ w.pc \notin Away
      /\ w.todo \in SUBSET Day
      /\ WorkerFits(w, rows, list, a, raw[w.store])
  BY <1>1, InHole DEF Reading, InPage
<1>3. UNCHANGED <<listing, pageCheckpoint, sync>>
  BY <1>1 DEF provider
<1>4. ASSUME NEW s \in Store, NEW e \in Day
      PROVE  /\ raw'[s][e] \in {raw[s][e], w.run}
             /\ s # w.store \/ e # d => raw'[s][e] = raw[s][e]
  BY <1>1, <1>2 DEF HoleInv, TypeInv, TypeOK
<1> HIDE DEF got
<1>5. /\ v.pc = "sealed" /\ v.run = w.run /\ v.store = w.store
      /\ v.todo = w.todo /\ v.page = w.page /\ v.mode = w.mode
      /\ v.anchorSeen = w.anchorSeen /\ v.anchor = w.anchor
      /\ v.previous = w.previous /\ v.boundary = w.boundary
  BY <1>2 DEF Worker
<1> HIDE DEF v, rows, a, list, then
<1>6. PageLeft(v) = w.todo /\ PageLeft(w) = w.todo
  BY <1>1, <1>5 DEF PageLeft
<1>7. RowsFit(v, rows)
  BY <1>1, <1>2, <1>5 DEF WorkerFits, RowsFit
<1>8. ASSUME v.mode = "INCREMENTAL"
      PROVE  SafelyIncremental(v, list, a, then)
  <2>1. SafelyIncremental(w, list, a, raw[w.store])
    BY <1>2, <1>5, <1>8 DEF WorkerFits
  <2>2. ASSUME NEW e \in Day, then[e] = v.run
        PROVE  e > a \/ Newest(e, v.todo)
    <3>1. CASE e = d
      BY <1>1, <1>5, <3>1
    <3>2. CASE e # d
      <4>1. raw[w.store][e] = w.run
        BY <1>2, <1>4, <1>5, <2>2, <3>2 DEF then
      <4> QED  BY <1>1, <2>1, <4>1 DEF SafelyIncremental
    <3> QED  BY <3>1, <3>2
  <2>3. Ahead(w, list, a) => Ahead(v, list, a)
    BY <1>5, <1>6 DEF Ahead, ListEnded
  <2> QED  BY <1>1, <1>5, <2>1, <2>2, <2>3 DEF SafelyIncremental, InPage
<1>9. \A e \in v.todo : Newest(e, v.todo) => e \notin Pii[v.store]
  BY <1>1, <1>2, <1>5, OneNewest
<1>10. WorkerFits(v, rows, list, a, then)
  BY <1>1, <1>2, <1>5, <1>6, <1>7, <1>8, <1>9 DEF WorkerFits
<1>11. FitsNext(v)
  BY <1>3, <1>5, <1>10 DEF FitsNext, rows, a, list, then
<1>12. ASSUME NEW r \in Run, NEW s \in Store PROVE RestNext(r, s, w, v)
  <2>1. CASE r = w.run /\ s = w.store
    BY <1>5, <2>1 DEF RestNext, InPagesOf, InPage
  <2>2. CASE ~ (r = w.run /\ s = w.store)
    <3>1. ASSUME NEW e \in Day, raw'[s][e] = r PROVE raw[s][e] = r
      BY <1>4, <2>2, <3>1
    <3>2. BetweenNow(r, s) => BetweenNext(r, s)
      BY <1>3, <3>1 DEF BetweenNow, BetweenNext, Between, NewerThan
    <3> QED  BY <2>2, <3>2 DEF RestNext, InPagesOf
  <2> QED  BY <2>1, <2>2
<1>13. AnchorsShown'
  BY <1>3, ShownFrame DEF ListsGrow
<1> HIDE DEF w
<1> QED
  BY <1>1, <1>2, <1>5, <1>11, <1>12, <1>13, InsideHole DEF w

\* A process writes the row of its page.
LEMMA PageHole ==
  ASSUME CollectionAssumption, HoleInv, OneWorkerPerRun, TypeInv', DoneKept,
         NEW p \in Proc, NEW w, w = worker[p], NEW v, NEW row, NEW rows,
         w.pc \in InPage, PutPage(w, row), Becomes(p, v),
         rows = {c \in pageCheckpoint[w.run][w.store] : c.page # row.page}
                  \cup {row},
         v.run = w.run, v.store = w.store, v.pc \in InPage,
         Shows(listing[w.store], w.store, row.anchor),
         WorkerFits(v, rows, listing[w.store], sync[w.store].anchor,
                    raw[w.store]),
         UNCHANGED <<provider, run, sync, raw>>
  PROVE  HoleInv'
<1>1. w.run \in Run /\ w.store \in Store /\ w.pc \notin Away
  BY InHole DEF Reading, InPage
<1>2. pageCheckpoint \in [Run -> [Store -> SUBSET PageRow]]
  BY DEF HoleInv, TypeInv, TypeOK
<1>3. ASSUME NEW r \in Run, NEW s \in Store
      PROVE  pageCheckpoint'[r][s] = IF r = w.run /\ s = w.store THEN rows
                                     ELSE pageCheckpoint[r][s]
  BY <1>1, <1>2 DEF PutPage
<1>4. UNCHANGED <<listing, sync, raw>>
  BY DEF provider
<1>5. FitsNext(v)
  BY <1>1, <1>3, <1>4 DEF FitsNext
<1>6. ASSUME NEW r \in Run, NEW s \in Store PROVE RestNext(r, s, w, v)
  <2>1. CASE r = w.run /\ s = w.store
    BY <2>1 DEF RestNext, InPagesOf
  <2>2. CASE ~ (r = w.run /\ s = w.store)
    BY <1>3, <1>4, <2>2 DEF RestNext, InPagesOf, BetweenNow, BetweenNext
  <2> QED  BY <2>1, <2>2
<1>7. AnchorsShown'
  <2>1. ASSUME NEW r \in Run, NEW s \in Store, NEW c \in pageCheckpoint'[r][s]
        PROVE  Shows(listing[s], s, c.anchor)
    <3>1. c \in pageCheckpoint[r][s] \/ (s = w.store /\ c = row)
      BY <1>3, <2>1
    <3> QED  BY <3>1 DEF HoleInv, AnchorsShown
  <2> QED  BY <1>4, <2>1 DEF HoleInv, AnchorsShown
<1> QED  BY <1>1, <1>5, <1>6, <1>7, InsideHole

\* Review d of the page was recorded, before or just now.
LEMMA AbsorbFits ==
  ASSUME NEW w \in Worker, NEW rows \in SUBSET PageRow,
         NEW list \in SUBSET Day, NEW a \in Anchor, NEW kept, NEW d \in Day,
         NEW b \in BOOLEAN, WorkerFits(w, rows, list, a, kept),
         Newest(d, w.todo), d \notin Pii[w.store],
         \/ w.pc = "protect" /\ b
         \/ w.pc = "sealed" /\ ~b,
         NEW x, x = Absorb(w, d, b), NEW new,
         new = {c \in rows : c.page # w.page} \cup {PartialPage(w.page)}
  PROVE  /\ x.pc = "protect" /\ x.run = w.run /\ x.store = w.store
         /\ WorkerFits(x, new, list, a, kept)
<1> DEFINE an == IF w.anchor = NoReview THEN d ELSE w.anchor
           as == w.anchorSeen \/ (w.mode = "INCREMENTAL" /\ d = w.previous)
           m == IF HoleFound(w, d, b) THEN "BACKFILL_FALLBACK" ELSE w.mode
           v == [w EXCEPT !.pc = "protect", !.todo = @ \ {d}, !.anchor = an,
                          !.anchorSeen = as, !.mode = m]
<1>1. x = v
  BY DEF Absorb
<1>2. /\ an \in {w.anchor, d}
      /\ ~as /\ w.mode = "INCREMENTAL" => ~w.anchorSeen /\ d # w.previous
      /\ m = "INCREMENTAL" => w.mode = "INCREMENTAL" /\ ~HoleFound(w, d, b)
  OBVIOUS
<1> HIDE DEF an, as, m
<1>3. /\ v.pc = "protect" /\ v.run = w.run /\ v.store = w.store
      /\ v.todo = w.todo \ {d} /\ v.page = w.page /\ v.mode = m
      /\ v.anchorSeen = as /\ v.anchor = an
      /\ v.previous = w.previous /\ v.boundary = w.boundary
  BY DEF Worker
<1> HIDE DEF v
<1>4. /\ PageLeft(w) = w.todo /\ PageLeft(v) = w.todo \ {d}
      /\ w.todo \subseteq list /\ w.previous = a
      /\ w.page \in Nat /\ w.page >= 1 /\ w.todo \in SUBSET Day
  BY <1>3 DEF PageLeft, WorkerFits, Worker
<1>5. d \in w.todo /\ d \in Int /\ \A e \in w.todo : e \in Int /\ e <= d
  BY <1>4 DEF Newest, Day
<1>6. Shows(list, w.store, v.anchor)
  BY <1>2, <1>3, <1>4, <1>5 DEF WorkerFits, Shows
<1>7. RowsFit(v, new)
  <2>1. PartialPage(w.page).page = w.page
    BY DEF PartialPage
  <2>2. \A c \in rows : /\ c.page >= 1 /\ c.page <= w.page
                        /\ c.page < w.page => c.complete /\ c.mode # "none"
    BY DEF WorkerFits, RowsFit
  <2>3. \A c \in new : c \in rows \/ c = PartialPage(w.page)
    OBVIOUS
  <2> QED  BY <1>3, <1>4, <2>1, <2>2, <2>3 DEF RowsFit
<1>8. ASSUME v.mode = "INCREMENTAL"
      PROVE  SafelyIncremental(v, list, a, kept)
  <2>1. /\ w.mode = "INCREMENTAL" /\ ~HoleFound(w, d, b)
        /\ SafelyIncremental(w, list, a, kept)
    BY <1>2, <1>3, <1>8 DEF WorkerFits
  <2>2. ~b => ~w.anchorSeen /\ d # a
    BY <1>4, <2>1 DEF HoleFound, SafelyIncremental
  <2>3. ~w.anchorSeen => Ahead(w, list, a)
    BY <2>1 DEF SafelyIncremental, InPage
  <2>4. ~b => d > a
    <3>1. CASE a \in w.todo
      BY <1>5, <2>2, <3>1
    <3>2. CASE a \notin w.todo
      BY <1>4, <1>5, <2>2, <2>3, <3>2 DEF Ahead
    <3> QED  BY <3>1, <3>2
  <2>5. ASSUME NEW e \in Day, kept[e] = v.run PROVE e > a
    <3>1. e > a \/ (w.pc = "sealed" /\ Newest(e, w.todo))
      BY <1>3, <2>1, <2>5 DEF SafelyIncremental
    <3>2. CASE w.pc = "sealed" /\ Newest(e, w.todo)
      <4>1. e = d
        BY <1>4, <3>2, OneNewest
      <4> QED  BY <2>4, <3>2, <4>1
    <3> QED  BY <3>1, <3>2
  <2>6. ASSUME ~v.anchorSeen PROVE Ahead(v, list, a)
    <3>1. ~w.anchorSeen /\ d # a
      BY <1>2, <1>3, <1>4, <2>1, <2>6
    <3>2. Ahead(w, list, a)
      BY <2>3, <3>1
    <3> QED  BY <1>3, <1>4, <3>1, <3>2 DEF Ahead, ListEnded
  <2>7. a # NoReview
    BY <2>1 DEF SafelyIncremental
  <2> QED  BY <1>3, <2>5, <2>6, <2>7 DEF SafelyIncremental
<1>9. WorkerFits(v, new, list, a, kept)
  BY <1>3, <1>4, <1>6, <1>7, <1>8 DEF WorkerFits
<1> QED  BY <1>1, <1>3, <1>9

\* A review is recorded, or was before.
LEMMA RecordHole ==
  ASSUME CollectionAssumption, HoleInv, OneWorkerPerRun, TypeInv', DoneKept,
         NEW p \in Proc, NEW d \in Day,
         DuplicateReview(p, d) \/ MarkSeen(p, d)
  PROVE  HoleInv'
<1> DEFINE w == worker[p]
           rows == pageCheckpoint[w.run][w.store]
           a == sync[w.store].anchor
           list == listing[w.store]
           kept == raw[w.store]
           row == PartialPage(w.page)
           new == {c \in rows : c.page # w.page} \cup {row}
<1>1. w.pc \in {"protect", "sealed"} /\ UNCHANGED <<provider, run, sync, raw>>
  BY DEF DuplicateReview, MarkSeen, Protecting, reviews
<1>2. /\ w \in Worker /\ w.run \in Run /\ w.store \in Store
      /\ w.todo \in SUBSET Day /\ list \in SUBSET Day /\ a \in Anchor
      /\ rows \in SUBSET PageRow
      /\ WorkerFits(w, rows, list, a, kept)
  BY <1>1, InHole DEF Reading, InPage
<1>3. PICK b \in BOOLEAN :
        /\ MarkPage(w) /\ Becomes(p, Absorb(w, d, b))
        /\ Newest(d, w.todo) /\ d \notin Pii[w.store]
        /\ \/ w.pc = "protect" /\ b
           \/ w.pc = "sealed" /\ ~b
  <2>1. CASE DuplicateReview(p, d)
    BY <2>1 DEF DuplicateReview, Protecting
  <2>2. CASE MarkSeen(p, d)
    <3>1. w.pc = "sealed" /\ Newest(d, w.todo) /\ MarkPage(w)
          /\ Becomes(p, Absorb(w, d, FALSE))
      BY <2>2 DEF MarkSeen
    <3>2. d \notin Pii[w.store]
      BY <1>2, <3>1 DEF WorkerFits, Newest
    <3> QED  BY <3>1, <3>2
  <2> QED  BY <2>1, <2>2
<1> DEFINE v == Absorb(w, d, b)
<1>4. PutPage(w, row) /\ row.page = w.page /\ row.anchor = NoReview
  BY <1>3 DEF MarkPage, PartialPage
<1>5. new = {c \in rows : c.page # row.page} \cup {row}
  BY <1>4
<1> HIDE DEF rows, a, list, kept, v, w, row
<1>6. /\ v.pc = "protect" /\ v.run = w.run /\ v.store = w.store
      /\ WorkerFits(v, new, list, a, kept)
  BY <1>2, <1>3, AbsorbFits DEF v, row
<1>7. Shows(list, w.store, row.anchor)
  BY <1>4 DEF Shows
<1>8. Becomes(p, v) /\ w.pc \in InPage /\ v.pc \in InPage
  BY <1>1, <1>3, <1>6 DEF v, InPage
<1> HIDE DEF new
<1> QED
  BY <1>1, <1>4, <1>5, <1>6, <1>7, <1>8, PageHole DEF rows, a, list, kept, w

\* A page is completed: its row says what the process knows.
LEMMA ClosedFits ==
  ASSUME NEW w \in Worker, NEW rows \in SUBSET PageRow, NEW list, NEW a,
         NEW kept, NEW m \in Modes, WorkerFits(w, rows, list, a, kept),
         \/ w.pc = "protect" /\ w.todo = {} /\ m = w.mode
         \/ w.pc = "closed" /\ m = "BACKFILL_FALLBACK",
         NEW row, row.page = w.page, row.complete, row.mode = m,
         row.anchorSeen = w.anchorSeen, NEW new,
         new = {c \in rows : c.page # row.page} \cup {row},
         NEW v, v.pc = "closed", v.run = w.run, v.store = w.store,
         v.page = w.page, v.mode = m, v.anchorSeen = w.anchorSeen,
         v.anchor = w.anchor, v.previous = w.previous,
         v.boundary = w.boundary
  PROVE  WorkerFits(v, new, list, a, kept)
<1>1. PageLeft(w) = {} /\ PageLeft(v) = {} /\ w.page \in Nat
  BY DEF PageLeft, Worker
<1>2. /\ w.previous = a /\ w.page >= 1 /\ Shows(list, w.store, w.anchor)
      /\ RowsFit(w, rows)
  BY DEF WorkerFits
<1>3. RowsFit(v, new)
  <2>1. \A c \in new : c = row \/ (c \in rows /\ c.page # row.page)
    OBVIOUS
  <2>2. \A c \in rows : c.page >= 1 /\ c.page <= w.page
    BY <1>2 DEF RowsFit
  <2>3. \A c \in rows : c.page < w.page => c.complete /\ c.mode # "none"
    BY <1>2 DEF RowsFit
  <2>4. row \in new
    OBVIOUS
  <2> HIDE DEF Modes
  <2>5. \A c \in new : /\ c.page >= 1 /\ c.page <= v.page
                       /\ c.page < v.page => c.complete /\ c.mode # "none"
    BY <1>1, <1>2, <2>1, <2>2, <2>3
  <2>6. \A c \in new : c.page = v.page => c = row
    BY <2>1
  <2> QED  BY <2>4, <2>5, <2>6 DEF RowsFit
<1>4. ASSUME v.mode = "INCREMENTAL"
      PROVE  SafelyIncremental(v, list, a, kept)
  <2>1. w.pc = "protect" /\ w.mode = "INCREMENTAL"
    BY <1>4
  <2>2. SafelyIncremental(w, list, a, kept)
    BY <2>1 DEF WorkerFits
  <2>3. Ahead(w, list, a) => Ahead(v, list, a)
    BY <1>1 DEF Ahead, ListEnded
  <2> QED  BY <2>1, <2>2, <2>3 DEF SafelyIncremental, InPage
<1> QED  BY <1>1, <1>2, <1>3, <1>4 DEF WorkerFits

\* A page is completed, in the mode it was read in or as a fallback.
LEMMA CloseHole ==
  ASSUME CollectionAssumption, HoleInv, OneWorkerPerRun, TypeInv', DoneKept,
         NEW p \in Proc, ClosePage(p) \/ FallBack(p)
  PROVE  HoleInv'
<1> DEFINE w == worker[p]
           rows == pageCheckpoint[w.run][w.store]
           a == sync[w.store].anchor
           list == listing[w.store]
           kept == raw[w.store]
<1>1. /\ w.pc \in {"protect", "closed"}
      /\ UNCHANGED <<provider, run, sync, raw>>
  BY DEF ClosePage, FallBack, reviews
<1>2. /\ w \in Worker /\ w.run \in Run /\ w.store \in Store /\ w.pc \in InPage
      /\ w.mode \in Modes /\ rows \in SUBSET PageRow
      /\ WorkerFits(w, rows, list, a, kept)
  BY <1>1, InHole DEF Reading, InPage
<1> HIDE DEF rows, a, list, kept
<1>3. ASSUME NEW m \in Modes, CompletePage(w, m), NEW v, Becomes(p, v),
             \/ w.pc = "protect" /\ w.todo = {} /\ m = w.mode
             \/ w.pc = "closed" /\ m = "BACKFILL_FALLBACK",
             v.pc = "closed", v.run = w.run, v.store = w.store,
             v.page = w.page, v.mode = m, v.anchorSeen = w.anchorSeen,
             v.anchor = w.anchor, v.previous = w.previous,
             v.boundary = w.boundary
      PROVE  HoleInv'
  <2> DEFINE row == [page |-> w.page, complete |-> TRUE, mode |-> m,
                     anchorSeen |-> w.anchorSeen, anchor |-> w.anchor]
             new == {c \in rows : c.page # row.page} \cup {row}
  <2>1. PutPage(w, row)
    BY <1>3 DEF CompletePage
  <2>2. /\ row.page = w.page /\ row.complete /\ row.mode = m
        /\ row.anchorSeen = w.anchorSeen /\ row.anchor = w.anchor
    OBVIOUS
  <2> HIDE DEF row
  <2>3. Shows(list, w.store, row.anchor)
    BY <1>2, <2>2 DEF WorkerFits
  <2>4. WorkerFits(v, new, list, a, kept)
    BY <1>2, <1>3, <2>2, ClosedFits
  <2>5. v.pc \in InPage
    BY <1>3 DEF InPage
  <2>6. new = {c \in rows : c.page # row.page} \cup {row}
    OBVIOUS
  <2> HIDE DEF new
  <2> QED
    BY <1>1, <1>2, <1>3, <2>1, <2>3, <2>4, <2>5, <2>6, PageHole
       DEF rows, a, list, kept
<1>4. CASE ClosePage(p)
  <2> DEFINE v == [w EXCEPT !.pc = "closed"]
  <2>1. /\ Becomes(p, v) /\ CompletePage(w, w.mode)
        /\ w.pc = "protect" /\ w.todo = {}
    BY <1>4 DEF ClosePage
  <2>2. /\ v.pc = "closed" /\ v.run = w.run /\ v.store = w.store
        /\ v.page = w.page /\ v.anchor = w.anchor /\ v.previous = w.previous
        /\ v.boundary = w.boundary /\ v.mode = w.mode
        /\ v.anchorSeen = w.anchorSeen
    BY <1>2 DEF Worker
  <2> HIDE DEF v, w
  <2> QED  BY <1>2, <1>3, <2>1, <2>2
<1>5. CASE FallBack(p)
  <2> DEFINE m == "BACKFILL_FALLBACK"
             v == [w EXCEPT !.mode = m]
  <2>1. Becomes(p, v) /\ CompletePage(w, m) /\ w.pc = "closed"
    BY <1>5 DEF FallBack
  <2>2. /\ v.pc = "closed" /\ v.run = w.run /\ v.store = w.store
        /\ v.page = w.page /\ v.anchor = w.anchor /\ v.previous = w.previous
        /\ v.boundary = w.boundary /\ v.mode = m
        /\ v.anchorSeen = w.anchorSeen
    BY <1>2, <2>1 DEF Worker
  <2>3. m \in Modes
    BY DEF Modes
  <2> HIDE DEF v, w
  <2> QED  BY <1>3, <2>1, <2>2, <2>3
<1> QED  BY <1>4, <1>5

\* A store is completed: no other run is in the middle of it, so the new anchor
\* is none that a run goes on without.
LEMMA CompleteHole ==
  ASSUME CollectionAssumption, HoleInv, OneWorkerPerRun, TypeInv', DoneKept,
         NotOvertaking, NEW p \in Proc, CompleteStore(p)
  PROVE  HoleInv'
<1> DEFINE w == worker[p]
           v == [w EXCEPT !.pc = "settle", !.outcome = "done"]
           empty == w.anchor = NoReview /\ w.previous = NoReview
           done == [state |-> IF empty THEN "NO_REVIEWS" ELSE "COMPLETE",
                    mode |-> "none"]
           new == [anchor |-> w.anchor, mode |-> w.mode, run |-> w.run]
           state == IF w.anchor = NoReview THEN sync[w.store] ELSE new
<1>1. /\ w.pc = "closed" /\ Becomes(p, v)
      /\ storeCheckpoint' = [storeCheckpoint EXCEPT ![w.run][w.store] = done]
      /\ sync' = [sync EXCEPT ![w.store] = state]
      /\ UNCHANGED <<provider, run, pageCheckpoint, raw>>
  BY DEF CompleteStore, reviews
<1>2. /\ w \in Worker /\ w.run \in Run /\ w.store \in Store /\ w.pc \notin Away
      /\ Shows(listing[w.store], w.store, w.anchor)
  BY <1>1, InHole DEF Reading, InPage, WorkerFits
<1>3. /\ done.state \in Done /\ new.run = w.run /\ new.anchor = w.anchor
      /\ state \in {sync[w.store], new}
  BY DEF Done
<1>4. v.pc = "settle" /\ v.run = w.run
  BY <1>2 DEF Worker
<1>5. UNCHANGED <<listing, pageCheckpoint, raw>>
  BY <1>1 DEF provider
<1> HIDE DEF v, empty, done, new, state
<1>6. /\ \A s \in Store : sync'[s] = IF s = w.store THEN state ELSE sync[s]
      /\ storeCheckpoint'[w.run][w.store].state \in Done
  BY <1>1, <1>2, <1>3 DEF HoleInv, TypeInv, TypeOK
<1>7. AnchorsShown'
  <2>1. ASSUME NEW s \in Store
        PROVE  Shows(listing[s], s, sync'[s].anchor)
    BY <1>2, <1>3, <1>6 DEF HoleInv, AnchorsShown
  <2> QED  BY <1>5, <2>1 DEF HoleInv, AnchorsShown
<1>8. ASSUME NEW r \in Run, NEW s \in Store PROVE RestNext(r, s, w, v)
  <2>1. CASE r = w.run /\ s = w.store
    BY <1>6, <2>1 DEF RestNext
  <2>2. CASE ~ (r = w.run /\ s = w.store)
    <3>1. ~InPagesOf(w, r, s)
      BY <2>2 DEF InPagesOf
    <3>2. CASE sync'[s] = sync[s]
      BY <1>5, <3>1, <3>2 DEF RestNext, BetweenNow, BetweenNext
    <3>3. CASE sync'[s] # sync[s]
      <4>1. s = w.store /\ sync'[s].run = w.run /\ r # w.run
        BY <1>3, <1>6, <2>2, <3>3
      <4>2. pageCheckpoint[r][s] = {} \/ storeCheckpoint[r][s].state \in Done
        BY <3>3, <4>1 DEF NotOvertaking
      <4>3. CASE storeCheckpoint[r][s].state \in Done
        BY <4>3 DEF DoneKept, RestNext
      <4>4. CASE pageCheckpoint[r][s] = {}
        <5>1. BetweenNow(r, s) => BetweenNext(r, s)
          BY <1>5, <4>4 DEF BetweenNow, BetweenNext, Between
        <5> QED  BY <3>1, <5>1 DEF RestNext
      <4> QED  BY <4>2, <4>3, <4>4
    <3> QED  BY <3>2, <3>3
  <2> QED  BY <2>1, <2>2
<1>9. FitsNext(v)
  BY <1>4 DEF FitsNext, Reading, InPage
<1> HIDE DEF w
<1> QED
  BY <1>1, <1>2, <1>4, <1>7, <1>8, <1>9, InsideHole DEF w

-----------------------------------------------------------------------------
\* No run has begun, and no store has an anchor.
LEMMA HoleInit ==
  ASSUME CollectionAssumption, Init
  PROVE  HoleInv
<1>1. TypeInv
  BY InitTyped
<1>2. Idle.pc = "idle"
  BY IdleTyped
<1>3. \A r \in Run : ~run[r].slot
  BY DEF Init
<1>4. Alone
  BY <1>2, <1>3 DEF Alone, Init, Away
<1>5. AnchorsShown
  BY DEF AnchorsShown, Init, Shows
<1>6. ASSUME NEW r \in Run, NEW s \in Store PROVE BetweenNow(r, s)
  <2>1. pageCheckpoint[r][s] = {} /\ \A d \in Day : raw[s][d] = NoRun
    BY DEF Init
  <2>2. r # NoRun
    BY DEF CollectionAssumption
  <2> QED  BY <2>1, <2>2 DEF BetweenNow, Between
<1>7. WorkersFit
  BY <1>2 DEF WorkersFit, FitsNow, Init, Reading, InPage
<1> QED  BY <1>1, <1>4, <1>5, <1>6, <1>7 DEF HoleInv, RowsRest

\* A crash outside the pages, or in one that says what it demands.
LEMMA CrashHole ==
  ASSUME HoleInv, PagesEnd, OneWorkerPerRun, TypeInv', DoneKept,
         NEW p \in Proc, ReviewFails(p) \/ Crash(p)
  PROVE  HoleInv'
<1> DEFINE w == worker[p]
           rows == pageCheckpoint[w.run][w.store]
           a == sync[w.store].anchor
           list == listing[w.store]
           kept == raw[w.store]
<1>1. PICK v :
        /\ Becomes(p, v) /\ v.pc \in {"idle", "settle"}
        /\ v.pc # "idle" => w.pc \in {"protect", "sealed"}
  <2>1. w \in Worker /\ Idle.pc = "idle"
    BY WorkerTyped, IdleTyped DEF HoleInv
  <2>2. ASSUME NEW o, Leave(p, o)
        PROVE  \E v : Becomes(p, v) /\ v.pc = "settle"
    <3>1. [w EXCEPT !.pc = "settle", !.outcome = o].pc = "settle"
      BY <2>1 DEF Worker
    <3> QED  BY <2>2, <3>1 DEF Leave
  <2>3. CASE ReviewFails(p)
    <3>1. w.pc \in {"protect", "sealed"}
      BY <2>3 DEF ReviewFails, Protecting
    <3> QED  BY <2>2, <2>3, <3>1 DEF ReviewFails
  <2> QED  BY <2>1, <2>3 DEF Crash
<1>2. UNCHANGED <<provider, run, pageCheckpoint, sync, raw>>
  BY DEF ReviewFails, Crash, Leave, database
<1>3. worker'[p] = v
  BY <1>1, Updated DEF HoleInv
<1>4. ~Undecided(w)
  BY <1>1, <1>3 DEF PagesEnd, InPage
<1>5. v.pc = "idle" /\ w.pc \notin {"protect", "sealed"}
  BY <1>1, <1>4 DEF Undecided
<1>6. UNCHANGED <<listing, pageCheckpoint, sync, raw>>
  BY <1>2 DEF provider
<1>7. Alone'
  BY <1>1, <1>2, <1>5, AloneFrame DEF Away
<1>8. CASE w.pc \notin InPage
  BY <1>1, <1>5, <1>6, <1>7, <1>8, OutsideHole DEF Reading, InPage
<1>9. CASE w.pc = "closed"
  <2>1. /\ w \in Worker /\ rows \in SUBSET PageRow
        /\ WorkerFits(w, rows, list, a, kept)
    BY <1>9, InHole, CollectionAssumption DEF Reading, InPage
  <2>2. Between(w.run, rows, list, a, kept)
    BY <1>4, <1>9, <2>1, ClosedBetween
  <2>3. AnchorsShown'
    BY <1>6, ShownFrame DEF ListsGrow
  <2>4. ASSUME NEW r \in Run, NEW s \in Store PROVE RestNext(r, s, w, v)
    <3>1. CASE r = w.run /\ s = w.store
      BY <1>6, <2>2, <3>1 DEF RestNext, BetweenNext
    <3>2. CASE ~ (r = w.run /\ s = w.store)
      BY <1>6, <3>2 DEF RestNext, InPagesOf, BetweenNow, BetweenNext
    <3> QED  BY <3>1, <3>2
  <2>5. RowsRest'
    BY <1>1, <2>4, RestFrame
  <2>6. WorkersFit'
    BY <1>1, <1>5, <1>6, FitFrame DEF FitsNext, Reading, InPage
  <2> QED  BY <1>7, <2>3, <2>5, <2>6 DEF HoleInv
<1> QED  BY <1>5, <1>8, <1>9 DEF InPage

\* Every step keeps HoleInv, under the conditions of the theorem.
LEMMA NextHole ==
  ASSUME CollectionAssumption, NothingHides, HoleInv, TargetInv,
         PagesEnd, OneWorkerPerRun, NotOvertaking, [Next]_vars
  PROVE  HoleInv'
<1>1. TypeInv'
  BY NextTyped DEF HoleInv
<1>2. DoneKept
  <2>1. ASSUME NEW r \in Run, NEW s \in Store,
               storeCheckpoint[r][s].state \in Done
        PROVE  storeCheckpoint'[r][s].state \in Done
    <3>1. Complete(storeCheckpoint[r]) \subseteq Complete(storeCheckpoint'[r])
      BY NextTargets DEF TargetStep
    <3> QED  BY <2>1, <3>1 DEF Complete
  <2> QED  BY <2>1 DEF DoneKept
<1>3. CASE UNCHANGED vars
  BY <1>1, <1>3
     DEF vars, HoleInv, Alone, AnchorsShown, RowsRest, Busy, BetweenNow,
         WorkersFit, FitsNow
<1>4. CASE Provider
  BY <1>1, <1>4, ProviderHole
<1>5. ASSUME NEW p \in Proc, Operator(p) PROVE HoleInv'
  BY <1>1, <1>2, <1>5, OperatorHole
<1>6. ASSUME NEW p \in Proc, Work(p) PROVE HoleInv'
  <2>1. ASSUME NEW s \in Store,
               \/ WritePending(p, s) \/ SkipStore(p, s)
               \/ PauseBefore(p, s) \/ BeginStore(p, s)
        PROVE  HoleInv'
    BY <1>1, <1>2, <2>1, LoopHole
  <2>2. CASE \/ EnterLoop(p) \/ SkipCompleteStore(p) \/ StopProvider(p)
             \/ ReadFails(p) \/ SettleStore(p)
    BY <1>1, <1>2, <2>2, StepHole
  <2>3. CASE OpenStore(p) \/ ReadPage(p) \/ PauseStore(p) \/ NextPage(p)
    BY <1>1, <1>2, <2>3, OpenHole, ReadHole, MoreHole
  <2>4. ASSUME NEW d \in Day,
               \/ RejectReview(p, d) \/ DuplicateReview(p, d)
               \/ EncryptReview(p, d) \/ MarkSeen(p, d)
        PROVE  HoleInv'
    BY <1>1, <1>2, <2>4, RejectHole, EncryptHole, RecordHole
  <2>5. CASE ClosePage(p) \/ FallBack(p)
    BY <1>1, <1>2, <2>5, CloseHole
  <2>6. CASE CompleteStore(p)
    BY <1>1, <1>2, <2>6, CompleteHole
  <2>7. CASE AccountStore(p) \/ FinishRun(p)
    BY <1>1, <1>2, <2>7, AccountHole
  <2>8. CASE ReviewFails(p)
    BY <1>1, <1>2, <2>8, CrashHole
  <2> QED
    BY <1>6, <2>1, <2>2, <2>3, <2>4, <2>5, <2>6, <2>7, <2>8 DEF Work
<1>7. ASSUME NEW p \in Proc, Crash(p) PROVE HoleInv'
  BY <1>1, <1>2, <1>7, CrashHole
<1> QED  BY <1>3, <1>4, <1>5, <1>6, <1>7 DEF Next

\* Only completing a store writes its sync state.
LEMMA SyncWritten ==
  ASSUME [Next]_vars, sync' # sync
  PROVE  \E p \in Proc : CompleteStore(p)
<1>1. Next
  BY DEF vars
<1>2. ~Provider
  BY DEF Provider, Post, Hide, Reveal, progress
<1>3. \A p \in Proc : ~Operator(p) /\ ~Crash(p)
  BY DEF Operator, StartRun, ResumeRun, Crash, progress, database
<1>4. PICK p \in Proc : Work(p)
  BY <1>1, <1>2, <1>3 DEF Next
<1>5. \A s \in Store : /\ ~WritePending(p, s) /\ ~SkipStore(p, s)
                       /\ ~PauseBefore(p, s) /\ ~BeginStore(p, s)
  BY DEF WritePending, SkipStore, PauseBefore, BeginStore, database
<1>6. \A d \in Day : /\ ~RejectReview(p, d) /\ ~DuplicateReview(p, d)
                     /\ ~EncryptReview(p, d) /\ ~MarkSeen(p, d)
  BY DEF RejectReview, DuplicateReview, EncryptReview, MarkSeen, progress,
         database
<1>7. /\ ~EnterLoop(p) /\ ~SkipCompleteStore(p) /\ ~OpenStore(p)
      /\ ~ReadPage(p) /\ ~StopProvider(p) /\ ~ReadFails(p)
  BY DEF EnterLoop, SkipCompleteStore, OpenStore, ReadPage, StopProvider,
         ReadFails, Leave, database
<1>8. /\ ~ReviewFails(p) /\ ~ClosePage(p) /\ ~FallBack(p) /\ ~PauseStore(p)
      /\ ~NextPage(p) /\ ~SettleStore(p) /\ ~AccountStore(p) /\ ~FinishRun(p)
  BY DEF ReviewFails, ClosePage, FallBack, PauseStore, NextPage, SettleStore,
         AccountStore, FinishRun, Leave, database, progress
<1> QED  BY <1>4, <1>5, <1>6, <1>7, <1>8 DEF Work

\* A store that ends INCREMENTAL: the process that ends it collected nothing
\* older than the previous anchor.
LEMMA HoleStep ==
  ASSUME CollectionAssumption, HoleInv, [Next]_vars, NEW s \in Store,
         sync'[s] # sync[s], sync'[s].mode = "INCREMENTAL", NEW d \in Day,
         raw[s][d] = sync'[s].run
  PROVE  d > sync[s].anchor
<1>1. PICK p \in Proc : CompleteStore(p)
  BY SyncWritten
<1> DEFINE w == worker[p]
           new == [anchor |-> w.anchor, mode |-> w.mode, run |-> w.run]
<1>2. /\ w.pc = "closed"
      /\ sync' = [sync EXCEPT ![w.store] =
                    IF w.anchor = NoReview THEN sync[w.store] ELSE new]
  BY <1>1 DEF CompleteStore
<1>3. /\ w.store \in Store
      /\ WorkerFits(w, pageCheckpoint[w.run][w.store], listing[w.store],
                    sync[w.store].anchor, raw[w.store])
  BY <1>2, InHole DEF Reading, InPage
<1>4. s = w.store /\ sync'[s] = new
  BY <1>2, <1>3 DEF HoleInv, TypeInv, TypeOK
<1>5. new.mode = w.mode /\ new.run = w.run
  OBVIOUS
<1>6. w.mode = "INCREMENTAL" /\ raw[s][d] = w.run
  BY <1>4, <1>5
<1>7. SafelyIncremental(w, listing[s], sync[s].anchor, raw[s])
  BY <1>3, <1>4, <1>6 DEF WorkerFits
<1> QED  BY <1>2, <1>6, <1>7 DEF SafelyIncremental

\* A store that is left INCREMENTAL has collected no review older than the
\* anchor of before, so that the anchor of the next pass has no hole behind it
\* that this run met: collectStoreReviews turns the pass into a backfill for
\* the first such review.  The theorem holds for any number of stores, runs
\* and processes, any page size and window, whatever is posted or shown again,
\* and wherever a run is paused, stopped, fails or crashes.  Its hypotheses
\* are what the code relies on: no review goes away, no process ends in a page
\* that has yet to tell whether it demands the backfill, no two processes work
\* on one run, and no run completes a store that another has begun and not
\* completed.
THEOREM HolesAlwaysForceBackfill ==
  ASSUME NothingHides
  PROVE  /\ Spec
         /\ []OneWorkerPerRun /\ [][PagesEnd /\ NotOvertaking]_vars
         => HolesForceBackfill
<1>1. Init => HoleInv
  BY HoleInit, CollectionAssumption
<1>2. HoleInv /\ TargetInv /\ OneWorkerPerRun /\ [Next]_vars
        /\ [PagesEnd /\ NotOvertaking]_vars => HoleInv'
  <2>1. SUFFICES ASSUME HoleInv, TargetInv, OneWorkerPerRun, [Next]_vars,
                        [PagesEnd /\ NotOvertaking]_vars
                 PROVE  HoleInv'
    OBVIOUS
  <2>2. CASE UNCHANGED vars
    <3>1. \A p \in Proc : Undecided(worker[p]) => worker[p].pc \in InPage
      BY DEF Undecided, InPage
    <3>2. PagesEnd
      BY <2>2, <3>1 DEF PagesEnd, vars
    <3>3. NotOvertaking
      BY <2>2 DEF NotOvertaking, vars
    <3> QED  BY <2>1, <3>2, <3>3, NextHole, CollectionAssumption
  <2>3. CASE PagesEnd /\ NotOvertaking
    BY <2>1, <2>3, NextHole, CollectionAssumption
  <2> QED  BY <2>1, <2>2, <2>3
<1>3. HoleInv /\ [Next]_vars =>
        [\A s \in Store :
           sync'[s] # sync[s] /\ sync'[s].mode = "INCREMENTAL" =>
             \A d \in Day :
               raw[s][d] = sync'[s].run => d > sync[s].anchor]_vars
  BY HoleStep, CollectionAssumption
<1> QED
  BY <1>1, <1>2, <1>3, TargetInvHolds, PTL DEF Spec, HolesForceBackfill
=============================================================================
