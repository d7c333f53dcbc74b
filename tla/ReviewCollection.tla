-------------------------- MODULE ReviewCollection --------------------------
(***************************************************************************)
(* Kakao review collection into raw.sqlite: runReviewBatch drives          *)
(* collectStoreReviews over the matched stores of one discovery run.       *)
(*                                                                         *)
(* A step of a worker process is one SQLite commit or one await, so a      *)
(* crash and a step of another process can fall between any two of them.   *)
(* A review is named by the day it was published: every day one store      *)
(* receives one review, and a review's fingerprint is the pair of store    *)
(* and day.  The provider lists a store's reviews newest first, in pages   *)
(* of PageSize.  Duplicate and rejected counters, ciphertext, key versions *)
(* and the 30/400 day expiry are abstracted away.                          *)
(***************************************************************************)
EXTENDS Integers, FiniteSets

CONSTANTS
  NStores,         \* stores are 1..NStores; loadTargets orders by store id
  Run,             \* run ids an operator uses
  Discovery,       \* discovery runs, whose matched places are the targets
  Proc,            \* processes of the collect-reviews command
  NoRun,           \* not a run
  DiscoveryOf,     \* the discovery run each review run reads
  Matched,         \* stores matched eligible by each discovery run
  Listed,          \* days listed for each store in the initial state
  Pii,             \* days whose review deidentifyReview rejects, by store
  FirstDay,        \* today in the initial state
  LastDay,         \* bound: no review is published after this day
  Window,          \* days between as_of_date and the cutoff (12 months)
  PageSize,        \* reviews the provider shows in one page
  LiveReader,      \* TRUE: readLiveReviewPage; FALSE: a restartable source
  ProviderMoves,   \* what the provider's list may do: see Post, Hide, Reveal
  Faults,          \* what may go wrong or be asked for while a run works
  MaxInvocations   \* bound: invocations of one run

Store      == 1..NStores
Day        == 1..LastDay
NoReview   == 0
Anchor     == Day \cup {NoReview}
Modes      == {"INITIAL_BACKFILL", "INCREMENTAL", "BACKFILL_FALLBACK"}
ModeOrNone == Modes \cup {"none"}
Paused     == {"PAUSED_OPERATOR", "PAUSED_BUDGET"}
Closed     == {"SUCCEEDED", "PARTIAL"}
Stopped    == {"STOPPED_POLICY", "STOPPED_ACCESS", "FAILED_FINAL"}
Finals     == Paused \cup Closed \cup Stopped
Done       == {"COMPLETE", "NO_REVIEWS"}

ASSUME CollectionAssumption ==
  /\ NStores \in Nat /\ LastDay \in Nat /\ PageSize \in Nat \ {0}
  /\ Window \in Nat /\ FirstDay \in 0..LastDay /\ MaxInvocations \in Nat
  /\ NoRun \notin Run
  /\ IsFiniteSet(Run)
  /\ DiscoveryOf \in [Run -> Discovery]
  /\ Matched \in [Discovery -> SUBSET Store]
  /\ Listed \in [Store -> SUBSET (1..FirstDay)]
  /\ Pii \in [Store -> SUBSET Day]
  /\ LiveReader \in BOOLEAN
  /\ ProviderMoves \subseteq {"post", "hide", "reveal"}
  /\ Faults \subseteq {"crash", "operator", "budget", "read", "fingerprint",
                       "access", "dom", "integrity"}

VARIABLES
  today,           \* the current day
  listing,         \* provider: days whose review each store now shows
  run,             \* review_collection_run
  storeCheckpoint, \* review_checkpoint, page 0, by run and store
  pageCheckpoint,  \* review_checkpoint, pages above 0, by run and store
  seen,            \* review_seen_fingerprint, by store
  raw,             \* raw_review_ciphertext: the run_id of each row
  sync,            \* review_store_sync_state, by store
  locators,        \* kakao_place_locator: stores each discovery still locates
  worker,          \* the memory of each process
  invocations      \* bound: how often each run was started or resumed

provider == <<today, listing>>
reviews  == <<seen, raw>>
progress == <<storeCheckpoint, pageCheckpoint, sync>>
database == <<run, storeCheckpoint, pageCheckpoint, seen, raw, sync, locators>>
vars == <<today, listing, run, storeCheckpoint, pageCheckpoint, seen, raw,
          sync, locators, worker, invocations>>
-----------------------------------------------------------------------------
(* Rows and worker memory.                                                 *)

Counts == [collected : Nat, failed : Nat,
           initial : Nat, incremental : Int, fallback : Nat]

Statuses == {"NONE", "RUNNING"} \cup Finals

RunRow == [status : Statuses, slot : BOOLEAN,
           asOf : 0..LastDay, stores : Nat, counts : Counts]

\* page_cursor 'final', and a missing row, carry no mode (checkpointMode null).
StoreStates == {"NONE", "PENDING", "RUNNING", "FAILED_STORE",
                "STOPPED_PROVIDER"} \cup Done

StoreCheckpoint == [state : StoreStates, mode : ModeOrNone]

\* A page's cursor is 'page-complete' with what the pass knew by then, or the
\* place of the last review handled in it.
PageRow == [page : Nat, complete : BOOLEAN, mode : ModeOrNone,
            anchorSeen : BOOLEAN, anchor : Anchor]

PartialPage(n) == [page |-> n, complete |-> FALSE, mode |-> "none",
                   anchorSeen |-> FALSE, anchor |-> NoReview]

SyncState == [anchor : Anchor, mode : ModeOrNone, run : Run \cup {NoRun}]

\* Where a process is: in runReviewBatch (pending, loop, settle, account,
\* finish) or, for one store, in collectStoreReviews (the others).
Steps == {"idle", "pending", "loop", "open", "read", "protect", "sealed",
          "closed", "settle", "account", "finish"}

\* How collectStoreReviews ended.
Outcomes == {"none", "done", "paused", "access", "dom", "failed", "fatal"}

Boundaries == {"MORE", "DOM_END", "CUTOFF"}

Worker == [pc : Steps,
           run : Run \cup {NoRun},       \* options.runId
           left : SUBSET Store,          \* targets still to visit
           pend : SUBSET Store,          \* targets without a PENDING row yet
           ready : SUBSET Store,         \* targets whose sync state was READY
           counts : Counts,              \* the let-bound counters
           final : Finals,               \* finalStatus
           store : Store \cup {0},       \* target of this iteration
           target : Modes,               \* targetMode
           outcome : Outcomes,
           page : Nat, mode : Modes, anchorSeen : BOOLEAN,
           anchor : Anchor,              \* newAnchorFingerprint
           previous : Anchor,            \* previousAnchorFingerprint
           got : Nat,                    \* the store's collectedCount
           todo : SUBSET Day,            \* reviews of the page not handled yet
           boundary : Boundaries,
           opened : BOOLEAN,             \* paginationState.openedLocator
           shown : SUBSET Day]           \* the page this reader returned last

NoCounts == [collected |-> 0, failed |-> 0,
             initial |-> 0, incremental |-> 0, fallback |-> 0]

Idle == [pc |-> "idle", run |-> NoRun, left |-> {}, pend |-> {}, ready |-> {},
         counts |-> NoCounts, final |-> "SUCCEEDED", store |-> 0,
         target |-> "INITIAL_BACKFILL", outcome |-> "none", page |-> 0,
         mode |-> "INITIAL_BACKFILL", anchorSeen |-> FALSE,
         anchor |-> NoReview, previous |-> NoReview, got |-> 0, todo |-> {},
         boundary |-> "MORE", opened |-> FALSE, shown |-> {}]

Init ==
  /\ today = FirstDay
  /\ listing = Listed
  /\ run = [r \in Run |-> [status |-> "NONE", slot |-> FALSE, asOf |-> 0,
                           stores |-> 0, counts |-> NoCounts]]
  /\ storeCheckpoint =
       [r \in Run |-> [s \in Store |-> [state |-> "NONE", mode |-> "none"]]]
  /\ pageCheckpoint = [r \in Run |-> [s \in Store |-> {}]]
  /\ seen = [s \in Store |-> {}]
  /\ raw = [s \in Store |-> [d \in Day |-> NoRun]]
  /\ sync = [s \in Store |->
               [anchor |-> NoReview, mode |-> "none", run |-> NoRun]]
  /\ locators = Matched
  /\ worker = [p \in Proc |-> Idle]
  /\ invocations = [r \in Run |-> 0]

\* The memory of process p is v from now on, that of the others as it was.
Becomes(p, v) == worker' = [worker EXCEPT ![p] = v]
-----------------------------------------------------------------------------
(* The provider.                                                           *)

Post(s) ==
  /\ "post" \in ProviderMoves
  /\ today < LastDay
  /\ today' = today + 1
  /\ listing' = [listing EXCEPT ![s] = @ \cup {today + 1}]
  /\ UNCHANGED <<run, progress, reviews, locators, worker, invocations>>

Hide(s, d) ==
  /\ "hide" \in ProviderMoves
  /\ d \in listing[s]
  /\ listing' = [listing EXCEPT ![s] = @ \ {d}]
  /\ UNCHANGED <<today, run, progress, reviews, locators, worker, invocations>>

\* A review that was hidden, or an edited one: its new text has a fingerprint
\* nobody has seen.
Reveal(s, d) ==
  /\ "reveal" \in ProviderMoves
  /\ d \in (1..today) \ listing[s]
  /\ listing' = [listing EXCEPT ![s] = @ \cup {d}]
  /\ UNCHANGED <<today, run, progress, reviews, locators, worker, invocations>>

-----------------------------------------------------------------------------
(* runReviewBatch: start or resume.                                        *)

Targets(r) == locators[DiscoveryOf[r]]

\* The unique index on active_slot: the write fails while another run holds it.
SlotFreeFor(r) == \A q \in Run \ {r} : ~run[q].slot

\* Targets are visited in the order of their store ids.
Least(s, S) == s \in S /\ \A t \in S : s <= t

ReadyStores(S) == {s \in S : sync[s].anchor # NoReview}

StartRun(p, r) ==
  LET ready == ReadyStores(Targets(r)) IN
  /\ worker[p].pc = "idle"
  /\ run[r].status = "NONE"
  /\ invocations[r] < MaxInvocations
  /\ SlotFreeFor(r)
  /\ run' = [run EXCEPT ![r] =
       [status |-> "RUNNING", slot |-> TRUE, asOf |-> today,
        stores |-> Cardinality(Targets(r)),
        counts |-> [NoCounts EXCEPT
                      !.initial = Cardinality(Targets(r) \ ready),
                      !.incremental = Cardinality(ready)]]]
  /\ Becomes(p, [Idle EXCEPT !.pc = "pending", !.run = r, !.left = Targets(r),
                             !.pend = Targets(r), !.ready = ready])
  /\ invocations' = [invocations EXCEPT ![r] = @ + 1]
  /\ UNCHANGED <<provider, progress, reviews, locators>>

\* One PENDING row per target, each a commit of its own after the INSERT.
WritePending(p, s) ==
  LET w == worker[p] IN
  /\ w.pc = "pending"
  /\ Least(s, w.pend)
  /\ storeCheckpoint' = [storeCheckpoint EXCEPT ![w.run][s] =
       [state |-> "PENDING",
        mode |-> IF s \in w.ready THEN "INCREMENTAL" ELSE "INITIAL_BACKFILL"]]
  /\ Becomes(p, [w EXCEPT !.pend = @ \ {s}])
  /\ UNCHANGED <<provider, run, pageCheckpoint, sync, reviews, locators,
                 invocations>>

\* The row is read back and its counts become the loop's counters.
EnterLoop(p) ==
  /\ worker[p].pc = "pending"
  /\ worker[p].pend = {}
  /\ Becomes(p, [worker[p] EXCEPT !.pc = "loop",
                                  !.counts = run[worker[p].run].counts])
  /\ UNCHANGED <<provider, database, invocations>>

\* A run SUCCEEDED or PARTIAL is only summarised, everything else goes on; a
\* run left RUNNING by a crash, or by a process still at work, does too.
Resumable(r) == run[r].status \notin Closed \cup {"NONE"}

ResumeRun(p, r) ==
  /\ worker[p].pc = "idle"
  /\ Resumable(r)
  /\ invocations[r] < MaxInvocations
  /\ run[r].stores = Cardinality(Targets(r))
  /\ SlotFreeFor(r)
  /\ run' = [run EXCEPT ![r] = [@ EXCEPT !.status = "RUNNING", !.slot = TRUE]]
  /\ Becomes(p, [Idle EXCEPT !.pc = "loop", !.run = r, !.left = Targets(r),
                             !.counts = run[r].counts])
  /\ invocations' = [invocations EXCEPT ![r] = @ + 1]
  /\ UNCHANGED <<provider, progress, reviews, locators>>

-----------------------------------------------------------------------------
(* runReviewBatch: the loop over the targets, up to collectStoreReviews.   *)

\* The loop of process p has come to target s.
AtTarget(p, s) == worker[p].pc = "loop" /\ Least(s, worker[p].left)

\* What the page-0 row says of target s.
RowOf(p, s) == storeCheckpoint[worker[p].run][s]

SkipStore(p, s) ==
  /\ AtTarget(p, s)
  /\ RowOf(p, s).state \in Done
  /\ Becomes(p, [worker[p] EXCEPT !.left = @ \ {s}])
  /\ UNCHANGED <<provider, database, invocations>>

\* Mutant: completed stores are visited again.
ToCollectAll(p, s) == AtTarget(p, s)

ToCollect(p, s) == AtTarget(p, s) /\ RowOf(p, s).state \notin Done

Pause(p, status) ==
  Becomes(p, [worker[p] EXCEPT !.pc = "finish", !.final = status])

\* shouldPauseOperator, or the deadline has passed, before a target.
PauseBefore(p, s) ==
  /\ ToCollect(p, s)
  /\ \/ "operator" \in Faults /\ Pause(p, "PAUSED_OPERATOR")
     \/ "budget" \in Faults /\ Pause(p, "PAUSED_BUDGET")
  /\ UNCHANGED <<provider, database, invocations>>

\* Mutant: the row's mode without its default.
TargetModeRaw(row) == row.mode

TargetMode(row) == IF row.mode = "none" THEN "INITIAL_BACKFILL" ELSE row.mode

BeginStore(p, s) ==
  LET mode == TargetMode(RowOf(p, s)) IN
  /\ ToCollect(p, s)
  /\ storeCheckpoint' = [storeCheckpoint EXCEPT
       ![worker[p].run][s] = [state |-> "RUNNING", mode |-> mode]]
  /\ Becomes(p, [worker[p] EXCEPT !.pc = "open", !.store = s, !.target = mode,
                                  !.left = worker[p].left \ {s}])
  /\ UNCHANGED <<provider, run, pageCheckpoint, sync, reviews, locators,
                 invocations>>

-----------------------------------------------------------------------------
(* collectStoreReviews.                                                    *)

InitialMode(previous) ==
  IF previous = NoReview THEN "INITIAL_BACKFILL" ELSE "INCREMENTAL"

\* isAlreadyComplete: possible only when another process finished the store.
SkipCompleteStore(p) ==
  LET w == worker[p] IN
  /\ w.pc = "open"
  /\ storeCheckpoint[w.run][w.store].state \in Done
  /\ Becomes(p, [w EXCEPT !.pc = "settle", !.outcome = "done", !.got = 0,
                          !.mode = InitialMode(sync[w.store].anchor)])
  /\ UNCHANGED <<provider, database, invocations>>

\* Before page 1.
NoPage == [PartialPage(0) EXCEPT !.complete = TRUE]

\* The row with the greatest page number of C; NoPage when there is none.
Latest(C) == {c \in C \cup {NoPage} : \A e \in C : e.page <= c.page}

\* Mutant: the page in progress counts as done.
ResumePageNext(c) == c.page + 1

\* The page after the latest one, when that was completed.
ResumePage(c) == IF c.complete THEN c.page + 1 ELSE c.page

\* loadStoreSyncState and loadResumeState; a new page source for the store.
OpenStore(p) ==
  LET w == worker[p]
      rows == pageCheckpoint[w.run][w.store]
      previous == sync[w.store].anchor IN
  /\ w.pc = "open"
  /\ storeCheckpoint[w.run][w.store].state \notin Done
  /\ \E latest \in Latest(rows), c \in Latest({r \in rows : r.complete}) :
       Becomes(p, [w EXCEPT !.pc = "read",
                            !.previous = previous,
                            !.page = ResumePage(latest),
                            !.mode = IF c.mode = "none"
                                     THEN InitialMode(previous) ELSE c.mode,
                            !.anchorSeen = c.anchorSeen,
                            !.anchor = c.anchor,
                            !.got = 0, !.opened = FALSE, !.shown = {},
                            !.outcome = "none"])
  /\ UNCHANGED <<provider, database, invocations>>

\* Position of review d in the store's list, newest first.
Rank(s, d) == Cardinality({e \in listing[s] : e >= d})

PageOf(s, n) ==
  {d \in listing[s] : Rank(s, d) \in ((n - 1) * PageSize + 1)..(n * PageSize)}

\* The reader refuses a review dated after as_of_date; the live reader also a
\* page that starts above the previous one's end, or repeats it.
BadOrder(w) ==
  LET items  == PageOf(w.store, w.page)
      recent == {d \in items : d >= run[w.run].asOf - Window} IN
  \/ \E d \in items : d > run[w.run].asOf
  \/ /\ LiveReader
     /\ \/ \E d \in items, e \in w.shown : d > e
        \/ w.shown # {} /\ recent = w.shown

\* A live page source that was never opened cannot be asked for page 2.
LostPagination(w) == LiveReader /\ w.page > 1 /\ ~w.opened

Leave(p, outcome) ==
  /\ Becomes(p, [worker[p] EXCEPT !.pc = "settle", !.outcome = outcome])
  /\ UNCHANGED <<provider, database, invocations>>

\* Why the page is the last one, if it is.
BoundaryOf(w, items, recent) ==
  IF recent # items THEN "CUTOFF"
  ELSE IF PageOf(w.store, w.page + 1) # {} THEN "MORE" ELSE "DOM_END"

ReadPage(p) ==
  LET w      == worker[p]
      items  == PageOf(w.store, w.page)
      recent == {d \in items : d >= run[w.run].asOf - Window} IN
  /\ w.pc = "read"
  /\ ~LostPagination(w)
  /\ ~BadOrder(w)
  /\ Becomes(p, [w EXCEPT !.pc = "protect", !.todo = recent, !.opened = TRUE,
                          !.shown = IF recent = {} THEN @ ELSE recent,
                          !.boundary = BoundaryOf(w, items, recent)])
  /\ UNCHANGED <<provider, database, invocations>>

\* readPage returns STOP_PROVIDER: a signal from the provider, a list in the
\* wrong order, or page 2 asked of a reader that was never opened.
StopProvider(p) ==
  LET w == worker[p] IN
  /\ w.pc = "read"
  /\ \/ \E signal \in Faults \cap {"access", "dom"} : Leave(p, signal)
     \/ LostPagination(w) /\ Leave(p, "access")
     \/ ~LostPagination(w) /\ BadOrder(w) /\ Leave(p, "dom")

\* readPage throws: the store fails, the batch goes on.
ReadFails(p) ==
  /\ worker[p].pc = "read"
  /\ "read" \in Faults
  /\ Leave(p, "failed")

\* d is the next review of the page: they are handled newest first.
Newest(d, S) == d \in S /\ \A e \in S : e <= d

Protecting(p, d) == worker[p].pc = "protect" /\ Newest(d, worker[p].todo)

\* Mutant: newAnchor ??= review before the rejected ones are dropped.
RejectReviewAsAnchor(p, d) ==
  /\ Protecting(p, d)
  /\ d \in Pii[worker[p].store]
  /\ Becomes(p, [worker[p] EXCEPT
       !.todo = @ \ {d},
       !.anchor = IF @ = NoReview THEN d ELSE @])
  /\ UNCHANGED <<provider, database, invocations>>

RejectReview(p, d) ==
  /\ Protecting(p, d)
  /\ d \in Pii[worker[p].store]
  /\ Becomes(p, [worker[p] EXCEPT !.todo = @ \ {d}])
  /\ UNCHANGED <<provider, database, invocations>>

\* Mutant: a review behind the anchor is taken as it comes.
HoleFoundAtAnchor(w, d, wasSeen) ==
  w.mode = "INCREMENTAL" /\ d = w.previous /\ ~wasSeen

\* At the previous anchor or behind it: a review the ledger does not know.
HoleFound(w, d, wasSeen) ==
  /\ w.mode = "INCREMENTAL" /\ w.previous # NoReview
  /\ w.anchorSeen \/ d = w.previous
  /\ ~wasSeen

\* newAnchor ??= review; a hole turns an incremental pass into a backfill.
Absorb(w, d, wasSeen) ==
  [w EXCEPT !.pc = "protect",
            !.todo = @ \ {d},
            !.anchor = IF @ = NoReview THEN d ELSE @,
            !.anchorSeen = @ \/ (w.mode = "INCREMENTAL" /\ d = w.previous),
            !.mode = IF HoleFound(w, d, wasSeen)
                     THEN "BACKFILL_FALLBACK" ELSE @]

\* The row replaces the one its store and run have for the page.
PutPage(w, row) ==
  pageCheckpoint' = [pageCheckpoint EXCEPT ![w.run][w.store] =
                       {c \in @ : c.page # row.page} \cup {row}]

\* persistReviewCheckpoint.
MarkPage(w) == PutPage(w, PartialPage(w.page))

DuplicateReview(p, d) ==
  LET w == worker[p] IN
  /\ Protecting(p, d)
  /\ d \notin Pii[w.store]
  /\ d \in seen[w.store]
  /\ MarkPage(w)
  /\ Becomes(p, Absorb(w, d, TRUE))
  /\ UNCHANGED <<provider, run, storeCheckpoint, sync, reviews, locators,
                 invocations>>

\* Mutant: INSERT OR REPLACE.
NotStoredReplaced(s, d) == TRUE

\* ON CONFLICT DO NOTHING inserts only where no row has the fingerprint.
NotStored(s, d) == raw[s][d] = NoRun

\* Mutant: the ledger is written before the row.
EncryptReviewLedgerFirst(p, d) ==
  LET w == worker[p] IN
  /\ Protecting(p, d)
  /\ d \notin Pii[w.store]
  /\ d \notin seen[w.store]
  /\ seen' = [seen EXCEPT ![w.store] = @ \cup {d}]
  /\ Becomes(p, [w EXCEPT !.pc = "sealed"])
  /\ UNCHANGED <<provider, run, progress, raw, locators, invocations>>

\* Mutant: the review is counted whether or not its row was inserted.
EncryptReviewCounted(p, d) ==
  LET w == worker[p] IN
  /\ Protecting(p, d)
  /\ d \notin Pii[w.store]
  /\ d \notin seen[w.store]
  /\ raw' = [raw EXCEPT ![w.store][d] =
                IF NotStored(w.store, d) THEN w.run ELSE @]
  /\ Becomes(p, [w EXCEPT !.pc = "sealed", !.got = @ + 1])
  /\ UNCHANGED <<provider, run, progress, seen, locators, invocations>>

\* persistEncryptedReview, its own commit.
EncryptReview(p, d) ==
  LET w == worker[p]
      inserted == NotStored(w.store, d) IN
  /\ Protecting(p, d)
  /\ d \notin Pii[w.store]
  /\ d \notin seen[w.store]
  /\ raw' = [raw EXCEPT ![w.store][d] = IF inserted THEN w.run ELSE @]
  /\ Becomes(p, [w EXCEPT !.pc = "sealed",
                          !.got = IF inserted THEN @ + 1 ELSE @])
  /\ UNCHANGED <<provider, run, progress, seen, locators, invocations>>

\* recordSeenFingerprint and persistReviewCheckpoint after the raw commit.
MarkSeen(p, d) ==
  LET w == worker[p] IN
  /\ w.pc = "sealed"
  /\ Newest(d, w.todo)
  /\ seen' = [seen EXCEPT ![w.store] = @ \cup {d}]
  /\ MarkPage(w)
  /\ Becomes(p, Absorb(w, d, FALSE))
  /\ UNCHANGED <<provider, run, storeCheckpoint, sync, raw, locators,
                 invocations>>

\* A review that cannot be fingerprinted fails the store; a crypto, ledger or
\* SQLite error fails the run.
ReviewFails(p) ==
  \/ /\ "fingerprint" \in Faults
     /\ \E d \in Day : Protecting(p, d) /\ d \notin Pii[worker[p].store]
     /\ Leave(p, "failed")
  \/ /\ worker[p].pc = "sealed" \/ \E d \in Day : Protecting(p, d)
     /\ "integrity" \in Faults
     /\ Leave(p, "fatal")

\* persistCompletedPageCheckpoint.
CompletePage(w, mode) ==
  PutPage(w, [page |-> w.page, complete |-> TRUE, mode |-> mode,
              anchorSeen |-> w.anchorSeen, anchor |-> w.anchor])

ClosePage(p) ==
  /\ worker[p].pc = "protect"
  /\ worker[p].todo = {}
  /\ CompletePage(worker[p], worker[p].mode)
  /\ Becomes(p, [worker[p] EXCEPT !.pc = "closed"])
  /\ UNCHANGED <<provider, run, storeCheckpoint, sync, reviews, locators,
                 invocations>>

AnchorReached(w) == w.mode = "INCREMENTAL" /\ w.anchorSeen
ListEnded(w)     == w.boundary # "MORE"

\* The list ended without the previous anchor.
FallBack(p) ==
  LET w == worker[p] IN
  /\ w.pc = "closed"
  /\ ListEnded(w)
  /\ w.mode = "INCREMENTAL" /\ ~w.anchorSeen
  /\ CompletePage(w, "BACKFILL_FALLBACK")
  /\ Becomes(p, [w EXCEPT !.mode = "BACKFILL_FALLBACK"])
  /\ UNCHANGED <<provider, run, storeCheckpoint, sync, reviews, locators,
                 invocations>>

\* One transaction: the final checkpoint and, with an anchor, the sync state.
CompleteStore(p) ==
  LET w == worker[p]
      empty == w.anchor = NoReview /\ w.previous = NoReview IN
  /\ w.pc = "closed"
  /\ AnchorReached(w) \/ (ListEnded(w) /\ w.mode # "INCREMENTAL")
  /\ storeCheckpoint' = [storeCheckpoint EXCEPT ![w.run][w.store] =
       [state |-> IF empty THEN "NO_REVIEWS" ELSE "COMPLETE", mode |-> "none"]]
  /\ sync' = [sync EXCEPT ![w.store] =
       IF w.anchor = NoReview THEN @
       ELSE [anchor |-> w.anchor, mode |-> w.mode, run |-> w.run]]
  /\ Becomes(p, [w EXCEPT !.pc = "settle", !.outcome = "done"])
  /\ UNCHANGED <<provider, run, pageCheckpoint, reviews, locators,
                 invocations>>

MorePages(w) == ~AnchorReached(w) /\ ~ListEnded(w)

PauseStore(p) ==
  /\ worker[p].pc = "closed"
  /\ MorePages(worker[p])
  /\ "budget" \in Faults
  /\ Leave(p, "paused")

PageAfter(n) == n + 1

\* Mutant: a new source for every page, which starts at page 1 again.
NextPageReopens(p) ==
  /\ worker[p].pc = "closed"
  /\ MorePages(worker[p])
  /\ Becomes(p, [worker[p] EXCEPT !.pc = "read", !.page = 1,
                                  !.opened = FALSE, !.shown = {}])
  /\ UNCHANGED <<provider, database, invocations>>

NextPage(p) ==
  /\ worker[p].pc = "closed"
  /\ MorePages(worker[p])
  /\ Becomes(p, [worker[p] EXCEPT !.pc = "read", !.page = PageAfter(@)])
  /\ UNCHANGED <<provider, database, invocations>>

-----------------------------------------------------------------------------
(* runReviewBatch: after collectStoreReviews.                              *)

\* The target's page-0 row and the counters; a fatal error writes no row, and
\* an error loses what the store had counted.
StateOf(outcome) ==
  CASE outcome = "done"            -> "COMPLETE"
    [] outcome = "paused"          -> "RUNNING"
    [] outcome \in {"access", "dom"} -> "STOPPED_PROVIDER"
    [] outcome = "failed"          -> "FAILED_STORE"

FinalOf(outcome) ==
  CASE outcome \in {"done", "failed"} -> "SUCCEEDED"
    [] outcome = "paused"  -> "PAUSED_BUDGET"
    [] outcome = "access"  -> "STOPPED_ACCESS"
    [] outcome = "dom"     -> "STOPPED_POLICY"
    [] outcome = "fatal"   -> "FAILED_FINAL"

FellBack(w) == w.mode = "BACKFILL_FALLBACK" /\ w.target = "INCREMENTAL"

CountsAfter(w) ==
  CASE w.outcome = "failed" -> [w.counts EXCEPT !.failed = @ + 1]
    [] w.outcome = "fatal"  -> w.counts
    [] OTHER -> [w.counts EXCEPT
                   !.collected   = @ + w.got,
                   !.incremental = IF FellBack(w) THEN @ - 1 ELSE @,
                   !.fallback    = IF FellBack(w) THEN @ + 1 ELSE @]

SettleStore(p) ==
  LET w == worker[p] IN
  /\ w.pc = "settle"
  /\ storeCheckpoint' =
       IF w.outcome = "fatal" THEN storeCheckpoint
       ELSE [storeCheckpoint EXCEPT ![w.run][w.store] =
              [state |-> StateOf(w.outcome),
               mode |-> IF w.outcome = "failed" THEN w.target ELSE w.mode]]
  /\ Becomes(p, [w EXCEPT !.pc = "account", !.counts = CountsAfter(w),
                          !.got = 0, !.final = FinalOf(w.outcome)])
  /\ UNCHANGED <<provider, run, pageCheckpoint, sync, reviews, locators,
                 invocations>>

\* The CHECKs on the row's counts: none is negative, and the mode counts add up
\* to the store count.
CountsRefused(r, c) ==
  \/ c.incremental < 0
  \/ c.initial + c.incremental + c.fallback # run[r].stores

\* The finally block.  Taking the slot back fails while another run has it, and
\* so does writing counts the CHECKs refuse: either ends the process, and the
\* row stays as it was.  FinishRun only writes counts that a row had before.
AccountStore(p) ==
  LET w == worker[p]
      goesOn == w.final = "SUCCEEDED" IN
  /\ w.pc = "account"
  /\ IF (goesOn /\ ~SlotFreeFor(w.run)) \/ CountsRefused(w.run, w.counts)
     THEN /\ Becomes(p, Idle)
          /\ UNCHANGED run
     ELSE /\ run' = [run EXCEPT ![w.run] =
               [@ EXCEPT !.status = IF goesOn THEN "RUNNING" ELSE w.final,
                         !.slot = goesOn, !.counts = w.counts]]
          /\ Becomes(p, [w EXCEPT !.pc = IF goesOn THEN "loop" ELSE "finish"])
  /\ UNCHANGED <<provider, progress, reviews, locators, invocations>>

\* Mutant: failed stores are forgotten.
FinalStatusPlain(w) == w.final

FinalStatus(w) ==
  IF w.final = "SUCCEEDED" /\ w.counts.failed > 0 THEN "PARTIAL" ELSE w.final

\* finishRun, one transaction; a run that succeeded forgets where its places
\* are.
FinishRun(p) ==
  LET w == worker[p]
      final == FinalStatus(w) IN
  /\ w.pc = "finish" \/ (w.pc = "loop" /\ w.left = {})
  /\ run' = [run EXCEPT ![w.run] =
       [@ EXCEPT !.status = final, !.slot = FALSE, !.counts = w.counts]]
  /\ locators' = IF final = "SUCCEEDED"
                 THEN [locators EXCEPT ![DiscoveryOf[w.run]] = {}]
                 ELSE locators
  /\ Becomes(p, Idle)
  /\ UNCHANGED <<provider, progress, reviews, invocations>>

Crash(p) ==
  /\ "crash" \in Faults
  /\ worker[p].pc # "idle"
  /\ Becomes(p, Idle)
  /\ UNCHANGED <<provider, database, invocations>>
-----------------------------------------------------------------------------
Provider == \/ \E s \in Store : Post(s)
            \/ \E s \in Store, d \in Day : Hide(s, d) \/ Reveal(s, d)

Operator(p) == \E r \in Run : StartRun(p, r) \/ ResumeRun(p, r)

\* What a process does by itself once it was invoked.
Work(p) ==
  \/ \E s \in Store : \/ WritePending(p, s) \/ SkipStore(p, s)
                      \/ PauseBefore(p, s) \/ BeginStore(p, s)
  \/ EnterLoop(p) \/ SkipCompleteStore(p) \/ OpenStore(p)
  \/ ReadPage(p) \/ StopProvider(p) \/ ReadFails(p)
  \/ \E d \in Day : \/ RejectReview(p, d) \/ DuplicateReview(p, d)
                    \/ EncryptReview(p, d) \/ MarkSeen(p, d)
  \/ ReviewFails(p) \/ ClosePage(p) \/ FallBack(p) \/ CompleteStore(p)
  \/ PauseStore(p) \/ NextPage(p)
  \/ SettleStore(p) \/ AccountStore(p) \/ FinishRun(p)

Next == Provider \/ \E p \in Proc : Operator(p) \/ Work(p) \/ Crash(p)

Spec == Init /\ [][Next]_vars

\* A process that was invoked keeps running; nobody owes it an invocation.
FairSpec == Spec /\ \A p \in Proc : WF_vars(Work(p))
-----------------------------------------------------------------------------
(* Properties.                                                             *)

\* Every table and every process's memory holds values of its kind.
TypeOK ==
  /\ today \in 0..LastDay
  /\ listing \in [Store -> SUBSET Day]
  /\ run \in [Run -> RunRow]
  /\ storeCheckpoint \in [Run -> [Store -> StoreCheckpoint]]
  /\ pageCheckpoint \in [Run -> [Store -> SUBSET PageRow]]
  /\ seen \in [Store -> SUBSET Day]
  /\ raw \in [Store -> [Day -> Run \cup {NoRun}]]
  /\ sync \in [Store -> SyncState]
  /\ locators \in [Discovery -> SUBSET Store]
  /\ worker \in [Proc -> Worker]
  /\ invocations \in [Run -> Nat]

\* The 400-day ledger never claims a review whose encrypted row was not
\* committed: a crash between the two commits may repeat a review, never lose
\* it (raw commit before recordSeenFingerprint).
SeenIsStored ==
  \A s \in Store, d \in Day : d \in seen[s] => raw[s][d] # NoRun

\* The anchor the next incremental pass stops at, and the anchor a resumed
\* pass carries over, are reviews of the ledger: an anchor nobody recorded
\* would turn every later pass into a backfill.
AnchorIsSeen ==
  \A s \in Store :
    /\ sync[s].anchor # NoReview => sync[s].anchor \in seen[s]
    /\ \A r \in Run : \A c \in pageCheckpoint[r][s] :
         c.anchor # NoReview => c.anchor \in seen[s]

\* Rows a run owns: what publishReviewRun selects by run_id.
RowsOf(r) == {c \in Store \X Day : raw[c[1]][c[2]] = r}

\* A run never reports more collected reviews than it has rows, over any
\* number of pauses, crashes and failed stores: publishReviewRun refuses a run
\* that does (REVIEW_PUBLISH_INPUT_INCOMPLETE).
CollectedHasRows ==
  \A r \in Run : run[r].counts.collected <= Cardinality(RowsOf(r))

\* The counts a process is about to write pass the CHECKs of the schema: their
\* sum is the run's store count and none is negative, although a fallback moves
\* a store from one to another and a store may be taken up again in a mode it
\* was not counted in.
ModeCountsAddUp ==
  \A p \in Proc :
    worker[p].pc \in {"loop", "account", "finish"} =>
      ~CountsRefused(worker[p].run, worker[p].counts)

\* A run that SUCCEEDED has a page-0 row COMPLETE or NO_REVIEWS for as many
\* stores as it had targets: no crash, pause or resume skips a store.
SucceededMeansComplete ==
  \A r \in Run :
    run[r].status = "SUCCEEDED" =>
      Cardinality({s \in Store : storeCheckpoint[r][s].state \in Done})
        = run[r].stores

\* Nothing is missing behind an anchor: once a store has one, every review
\* the provider shows that is not newer than it, no older than the 12 months
\* and free of personal data is in the ledger.  The next incremental pass
\* relies on it when it stops at the anchor.
NothingMissingBehindAnchor ==
  \A s \in Store :
    sync[s].anchor # NoReview =>
      \A d \in listing[s] :
        today - Window <= d /\ d <= sync[s].anchor /\ d \notin Pii[s]
          => d \in seen[s]

\* Within a run a store that was completed is never collected again.
CompleteStaysComplete ==
  [][\A r \in Run, s \in Store :
       storeCheckpoint[r][s].state \in Done =>
         storeCheckpoint'[r][s].state \in Done]_vars

\* A store ends INCREMENTAL only when its run collected nothing older than the
\* previous anchor: such a review means history has a hole, and demands the
\* backfill.  The code relies on two things here: no review goes away (an
\* anchor that is hidden, passed over and shown again ends the pass as if
\* nothing was missing), and no process crashes between the row of the review
\* and the page that tells of the fallback.
HolesForceBackfill ==
  [][\A s \in Store :
       sync'[s] # sync[s] /\ sync'[s].mode = "INCREMENTAL" =>
         \A d \in Day : raw[s][d] = sync'[s].run => d > sync[s].anchor]_vars

\* A run is stopped for access only where the provider gives a signal.
StoppedAccessHasSignal ==
  "access" \notin Faults => \A r \in Run : run[r].status # "STOPPED_ACCESS"

\* A process that was invoked comes to an end, whatever the provider shows.
InvocationEnds ==
  \A p \in Proc : worker[p].pc # "idle" ~> worker[p].pc = "idle"
-----------------------------------------------------------------------------
Ledger == INSTANCE ReviewLedger WITH
            Review <- Day, kept <- raw, known <- seen,
            anchor <- [s \in Store |-> sync[s].anchor]

\* Collection implements the ledger: whatever the order of its commits, a row
\* is never written twice or taken over by another run, no review is recorded
\* before its row, and no anchor is set that is not recorded.
ImplementsLedger == Ledger!Spec
=============================================================================
