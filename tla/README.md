# Bread Map: specification and verification

TLA+ models of Bread Map (빵찾깅), a local-first bakery search built on two
SQLite files: `raw.sqlite`, written by the review worker only, and
`app.sqlite`, from which the web application serves. The models are written
from the code under `src/` and checked with TLC on small instances; the safety
properties of every component, but for one of review collection, are proved
with TLAPS for all instances: collection, purge, publication, discovery,
matching, ingestion, catalog, search, decisions, accounts, the page and the
restoration of a copy.

`PROJECT.json` maps every modelled definition to its lines of code and lists
the runs, the mutants, the findings, the hazards and the theorems.

## 1. Inventory

### Components, their state and how they interact

| component | state it keeps | operations | talks to |
|---|---|---|---|
| **Kakao discovery** (`run-kakao-discovery.ts`) | `kakao_discovery_run`, `kakao_place_observation`, `kakao_place_locator` in raw.sqlite; an in-memory queue of map tiles | run a discovery | Kakao local API; reads stores of app.sqlite |
| **Review collection** (`run-review-batch.ts`, `collect-store-reviews.ts`, `review-sync-state.ts`, `commands/collect-reviews.ts`) | `review_collection_run`, `review_checkpoint`, `raw_review_ciphertext`, `review_seen_fingerprint`, `review_store_sync_state`; the counters and the pass of one process | start, resume, pause, collect a store | a browser page of the provider; takes the matched places of one discovery run and deletes their locators on success |
| **Review protection** (deidentify, fingerprint, encrypt) | none | pure functions | called for every review |
| **Review publication** (`publish-review.ts`) | `review_publish_version`, `review_document`, `review_fts`, `fts_index_state` in app.sqlite | publish a closed run, replay | reads the rows of a run in raw.sqlite, the stores of app.sqlite |
| **Retention purge** (`purge-expired-review-data.ts`) | `raw_delete_audit`; deletes from every raw table | purge | kill switch callback |
| **Catalog ingestion** (`run-ingestion.ts`) | `source_snapshot`, `ingestion_run`, staged rows, page checkpoints | ingest a snapshot | LOCALDATA API |
| **Catalog publication** (`publish-catalog.ts` with normalise, deduplicate, classify) | `store`, `bakery`, links, decisions, `data_publish`, `catalog_publish_state` | publish a snapshot | supersedes search evidence |
| **Search evidence publication** | `search_evidence_publish`, menus, aliases, hours | publish a batch | bound to one catalog publication |
| **Retrieval and recommendation** | none; one read transaction per request | search, detail, reviews | app.sqlite |
| **Recovery** (`restore-app-database.ts`) | the restored file | restore, verify | app.sqlite backup |
| **Web server** (accounts, sessions, favorites, history) | `user`, `account`, `session`, `favorite`, history rows | sign in, withdraw, add, remove, list | Kakao unlink |
| **Map shell** (`map-shell.tsx`, `map-shell-state.ts`) | the reducer's state, two request ids | search, select, retry, back | the web API |

The worker's commands are separate processes started by an operator; they
share nothing but the two files. Every write outside an explicit transaction
is a commit of its own, so a crash or a step of another command can come
between any two statements.

### What is hard here, and what makes each component correct

- **Review collection.** Paused by a time budget or by the operator, stopped by
  the provider, crashed between the commits of one review, resumed days later
  against a list that has moved, and startable twice. Correct when no review is
  lost behind the anchor an incremental pass stops at, when the seen ledger
  never runs ahead of the encrypted rows, when the run's counts stay within
  what the tables hold, and when success means every store was completed.
- **Review publication.** Versions replaced in one transaction, out-of-order
  runs refused as stale, replays answered from the stored version. Correct when
  there is one active version, its documents equal the index, and the corpus
  never goes back in time.
- **Purge.** Deletion across ten tables with references. Correct when nothing
  referenced is deleted, raw text does not outlive its 30 days after a purge,
  and a failed purge is always signalled.
- **Discovery.** One active slot and a terminating tile split. Correct when a
  COMPLETE result covered every tile.
- **Catalog.** Idempotent attempts on one snapshot; publication computed outside
  the transaction that stores it. Correct when the active catalog never moves
  to an older source and no public store is outside it.
- **Search evidence and retrieval.** Correct when a search mixes no two
  publications and active evidence belongs to the active catalog.
- **Web.** Principals resolved before an await; deletion before the provider
  unlinks. Correct when nothing of a withdrawn user remains or is written.
- **Map shell.** Correct when a stale answer never replaces a newer state.

`PROJECT.json` ("hazards") has each of these at its line.

## 2. Plan

| # | modules | abstract specification | state |
|---|---|---|---|
| 1 | `ReviewCollection` | `ReviewLedger` | checked; every safety property that holds and the refinement proved |
| 2 | `ReviewPublish`, composed with 3: closed runs to versions, documents and index | `ReviewCorpus` | checked; every property and the refinement proved |
| 3 | `ReviewPurge`: retention of the raw tables, references, kill switch | | checked; every property proved |
| 4 | `KakaoDiscovery`, `KakaoMatch`: slot, tile queue, partial results; which store a place is | | checked; coverage and links proved |
| 5 | `CatalogIngestion`; `StoreEligibility`; `CatalogPublish`, which uses the latter, with the activation of search evidence | | checked; every property proved |
| 6 | `StoreSearch`, composed with 5; `Recommendation` | | checked; every property proved |
| 7 | `UserAccount`: logins, sessions, withdrawal, favorites, history, with awaits | | checked; both safety properties proved |
| 8 | `MapShell`: reducer, rendering and requests in flight | | checked; types and safety proved |
| 9 | `AppRestore`: copies and their restoration | | checked and proved |

What is left to TLC is liveness, see section 5. The modules are written for
proofs as well as for runs: parameters are CONSTANTS with named assumptions, one
action per commit or await, invariants as conjunctions, no RECURSIVE operator.

The order was: what loses data silently first, then what makes wrong data
public, then what only delays or confuses.

## 3. Modules

| module | what it is |
|---|---|
| `ReviewCollection` | review collection, its provider, operator and crashes |
| `ReviewLedger` | what collection promises about a store's reviews: kept once, by one run; known only if kept; anchor only if known |
| `ReviewPurge` | retention of `raw.sqlite`, with collection and discovery as the writers of rows |
| `ReviewPublish` | EXTENDS `ReviewPurge`: publication of reviews while rows are purged and stores hidden; what the index may answer |
| `ReviewCorpus` | what publication promises: one dated corpus that never goes back |
| `KakaoDiscovery` | the search for bakeries by tiles and pages; the choice of a discovery by a review run |
| `KakaoMatch` | which store of the catalog an observed place is |
| `CatalogIngestion` | the register's pages to a staged snapshot |
| `StoreEligibility` | operators: rows to candidates, stores, brands and decisions |
| `CatalogPublish` | EXTENDS `StoreEligibility`: catalog and search evidence publication |
| `StoreSearch` | EXTENDS `CatalogPublish`: the web server's search and detail over what is published |
| `Recommendation` | operators: opening hours, filters, order, relaxations |
| `StoreDecisions` | EXTENDS `StoreEligibility`: candidates and evidence as they accumulate, and the properties of what is decided on them |
| `OpeningHours`, `SearchDecisions` | EXTEND `Recommendation`: the intervals of a store; stores and the query they are asked |
| `UserAccount` | logins, sessions, favorites, histories, withdrawal |
| `MapShell` | the page of the map and its requests |
| `AppRestore` | copies of `app.sqlite` and their restoration |
| `ReviewCollectionProofs` | types of `ReviewCollection`, its ledger and refinement |
| `ReviewRunProofs` | EXTENDS it: the rows behind the counts of a run and its targets; what lies behind an anchor |
| `ReviewPublishProofs` | proofs about `ReviewPurge` and `ReviewPublish` |
| `StoreSearchProofs` | proofs about `CatalogPublish` and `StoreSearch` |
| `UserAccountProofs`, `MapShellProofs` | proofs about the component each is named for |
| `KakaoDiscoveryProofs` | proofs about `KakaoDiscovery` and `KakaoMatch` |
| `DecisionsProofs` | proofs about the decisions (`StoreDecisions`, `OpeningHours`, `SearchDecisions`), about `CatalogIngestion` and about `AppRestore`, with what they share on recursion and folds |
| `MCReviewCollection`, `MCReviewPurge`, `MCReviewPublish`, `MCAccounts`, `MCPage` | constant values for TLC |
| `MCCatalogSearch`, `MCSources`, `MCDecisions` | several instances in one run, see section 4 |

Definitions whose comment says "Mutant" are the code with a plausible bug; no
other definition uses them. Modules of components that no run checks for types
keep a `TypeOK` of theirs as documentation of their state; those of
`ReviewCollection`, `ReviewPurge` and `MapShell` are proved.

### ReviewCollection and the code

State. `run`, `storeCheckpoint` (page-0 rows), `pageCheckpoint` (the other
rows), `raw`, `seen`, `sync` and `locators` are the tables of `raw.sqlite`;
`worker[p]` holds the local variables of `runReviewBatch` and
`collectStoreReviews` in process `p` and where it is; `listing` and `today` are
the provider. `pc` is "idle" between invocations.

| code | actions |
|---|---|
| `runReviewBatch`, new run: INSERT, one PENDING row per target, row read back | `StartRun`, `WritePending`, `EnterLoop` |
| `runReviewBatch`, existing run | `ResumeRun` |
| the loop over targets: skip, pause, mark RUNNING | `SkipStore`, `PauseBefore`, `BeginStore` |
| `collectStoreReviews` prologue | `SkipCompleteStore`, `OpenStore` |
| `await readPage` and its refusals | `ReadPage`, `StopProvider`, `ReadFails` |
| `protectOneReview`: rejected; known; new (two commits) | `RejectReview`; `DuplicateReview`; `EncryptReview`, `MarkSeen` |
| its errors | `ReviewFails` |
| page completed; anchor not found; store completed; paused; next page | `ClosePage`, `FallBack`, `CompleteStore`, `PauseStore`, `NextPage` |
| the batch after a store: row and counters; the `finally` block | `SettleStore`, `AccountStore` |
| `finishRun` | `FinishRun` |
| process ends between two commits | `Crash` |
| the provider's list | `Post`, `Hide`, `Reveal` |

Abstractions, and why they keep what the properties tell apart:

- A store receives at most one review a day, so a review is its day and the
  date order of the list is total. The fingerprint is the pair of store and
  day; text, nickname, rating, ciphertext and nonce are left out.
- An edited review is `Hide` followed by `Reveal` of a day nobody has seen.
- Pages are the slices of a list that shows one page at a time (pagination mode
  `replace`); the `append` mode of the reader is not modelled.
- The mode, anchor flag and anchor packed into `page_cursor` and
  `last_fingerprint` are fields of a page row; the position of a partial page
  is not read back by the code and is left out.
- `StartRun` takes the reads of the sync state together with the INSERT, and
  `OpenStore` the reads of the prologue: nothing is written between them by
  the same process. `MarkSeen` takes the seen-ledger and page-checkpoint
  commits together: a crash in between leaves the page row behind, as a crash
  before `MarkSeen` does.
- The duplicate and rejected counters, key versions (a key change stops every
  run with an error) and the 30 and 400 day expiry are left out; expiry belongs
  to the purge.
- Invocations that change nothing (other parameters, a closed run, a run whose
  targets are gone, no discovery) are not actions.

Bounds: `LastDay` ends the provider's days, `MaxInvocations` the invocations of
each run; everything else is finite by itself. `Faults` and `ProviderMoves`
choose what a run is about, so that each question gets its interleavings in
full. Deadlock is not checked: a system whose invocations are used up and
whose processes are idle has rightly stopped.

Fairness: that of `Work(p)` for each process, nothing else. A process that was
invoked is scheduled by the operating system and its awaits return (the reader
has time-outs); nobody owes the system an invocation, a review or a crash.

### ReviewPurge, ReviewPublish and the code

A table is a function from its keys to the day a row expires. `PurgeCount` is
the count of the candidates and the choice of the day, `PurgeDelete` the
transaction: ten deletes, children first, each with the condition that spares
rows still referenced, the audit row and its CHECK; `PurgeFails` is the rolled
back transaction, the failed audit row (written or not) and the kill switch.
Between the two any writer of the tables may run: `Discover`, `StartRun`,
`Collect`, `Reject`, `FinishRun`, and days pass.

`publishReviewRun` reads the source run (`LoadSourceRun`, with replays), reads
and decrypts its rows (`LoadRows`), and writes in one transaction
(`PersistPublish`: refused as stale, what leaves the window dropped, documents,
index, the version that is active); `PublishStops` is every refusal before.
`HideStore` and `ShowStore` are the catalog's publication, which takes the
documents of a store along. A review is its identity, a checksum of documents
the set of documents. A crash of collection may leave rows that the run's count
does not include, so `Collect` counts a row or not. `ActiveIndexState` and
`HasConsistentActiveIndex` are what `SqliteReviewRepository` asks before it
answers from the index.

### KakaoDiscovery, KakaoMatch and the code

A tile is the sequence of quarters it was split into. `Start` takes the slot and
loads the public stores; `SplitTile`, `GiveUpTile`, `OpenTile` are the first
page of a tile; `ReadNextPage`, `CloseTile` the others; `SkipDocument` and
`Observe` one place each, every observation being a commit; `SearchFails`,
`ProjectionFails`, `Finish` and `Crash` end a search. `Appear`, `Vanish` and
`PublishOrHide` move the provider and the catalog. `CollectReviews` is how
`collect-reviews` takes the latest complete or a named discovery.
`matchKakaoObservation` is an operator of `KakaoMatch`; positions are points on
a line, and a distance below 75 metres is at most `Near`.

### CatalogIngestion, CatalogPublish and the code

A snapshot is identified by its content, as the checksum does. `FetchPage`,
`FetchLastPage` and `FetchFails` are the pages of the client with its checks of
totals, duplicates and short pages; `upsertSnapshot`, `startRun`, `persistPage`,
`finishRun` and `failRun` are a transaction each. `normalizeSourceRow` keeps
what a row is rejected for. Dates of the basis are left out. `operators` says who
runs the command at all, together or one after the other; no step changes it.

`publishCatalog` is `Prepare` (the snapshot is read, candidates are merged,
brands decided on, and existing store ids looked up, all before the
transaction) and `Commit` (the snapshot checked again; conflicts held; stores,
links and brands written, any of the brands with one key as the last; stores outside the snapshot demoted; the pointer
moved if the snapshot is not older; evidence that no longer fits superseded).
`Abandon` is every error in between. `publishSearchEvidence` is one transaction.
Match, decision and manual review rows are written with the stores and read by
nothing; they are left out. A phone is always null in the rows of this register,
so that no pair of candidates reaches the score from which two become one; the
instance "matching" gives candidates phones in order to check the merging too.

### StoreSearch and the code

A version is the tuple of everything that is hashed into it. A first search
resolves the version in a transaction of its own (`resolveCurrentDataVersion`)
and executes in another (`Bootstrap`); `Search` and `Detail` come with the
version that the client shows. `loadSnapshot`, `loadCandidates`,
`hasConsistentFts`, `searchStoreEvidence` and `executeStoreSearch` are operators
over the published state. The moment of verification that a result shows is not
part of a version and is left out. Publishing reviews checks the stores when it
writes; what a store hidden between check and write does is in `ReviewPublish`.

### UserAccount, MapShell, AppRestore and the code

`UserAccount` cuts each handler at its awaits: a login is the adapter's calls by
Auth.js and the registration of the session (`Callback`, `createUser`,
`linkAccount`, `register`), a mutation the principal and then the body
(`ResolvePrincipal`, `Mutation`, `Refused`), a withdrawal those and the call of
Kakao (`withdraw`, `unlinkKakaoAccount`, `UnlinkTimeout`). `Restart` drops the
requests under way.

`MapShell` has the reducer's transitions as operators with its names, the two
request counters, the abort controllers as the flag of a request, and the page
as it was last rendered, from which the handlers of a click read. An event of
the visitor is rendered before the next one; an answer or a position that is
found is rendered by a step of its own. A submission of the form that wants a
position waits for it (`AskPosition`, `PositionFound`, `PositionRefused`); the
checkbox (`ToggleLocation`) frees the form meanwhile, so that several may wait
and their searches replace one another. An answer comes from the network no
sooner than that (`Answerable`), the failure of an aborted request may come
first.

`AppRestore` cuts the restoration at its awaits: `restoreAppDatabase` (checks and
the rows of the copy), `BackupStarts`, `backupSqliteFile` or `BackupFails`,
`verify` (migration and checks), `RemovePartial`. A file is its users, stores, schema
and damage. The signature compares the rows and the tables a schema has
(`TablesOf`), which a migration that only adds an index leaves alone. The server, the backup script and the operator act in between.

## 4. Runs

| run | instance | shows |
|---|---|---|
| `ReviewCrash` | 1 store, 2 runs, 2 processes, pages of 2, days 3 and 4, window 3, newest review rejected; crash and budget | `SeenIsStored`, `AnchorIsSeen`, `CollectedHasRows`, `NothingMissingBehindAnchor`; `ImplementsLedger` |
| `ReviewStores` | 2 stores, 2 runs of which the second has 1 store, 1 process, 2 invocations, list that hides and shows its reviews; every fault | `TypeOK`, `SucceededMeansComplete`; `CompleteStaysComplete` |
| `Purge` | 1 store, 1 run, 1 review, 2 purges, 4 days, raw rows kept 1 day and audits 2 | `PurgeNeverBlocked`; `PurgeSparesRetained`, `NothingOutstays` |
| `PublishCorpus` | 2 runs of 1 store, 2 reviews, 1 publisher, 1 purge, 3 days | `OnlyPublicDocuments`, `SearchedIsPublished`; `NoPublishedReviewLost`, `ImplementsCorpus` |
| `CatalogSearch` | "publishing": 2 workers, 3 snapshots, 2 shops, retried ingestions; "searching": 1 worker, the first 2 of these snapshots, 2 batches of evidence, a client, reviews of both stores and then of one, 2 days | `PublicIsInActiveSnapshot`, `ActiveEvidenceFits`; `SameVersionSameAnswer`, `SearchAnswers`, `CompleteMissesNothing` |
| `Sources` | "discovery": 4 places, 2 runs, one split, a provider that counts no further than its pages show; "restless": 3 places and 2 stores that come and go, a provider that counts further; "matching": every place, up to 2 stores; "ingestion": 2 operators with 2 calls, or 1 with 3, register of 5 rows in pages of 2; "reviews": 1 store, 2 runs, 1 process, 3 invocations, list that posts and shows older reviews, budget and read errors | `CompleteCoversSeoul`, `SucceededIsComplete`, `SnapshotIsOneMoment`, `ReportAgrees`; `DiscoveryEnds`, `LinksAreStable`, `HolesForceBackfill`, `InvocationEnds` |
| `Decisions` | "matching": 3 candidates, 1 perfect piece of evidence; "eligibility": 3 branches, 2 pieces of evidence, chain limit 3; "hours": 3 intervals in a week of 3 days of 4 minutes; "filter": 2 stores, 384 queries; "order": 3 stores, 8 queries; "restore": 1 user, 2 stores, 3 schemas of which the second only adds an index | `DoubtHoldsStoreBack`, `EligibleIsWholeBrand`, `OpenIsCovered`, `WayOutIsOffered`, `RankIsStrict`, `VerifiedIsTheCopy` |
| `Accounts` | 2 persons, of whom one may return with a second account, 1 store, 2 requests, fairness | `NothingWithoutAccount`; `ShownChangesByOwner`, `WithdrawalAnswered` |
| `Page` | 2 stores, 2 versions, 3 searches, 2 selections, 2 positions waited for at a time, 2 failures, fairness | `OneSnapshotOnScreen`; `LoadingEnds` |

`CatalogSearch`, `Sources` and `Decisions` each check several instances. The
first state chooses a `part`; its actions are the only ones that are enabled,
and the variables of the others keep their initial values. The parts share no
state that both change, so a behaviour of such a run is a behaviour of one
instance, and the run shows for each part what a run of its own would; a
property is checked in the initial values of the other parts too. The properties
of the instance of `ReviewCollection` in `Sources` have the same names in the MC
module. `CatalogSearch` has both its parts from one instance of `StoreSearch`, and keeps the clients of one part, or the second
worker and the third snapshot of the other, at rest (`OneWorker`). An ASSUME of
an instantiated module is repeated in the MC module, where TLC evaluates it.

Why the bounds suffice for these questions.

- *Collection.* An anchor, a run that moves it and a run that relies on it need
  two runs; pages of one or two reviews give a pass of several pages over two to
  four days; two invocations give one pause or crash and its resume, three (in
  `Sources`) a failed resume too. Two stores are needed only where the batch's
  own bookkeeping is in question.
- *Purge and publication.* Every reference of the ten tables exists between the
  rows of one run, one discovery and one review that expire on different days;
  the second purge gives an audit row to purge. An order of publications and a
  replay need two runs, a window that loses a review two days.
- *Catalog.* A shop that trades, closes and disappears takes three snapshots; a
  publication that overtakes another two workers. The second approval or its
  absence is what makes two publications of one snapshot differ.
- *Discovery.* One split gives tiles, borders and a saturated leaf; four places
  fill more pages than one, with two that share a key. The count of pageable
  places stops at what the pages show (675 of 700 in the repository's fixture,
  `run-kakao-discovery.test.ts:183`): `Cap = Saturation` in "discovery". A
  provider that counts further is in "restless".
- *Decisions.* Transitivity and merging need three elements; a chain limit of
  three is reached by three branches; a week of three days has a first, a last
  and a middle day.
- *Accounts, page and copies.* A race needs two requests, a stale answer two
  searches, and a stale click a third. A copy that is overwritten needs a row
  that differs.

The bounds by name: `LastDay`, `MaxInvocations` (collection); `LastDay`,
`RawDays`, `AuditDays` (purge, publication); `MaxDay`, `MaxReviews` (search);
`MaxDepth`, `Cap`, `PageLimit` (discovery: the code's own limits, and the
provider's, made small); `MaxStores` (matching); `MaxCalls`,
`MaxChanges`, `MaxDrift` (ingestion); `MaxStores`, `MaxEvidence`, `MaxIntervals`,
`MaxCandidates` (decisions); `MaxUsers`, `MaxSessions`, `MaxHistory`, `MaxTime`
(accounts); `MaxSearches`, `MaxPositions`,
`MaxDetails` (page); `MaxSchema` (restore).

Some properties hold under the named circumstances only, and the runs say so on
purpose: `NothingMissingBehindAnchor` where no review is hidden,
`HolesForceBackfill` where no process crashes and no review is hidden,
`SucceededMeansComplete` and `CompleteStaysComplete` where one process works on
a run, `CompleteCoversSeoul` where nothing went away during the search, and for
places that the provider showed all the time (not for one that a growing list
pushed behind the last page of the tile that is being paged, `PushedOut`),
`SnapshotIsOneMoment` where the register changes at most once during a fetch
(`MaxDrift`), `ReportAgrees` with one operator. Deadlock is not checked: a
system whose invocations, days and requests are used up has rightly stopped.

Symmetry is used over processes (`ReviewCrash`), over runs of one
discovery (`PublishCorpus`), and over the stores of copies (`Decisions`): nothing
but their name distinguishes the members of those sets. No run with a liveness
property uses it.

Fairness, and why the code justifies it.

- `Sources`: weak fairness of a process of collection at work, and of a search
  that is under way. A process that was invoked is scheduled by the operating
  system and its awaits return (the reader has time-outs).
- `Accounts`: of the timer that aborts the call of Kakao. `Page`: of rendering
  and of the end of each request, which the browser ends with a failure if
  nothing else does. Nobody owes the system an invocation, a review, an answer of
  Kakao, a click or a crash.

### Where documents and code disagree

Three runs expect a violation; each states what a document or the schema says.

| run | what the code does |
|---|---|
| `LiveResumeStops` | the live reader cannot resume at page 2 or later: the run ends STOPPED_ACCESS on every resume although the provider gave no signal |
| `ModeCountsRefused` | a store that another run completed while its own run was paused is taken up in a mode it was not counted in; after a pause, a fallback and two resumes the run's incremental count is -1, the schema's CHECK refuses the row, and the run keeps the only slot |
| `StoreIdentityLost` | two publications at once look for existing store ids before either writes: the same shops get second ids, and every later publication holds them for review |

Limits that the bounds above leave out, seen in the code while it was modelled
and stated by no run:

- a store that fails in two invocations of a run is counted as two failed stores
  (`run-review-batch.ts:493`);
- a review hidden while a run is paused shifts the list, and the resumed pass
  jumps over another (`collect-store-reviews.ts:374`);
- a crash after a gap was noticed and before its page was completed forgets the
  fallback the gap demands (`collect-store-reviews.ts:675`);
- two processes may resume one run, and the first to pause frees the slot of
  both (`run-review-batch.ts:373`); one may then set a store back that the other
  completed, and a run may succeed without it;
- an anchor that is hidden, passed over by a pass and shown again ends the next
  pass as if nothing were missing behind it (`collect-store-reviews.ts:660`);
- a row that a crash left uncounted can stand in for a counted one that was
  purged before publication (`publish-review.ts:789`);
- a place that vanishes between two pages moves another to a page already read,
  and the discovery is COMPLETE without it (`run-kakao-discovery.ts:434`);
- saturation is looked for on the first page of a tile only
  (`run-kakao-discovery.ts:387`): a tile that fills up while it is paged may be
  read to its last page, and the discovery is COMPLETE without the places that
  were pushed behind it; whoever only reads the pages cannot see them;
- two items of brand evidence with one key are accepted
  (`publish-catalog.ts:329`); they are one bakery, which takes the status that
  is written last, and a published store may then be under a bakery that is not
  published. No run has equal keys;
- a row that leaves the register while another joins keeps the total, and the
  snapshot may lack a third (`localdata-client.ts:109`);
- duplicates are looked for among the numbers as sent (`run-ingestion.ts:143`)
  while rows are staged under the trimmed ones (`normalize-source-row.ts:124`):
  two rows that differ in blanks only take the same staged record in turns, and
  the run succeeds with one of them;
- a run that another run overtook between its pause and its resume still
  compares with the anchor it began with, and may leave a hole behind the newer
  one without a backfill;
- a failed retry marks a snapshot that was ingested as failed
  (`run-ingestion.ts:646`);
- a first search is refused when the worker publishes between its two
  transactions (`search-service.ts:61`);
- a position that is still waited for when the visitor clears the checkbox is
  sent with a search all the same, which replaces a newer one
  (`store-search-form.tsx:282`);
- a search with a position that failed offers a retry that does nothing
  (`map-shell.tsx:111`);
- rows of the register are never merged automatically, as they have no phone:
  twins at one address wait for review (`publish-catalog.ts:178`);
- a restoration replays no deletions (`restore-app-database.ts:324`).

Each passing property has a mutant: a definition with a plausible bug under
which TLC finds the property violated in the same run.

## 5. Proofs

Each theorem holds for every value of the constants under the named ASSUME of
its module: the types of the constants, and that the sets of which a count is
taken are finite. Each safety property follows from an inductive invariant that
TLC checked first; what the property lacks to be inductive is said below.

Review collection, from `CollectionAssumption`, for any number of stores, runs,
processes and days and every set of faults and provider moves:

- `TypeCorrect`: `Spec => []TypeOK`. `TypeOK` is not inductive by itself: a
  process in the middle of a run must have a run and a store. `TypeInv` adds
  `WorkOK`, which says so for every place a process can be at.
- `SeenIsAlwaysStored`, `AnchorIsAlwaysSeen`: from `LedgerInv`, which is
  `TypeInv`, the two invariants and `MemoryOK`: the anchor a process carries in
  memory is in the ledger, and between the two commits of a review its row is
  there. Without the first, `CompleteStore` and `ClosePage` could write any
  anchor; without the second, `MarkSeen` could record a review without a row.
- `CollectionImplementsLedger`: each action maps to `Keep`, `Record`,
  `Complete` or a stutter, under `LedgerInv`.
- `CollectedAlwaysHasRows`: from `CountInv`, which adds `CoverOK`: what a
  process has in its counters plus what the store it is at has collected so far
  is covered by the rows of its run. Rows are never taken away from a run, so
  each process may be reasoned about alone, and two processes of one run may
  overwrite each other's counters without ever exceeding the rows.
- `SucceededIsComplete`, `CompletionIsKept`: under `[]OneWorkerPerRun`, which
  says that no two processes work on one run at a time. The code does not
  enforce it (the slot belongs to the run, not to the process), and without it
  TLC finds both properties violated by two processes. `TargetInv` says what a
  process knows of its run: unless a store failed, every target it has left
  behind is complete; and a discovery keeps the places of its targets until a
  run over it has succeeded, or the resumed run would have other targets.
- `NothingIsMissing`: `NothingMissingBehindAnchor`, under `ListGrows`: the list
  of a store only gains reviews, at its new end. Without it the property is
  false (a hidden review moves the older ones to earlier pages, while a resumed
  pass goes on by page number), and TLC finds it violated as soon as `Hide` is
  allowed. `AnchorInv` says what every row and every process knows of its
  store: the pages before the one in hand are dealt with (`Covers`, by the rank
  of a review in the list); once the previous anchor was met in an incremental
  pass, or the list has ended, what the page has left is all that is missing;
  and a page is handled from its new end, so that the review at the anchor comes
  after every newer one. Ranks leave no gap (`RanksHaveNoGap`), hence an empty
  next page means the end of the list; and a list that grows at its new end only
  raises the rank of a review, so what a row of an earlier day says stays true
  (`RowKept`, `WorkerKept`). `AnchorFrame` reduces each action to the one row,
  anchor or process it writes.
- `HolesAlwaysForceBackfill`: `HolesForceBackfill`, while reviews are posted and
  shown again and processes pause, fail and crash, under four conditions, each
  of which is needed. `NothingHides`: no review goes away. `PagesEnd`: no
  process crashes or gives up in a page that has yet to tell whether it demands
  the fallback; the decision is in memory only, while the row of the review that
  caused it is written. `OneWorkerPerRun`, as above. `NotOvertaking`: no run
  completes a store that another has begun and not completed; else the other
  one goes on with an anchor that is no longer the newest (with pages of one
  review it takes three runs). TLC finds the property violated when any one of
  the four is dropped. `HoleInv` says what an incremental pass may rely on: all that
  its run has collected is newer than the anchor (`NewerThan`), and until the
  anchor was met it is still ahead, in the page in hand or on a later one
  (`Ahead`, by its rank in the list, which `BeyondKept` shows can only rise).
  Between two invocations the rows of the pages must say the same (`Between`),
  or a resumed pass would be incremental without knowing it. All processes but
  one are at rest (`Alone`): a run at work has the slot, and there is one slot.

Retention purge, from `PurgeAssumption`, for any number of places, runs, reviews
and days:

- `PurgeTypeCorrect`; `PurgeIsNeverBlocked`: the transaction deletes no row that
  another one references, and no more rows than were counted. `PurgeInv` adds
  that a locator's observation is always there and does not expire first
  (`LocatorsHeld`), and that the candidates of the chosen day never become more
  than `attempted` (`CountCovers`): whatever is written between count and
  transaction expires later than the day the count was taken for.
- `RetainedIsSpared`, `NothingStaysUnheld`: what a purge deletes had expired, and
  what it leaves behind is still referenced by a row that has not.

Review publication, from `PurgeAssumption` and `PublishAssumption`, while rows
are purged and stores are hidden:

- `PublishKeepsRaw`: every step of publication is a step of `RawSpec` or leaves
  the raw tables alone, so the theorems on the purge hold here too.
- `DocumentsArePublic`, `SearchedAsPublished`, `NoReviewLost`: from `PublishInv`:
  a publisher in the middle of its work has a run to publish, and the index
  describes the one active version, whose corpus contains every document
  (`IndexDescribesActive`). The search compares counts only; because the
  documents are among those of the version, equal counts mean equal sets.
- `PublicationImplementsCorpus`: `PersistPublish` maps to `Publish`, hiding and
  showing stores to theirs, everything else to a stutter.

Discovery and matching, for any places on any tiles, any order of them, any depth
and page size, and for any names, addresses, phones, positions and catalogs:

- `CoverageIsComplete`: from `DiscoveryInv`. As long as nothing goes away, a
  place that was listed when the search began is in a tile of the queue, in the
  pages of the tile in hand that are still to come, in the rest of the page in
  hand, or was seen and has its locator or refusal. A tile is a prefix of the
  cells of its places, so what is split is covered by its quarters; a place
  that joins moves others to later pages only, never to one that was read. The
  theorem has no hypothesis on the provider's count: a tile is read without a
  split only if its pages showed all of it when its first page came
  (`UnsaturatedFits`), whether the count stops at what the pages show or goes
  further. What joins later may push a place behind the last page (`PushedOut`).
  The code looks for saturation on the first page only, so such a place is
  missed, and the property does not promise it: from then on the provider does
  not show it where the code looks. The code has 45 pages; the assumption only
  asks for more than one, as one full page that is not the last is saturated.
- `LinksStayStable`: a match is decided by whether there is one strong
  candidate, and a store that joins the catalog takes none away
  (`MatchIs`, `AnotherStore`).

Decisions, each from the invariant of the data it is made on, whatever
accumulates, in any number:

- `DoubtHoldsBack`, `EligibleIsWhole` (`StoresAssumption`): from `StoresInv`
  (candidates are numbered apart) and `GroupsCover`: however pairs are merged,
  every candidate is in a group, and a group has candidates only. That is a fold
  over a set, of which every step keeps a cover. A candidate in doubt is thus in
  the store it was merged into, and holds that back.
- `OpenIsAlwaysCovered` (`RecommendationAssumption`): from `HoursInv`, the hours
  that `validateBusinessHours` has passed. An interval covers a minute of the
  week where it lies or a week later (`CoveredTwice`), which is what the opening
  state looks at (`CoveredIsOpen`); the validation compares two intervals in the
  same place and a week apart, hence no minute has two (`CoveredOnce`).
- `WayOutIsAlwaysOffered` (`SearchAssumption`): a relaxation weakens one filter;
  `KeptHasNoReason` and `WeakerKeeps` say that a store which is kept fails no
  filter, and still fails none when one is weaker.
- `RankIsAlwaysStrict`: each of the keys orders any two stores, null last, in a
  way that three stores agree on; the first key in which two stores differ
  (`FirstDifference`) then decides as a lexicographic order does, and the last
  key, the id, always differs. The weighted rating is one of the keys, so its
  mean is shown to be an integer whatever was rated (`MeanIsInt`).

Ingestion, from `IngestionAssumption`, for any register, page size, operators,
failures and number of calls:

- `SucceededIsWhole`: from `IngestionInv`. What is stored of a content only grows,
  whoever writes (`Grows`): a row stays stored, a number stays staged, an issue
  stays. So the pages before the next one of a process are kept with their
  checkpoints although another process may be storing the same content, and the
  status SUCCEEDED is set by a process only after its last page. `NumbersApart`
  is a hypothesis on the register: rows that differ in the number as sent
  differ in the number as trimmed. Without it one of two such rows takes the
  staged record of the other (section 4).
- `ReportAlwaysAgrees`: from `ReportInv`. A page is asked for only when it is
  needed (`Needs`), so an attempt on the same content has the same pages and the
  checkpoints an earlier one left are of pages that are written again before the
  run ends; the sum over the checkpoints is a fold over a set, whose value does
  not depend on the order (`SumsAgree`); and rows that are refused are counted by
  their positions, which is their number as no number comes twice.
- `SnapshotIsAlwaysOneMoment`: from `MomentInv`: the pages in hand are of the
  listing before the change up to some page and of the listing after it from
  there on, each a part of what the listing has at its place. The rows add up to
  the total, so no page was short (`MixIs`); a change that keeps the total
  replaces one row by another state of itself, maybe at another place
  (`ChangeIs`); and a mix of two such listings has one number twice unless it is
  one of the two (`OneOfTwo`). The hypothesis `MaxDrift <= 1` is that of the run:
  with two changes during one fetch a row may leave as another joins, and the
  property is false (section 4).

Accounts, for any number of users, persons and requests (their proofs need
no assumption):

- `NothingIsWithoutAccount`: nothing of a withdrawn user remains and nothing is
  written for one. `AccountInv` adds that a user id is never given twice, that
  claims name the account of their user for as long as there is one, and that a
  request which links an account is the only one for its user.
- `OnlyOwnerChangesShown`: what a user is shown changes by a request of theirs,
  by their withdrawal or by the catalog only.

Catalog and search, for any snapshots, rows, evidence, batches, workers and
requests of clients. `PublishedIsInSnapshot` needs the ASSUME of `CatalogPublish`
(the rows of a snapshot have different numbers, as the unique index on them
demands), the others no assumption and nothing of what the decisions on stores
return, only when they are written:

- `PublishedIsInSnapshot` (`Spec`): `PublicInv` follows a row of the register
  into the transaction. `RegisterStores`: deduplication makes one store of each
  row; `ReconciledStores`: an id found for it belongs to its number
  (`LinksOfRows`), so that two stores never get one id; `ClassifiedBrands`: the
  brands share the stores out, and those of an eligible brand are trading and on
  the map. That is what a process holds between its decisions and its commit
  (`BrandsOf`), and it is about the snapshot alone: other publications cannot
  make it stale, except for the ids (`StoreIdentityLost`). `LinksOfDecided` and
  `DecidedIsWritten` say what the commit makes of it. Two hypotheses are named.
  `NoMerge`, `AutoMerge > 8000` (it is 9200): the rows of the register have no
  phone, so the score of a pair is 8000 at most and no two are ever merged
  (`RowsStayApart`); if they were, the facts of the first row would stand for
  the others, closed or not. `OneKeyPerBrand`: an operator gives one item of
  evidence for a brand; the code refuses overlapping numbers but not equal
  keys, of which the bakery takes the status that is written last (section 4).
- `EvidenceInUseFits` (`Spec`): `ActiveEvidenceFits` is inductive with the type
  of `batch`. It rests on the commit moving the pointer and superseding the
  evidence in one transaction, and on the order of snapshots checked there.
- `VersionIsOneAnswer`, `CompleteIsComplete`, `FreshCatalogAnswers`
  (`SearchSpec`): what the server reads is a function of the version
  (`AnswerFromVersion`), but for the stores of the reviews, of which the version
  has the number of their publication only. `MapOfVersion` says that the map of
  a client was made from its version and from the stores of that publication,
  as long as there is no newer one; once there is, the number is never current
  again. That a fresh catalog answers is `ActiveEvidenceFits` once more.

The page, from `MapShellAssumption`, for visits of any length, any stores,
versions, failures and number of positions that are waited for:

- `PageTyped` and `DetailIsOfResult` (`OneSnapshotOnScreen`), from `ShellInv`.
  One search at most can still succeed, and while it is in flight there is no
  result (`OneSearch`); the list on the screen may have been dropped but was
  never replaced (`SameList`), because the network answers no sooner than the
  page is rendered; so a click on that list selects a store of the result, if
  there is one (`SelectedInList`). Without `SameList` the click of a visitor on
  an old list would open a store the new result does not have. The assumption
  says that null is neither a store nor an error code.

The restoration, from `AppRestoreAssumption`, for any users, stores and number
of migrations, whatever each does to the tables:

- `VerifiedIsAlwaysTheCopy`: the rows are those read when the restoration began,
  not those the copy has by now. `RestoreInv` adds that the file being looked at
  is there and, once copied, whole or damaged but never partial.

Induction over data. The library's induction theorems take an operator, which the
provers cannot instantiate, so `DecisionsProofs` and `KakaoDiscoveryProofs` state
them about sets instead: a set that has 0 and every successor has every number
(`Induction`, from the least element of its complement), and likewise for the
subsets of a finite set (`SubsetInduction`). A definition by recursion is a CHOOSE
of a function; that there is one follows by the same induction (`FoldExists`,
`RecursionExists`), and then its equations are facts like any other.

What stays with TLC, and why.

- `InvocationEnds`, `DiscoveryEnds`, `WithdrawalAnswered`, `LoadingEnds`:
  liveness under fairness is out of the prover's reach.

`ModeCountsAddUp` does not hold, and `IdentityKept` neither: see section 4.

## 6. Not modelled

- *Review protection* (deidentification, fingerprints, encryption) and the DOM
  contract of the pages: pure functions of text, of which collection uses
  whether a review is accepted and whether it is known.
- *Release scripts, workspace checks, fixtures and the test kit*: no state of
  their own.
- *Contracts*: shapes and lengths of values; their codes are those of the modules
  that use them.
- Of modelled components: HTTP, cookies and origin checks, Auth.js and Kakao
  beyond their answers; key versions and the append pagination of collection;
  `searchReviews` of the retrieval, which the server does not call; text
  normalisation and wording in the recommendation; the drawer, chat and marker
  switches of the page; column checks and generated migrations.

`PROJECT.json` ("components") has the state of each.

## 7. Running

    tlc -workers 2 -config ReviewCrash.cfg MCReviewCollection
    tlc -workers 2 -config CatalogSearch.cfg MCCatalogSearch
    tlapm ReviewCollectionProofs.tla

A module of proofs takes from seconds to two minutes from nothing, on a machine
with a few cores. Every run
ends within a minute or two with two workers; `CatalogSearch`,
`Accounts` and `Decisions` take longest.
