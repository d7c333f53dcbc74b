--------------------------- MODULE KakaoDiscovery ---------------------------
(***************************************************************************)
(* runKakaoDiscovery: the search for bakeries of Seoul, tile by tile and   *)
(* page by page, and the choice of a discovery and of its places by a      *)
(* review run.                                                             *)
(*                                                                         *)
(* A tile is the sequence of the quarters it was split into.  A place is   *)
(* in one cell of the finest split, or in several when it is on a border.  *)
(* The provider lists a tile's places in its own order and shows at most   *)
(* Cap of them.  Every observation is a commit; every page is awaited.     *)
(***************************************************************************)
EXTENDS Integers, Sequences, FiniteSets, SequencesExt

CONSTANTS
  Process, Run,
  NoRun,        \* not a run
  Place,        \* places the provider may list
  Order,        \* the provider's order: a sequence of all places
  AtStart,      \* places listed at first
  Approved,     \* places tagged as bakeries
  Invalid,      \* places whose projection fails
  KeyOf,        \* canonical name, address, phone and position of a place
  StoreOf,      \* the one store a place's facts match, or NoStore
  StoreId, NoStore,
  CellsOf,      \* cells of the finest split that touch the place
  Quarter,      \* 1..4
  MaxDepth,     \* MAX_DISCOVERY_TILE_DEPTH
  PageSize,     \* DISCOVERY_PAGE_SIZE
  PageLimit,    \* DISCOVERY_PAGE_LIMIT
  Cap,          \* places of a tile the provider shows
  Moves,        \* of {"appear", "vanish"}: what the provider's list does
  Failures,     \* of {"ACCESS", "NETWORK", "OTHER", "CRASH"}
  CatalogMoves  \* TRUE: stores are published and hidden meanwhile

Saturation == PageSize * PageLimit

ASSUME DiscoveryAssumption ==
  /\ NoRun \notin Run /\ NoStore \notin StoreId
  /\ Order \in Seq(Place) /\ Range(Order) = Place /\ IsInjective(Order)
  /\ "none" \notin Place
  /\ AtStart \subseteq Place /\ Approved \subseteq Place
  /\ Invalid \subseteq Approved
  /\ StoreOf \in [Place -> StoreId \cup {NoStore}]
  /\ Quarter = 1..4
  /\ CellsOf \in [Place -> (SUBSET [1..MaxDepth -> Quarter]) \ {{}}]
  /\ MaxDepth \in Nat /\ PageSize \in Nat \ {0} /\ PageLimit \in Nat \ {0, 1}
  /\ Cap \in Nat /\ Cap >= Saturation
  /\ Moves \subseteq {"appear", "vanish"}
  /\ Failures \subseteq {"ACCESS", "NETWORK", "OTHER", "CRASH"}
  /\ CatalogMoves \in BOOLEAN

VARIABLES
  listed,       \* places the provider lists
  published,    \* stores with catalog_status published
  run,          \* kakao_discovery_run: its status; and, for the properties,
                \* what the provider has shown ever since its start, if
                \* nothing in the list went away
  finished,     \* runs in the order of finished_at_ms
  observation,  \* kakao_place_observation and its locator, by run and key
  proc,         \* the processes inside runKakaoDiscovery
  review        \* a review run: its discovery and its stores

vars == <<listed, published, run, finished, observation, proc, review>>

Key  == {KeyOf[x] : x \in Place}
Tile == SeqOf(Quarter, MaxDepth)
Closed == {"COMPLETE", "PARTIAL", "STOPPED_ACCESS", "FAILED_FINAL"}

NoObservation == [place |-> "none", status |-> "none"]
Observation ==
  [place : Place, status : {"MATCHED_ELIGIBLE", "MATCHED_EXCLUDED",
                            "UNMATCHED"}] \cup {NoObservation}

(* Local variables of one invocation. *)
Idle == [pc |-> "idle", run |-> NoRun, stores |-> {}, queue |-> <<>>,
         page |-> 0, docs |-> <<>>, end |-> FALSE, seen |-> {},
         final |-> "COMPLETE"]

TypeOK ==
  /\ listed \subseteq Place /\ published \subseteq StoreId
  /\ run \in [Run -> [status : Closed \cup {"none", "RUNNING"},
                      shown : SUBSET Place]]
  /\ finished \in SeqOf(Run, Cardinality(Run))
  /\ observation \in [Run -> [Key -> Observation]]
  /\ \A p \in Process :
       /\ proc[p].pc \in {"idle", "tile", "page", "finish"}
       /\ proc[p].stores \subseteq StoreId /\ proc[p].seen \subseteq Place
       /\ Range(proc[p].queue) \subseteq Tile
       /\ proc[p].page \in 0..PageLimit
       /\ proc[p].final \in Closed
  /\ review.discovery \in Run \cup {NoRun} /\ review.stores \subseteq StoreId

Init ==
  /\ listed = AtStart
  /\ published = StoreId
  /\ run = [r \in Run |-> [status |-> "none", shown |-> {}]]
  /\ finished = <<>>
  /\ observation = [r \in Run |-> [k \in Key |-> NoObservation]]
  /\ proc = [p \in Process |-> Idle]
  /\ review = [discovery |-> NoRun, stores |-> {}]

-----------------------------------------------------------------------------
(* The provider and the catalog *)

(* The elements of a sequence that are in a set, in their order.           *)
Among(seq, set) ==
  LET upTo[n \in 0..Len(seq)] ==
        IF n = 0 THEN <<>>
        ELSE IF seq[n] \in set THEN Append(upTo[n - 1], seq[n])
        ELSE upTo[n - 1]
  IN  upTo[Len(seq)]

InTile(x, t) == \E c \in CellsOf[x] : IsPrefix(t, c)
ContentsOf(t, places) == Among(Order, {x \in places : InTile(x, t)})
Contents(t) == ContentsOf(t, listed)

(* What the pages that a process has yet to read of its tile do not show   *)
(* once the provider lists these places: those behind the cap.             *)
PushedOut(p, places) ==
  IF proc[p].pc = "page" /\ ~proc[p].end
  THEN LET c == ContentsOf(Head(proc[p].queue), places)
       IN  {c[i] : i \in Cap + 1..Len(c)}
  ELSE {}

Appear(x) ==
  /\ "appear" \in Moves /\ x \notin listed
  /\ listed' = listed \cup {x}
  /\ run' = [r \in Run |-> [run[r] EXCEPT !.shown = @ \ UNION
                {PushedOut(p, listed') : p \in {q \in Process :
                                                 proc[q].run = r}}]]
  /\ UNCHANGED <<published, finished, observation, proc, review>>

Vanish(x) ==
  /\ "vanish" \in Moves /\ x \in listed
  /\ listed' = listed \ {x}
  /\ run' = [r \in Run |-> IF run[r].status = "RUNNING"
                           THEN [run[r] EXCEPT !.shown = {}]
                           ELSE run[r]]
  /\ UNCHANGED <<published, finished, observation, proc, review>>

PublishOrHide(s) ==
  /\ CatalogMoves
  /\ published' = IF s \in published THEN published \ {s}
                                     ELSE published \cup {s}
  /\ UNCHANGED <<listed, run, finished, observation, proc, review>>

MinOf(a, b) == IF a < b THEN a ELSE b
Pageable(t) == MinOf(Len(Contents(t)), Cap)

(* validatePagination leaves no other answer. *)
Documents(t, n) ==
  SubSeq(Contents(t), (n - 1) * PageSize + 1, MinOf(n * PageSize, Pageable(t)))
IsEnd(t, n) == n * PageSize >= Pageable(t)

-----------------------------------------------------------------------------
(* runKakaoDiscovery *)

SlotFree == \A r \in Run : run[r].status # "RUNNING"

New(r) == run[r].status = "none"

(* A known run is refused while it runs and answered from its rows when it *)
(* is closed; neither changes anything. *)
Start(p, r) ==
  /\ proc[p].pc = "idle" /\ New(r) /\ SlotFree
  /\ run' = [run EXCEPT ![r] = [status |-> "RUNNING", shown |-> listed]]
  /\ proc' = [proc EXCEPT ![p] = [Idle EXCEPT !.pc = "tile", !.run = r,
                                  !.stores = published, !.queue = << <<>> >>]]
  /\ UNCHANGED <<listed, published, finished, observation, review>>

(* splitDiscoveryTile; mutants forget a quarter or return the tile. *)
SplitDropsOne(t) == [i \in 1..3 |-> Append(t, i)]
SplitRepeats(t) == <<t>>
Split(t) == [i \in 1..Cardinality(Quarter) |-> Append(t, i)]

Saturated(t) == Pageable(t) >= Saturation /\ ~IsEnd(t, 1)

(* The first page of a tile: a saturated one is split into quarters at the *)
(* end of the queue, or given up at the depth limit.                       *)
SplitTile(p) ==
  LET t == Head(proc[p].queue) IN
  /\ proc[p].pc = "tile" /\ proc[p].queue # <<>>
  /\ Saturated(t) /\ Len(t) < MaxDepth
  /\ proc' = [proc EXCEPT ![p].queue = Tail(@) \o Split(t)]
  /\ UNCHANGED <<listed, published, run, finished, observation, review>>

GiveUp(w) == [w EXCEPT !.queue = Tail(@), !.final = "PARTIAL"]

GiveUpTile(p) ==
  LET t == Head(proc[p].queue) IN
  /\ proc[p].pc = "tile" /\ proc[p].queue # <<>>
  /\ Saturated(t) /\ Len(t) = MaxDepth
  /\ proc' = [proc EXCEPT ![p] = GiveUp(@)]
  /\ UNCHANGED <<listed, published, run, finished, observation, review>>

AwaitPage(p, n) ==
  LET t == Head(proc[p].queue) IN
  /\ proc' = [proc EXCEPT ![p].pc = "page", ![p].page = n,
                          ![p].docs = Documents(t, n), ![p].end = IsEnd(t, n)]
  /\ UNCHANGED <<listed, published, run, finished, observation, review>>

OpenTile(p) ==
  /\ proc[p].pc = "tile" /\ proc[p].queue # <<>>
  /\ ~Saturated(Head(proc[p].queue))
  /\ AwaitPage(p, 1)

ReadNextPage(p) ==
  /\ proc[p].pc = "page" /\ proc[p].docs = <<>>
  /\ ~proc[p].end /\ proc[p].page < PageLimit
  /\ AwaitPage(p, proc[p].page + 1)

CloseTile(p) ==
  LET w == proc[p] IN
  /\ w.pc = "page" /\ w.docs = <<>>
  /\ w.end \/ w.page = PageLimit
  /\ proc' = [proc EXCEPT ![p] =
       [(IF w.end THEN [w EXCEPT !.queue = Tail(@)] ELSE GiveUp(w))
          EXCEPT !.pc = "tile"]]
  /\ UNCHANGED <<listed, published, run, finished, observation, review>>

MatchOf(x, stores) ==
  CASE StoreOf[x] = NoStore -> "UNMATCHED"
    [] StoreOf[x] \in stores -> "MATCHED_ELIGIBLE"
    [] OTHER -> "MATCHED_EXCLUDED"

(* One document: seen before, not a bakery, or observed with its locator   *)
(* unless the run already has the key.                                     *)
SkipDocument(p) ==
  LET w == proc[p] IN
  /\ w.pc = "page" /\ w.docs # <<>>
  /\ Head(w.docs) \in w.seen \/ Head(w.docs) \notin Approved
  /\ proc' = [proc EXCEPT ![p].docs = Tail(@),
                          ![p].seen = @ \cup {Head(w.docs)}]
  /\ UNCHANGED <<listed, published, run, finished, observation, review>>

Observe(p) ==
  LET w == proc[p]
      x == Head(w.docs)
  IN
  /\ w.pc = "page" /\ w.docs # <<>>
  /\ x \notin w.seen /\ x \in Approved \ Invalid
  /\ proc' = [proc EXCEPT ![p].docs = Tail(@), ![p].seen = @ \cup {x}]
  /\ observation' =
       [observation EXCEPT ![w.run][KeyOf[x]] =
          IF @ # NoObservation THEN @
          ELSE [place |-> x, status |-> MatchOf(x, w.stores)]]
  /\ UNCHANGED <<listed, published, run, finished, review>>

(* An answer that is an error, or a place that cannot be projected, ends   *)
(* the search: finalStatusForError.                                        *)
FinalStatus(error) ==
  CASE error = "ACCESS"  -> "STOPPED_ACCESS"
    [] error = "NETWORK" -> "PARTIAL"
    [] error = "OTHER"   -> "FAILED_FINAL"

SearchFails(p) ==
  LET w == proc[p] IN
  /\ \/ w.pc = "tile" /\ w.queue # <<>>
     \/ w.pc = "page" /\ w.docs = <<>> /\ ~w.end /\ w.page < PageLimit
  /\ \E error \in Failures \ {"CRASH"} :
       proc' = [proc EXCEPT ![p].pc = "finish",
                            ![p].final = FinalStatus(error)]
  /\ UNCHANGED <<listed, published, run, finished, observation, review>>

ProjectionFails(p) ==
  LET w == proc[p] IN
  /\ w.pc = "page" /\ w.docs # <<>>
  /\ Head(w.docs) \in Invalid \ w.seen
  /\ proc' = [proc EXCEPT ![p].pc = "finish",
                          ![p].final = FinalStatus("OTHER")]
  /\ UNCHANGED <<listed, published, run, finished, observation, review>>

Finish(p) ==
  LET w == proc[p] IN
  /\ w.pc = "finish" \/ (w.pc = "tile" /\ w.queue = <<>>)
  /\ run' = [run EXCEPT ![w.run].status = w.final]
  /\ finished' = Append(finished, w.run)
  /\ proc' = [proc EXCEPT ![p] = Idle]
  /\ UNCHANGED <<listed, published, observation, review>>

Crash(p) ==
  /\ "CRASH" \in Failures /\ proc[p].pc # "idle"
  /\ proc' = [proc EXCEPT ![p] = Idle]
  /\ UNCHANGED <<listed, published, run, finished, observation, review>>

-----------------------------------------------------------------------------
(* collectReviewsCommand: the discovery the operator names, or the newest  *)
(* complete one; its eligible places that still have a locator.            *)

Targets(d) == {StoreOf[observation[d][k].place] :
                 k \in {j \in Key :
                          observation[d][j].status = "MATCHED_ELIGIBLE"}}

latestCompleteDiscovery ==
  LET complete == SelectSeq(finished, LAMBDA r : run[r].status = "COMPLETE")
  IN  IF complete = <<>> THEN {} ELSE {Last(complete)}

NamedDiscovery == {d \in Run : run[d].status # "none"}

CollectReviews ==
  /\ review.discovery = NoRun
  /\ \E d \in latestCompleteDiscovery \cup NamedDiscovery :
       review' = [discovery |-> d, stores |-> Targets(d)]
  /\ UNCHANGED <<listed, published, run, finished, observation, proc>>

Search(p) ==
  \/ SplitTile(p) \/ GiveUpTile(p) \/ OpenTile(p) \/ ReadNextPage(p)
  \/ CloseTile(p) \/ SkipDocument(p) \/ Observe(p) \/ SearchFails(p)
  \/ ProjectionFails(p) \/ Finish(p)

Next ==
  \/ \E x \in Place : Appear(x) \/ Vanish(x)
  \/ \E s \in StoreId : PublishOrHide(s)
  \/ \E p \in Process : Search(p) \/ Crash(p) \/ \E r \in Run : Start(p, r)
  \/ CollectReviews

Spec == Init /\ [][Next]_vars
FairSpec == Spec /\ \A p \in Process : WF_vars(Search(p))

-----------------------------------------------------------------------------
(* Properties *)

(* A complete discovery has observed every bakery that the provider showed *)
(* all the time, if nothing it listed went away meanwhile: however tiles   *)
(* were split, pages grew and places moved to a later page, also when the  *)
(* provider counts no more places of a tile than its pages hold; a place   *)
(* on a border is not forgotten by both sides (run-kakao-discovery.ts).    *)
CompleteCoversSeoul ==
  \A r \in DOMAIN run : run[r].status = "COMPLETE" =>
    \A x \in run[r].shown \cap Approved :
      observation[r][KeyOf[x]] # NoObservation

(* A search that nobody interrupts ends, although it feeds its own queue.  *)
DiscoveryEnds ==
  \A p \in Process : proc[p].pc # "idle" ~> proc[p].pc = "idle"

=============================================================================
