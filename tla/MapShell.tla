------------------------------ MODULE MapShell ------------------------------
(***************************************************************************)
(* The page of the map: its search, its selected store, and the requests   *)
(* it has sent (components/layout/map-shell.tsx, map-shell-state.ts,       *)
(* components/store/store-api-client.ts, store-search-form.tsx).           *)
(*                                                                         *)
(* The reducer numbers its requests and drops the answers of those that    *)
(* were replaced.  A replaced request is aborted too, and then fails: its  *)
(* failure arrives while its successor is loading.  What a click does is   *)
(* decided by the page as it was last rendered, which is older than the    *)
(* state after an answer, or after a position that the browser found while *)
(* the visitor went on using the page.                                     *)
(***************************************************************************)
EXTENDS Naturals, FiniteSets

CONSTANTS Store,        \* stores a search may find
          Version,      \* snapshot versions the server may answer from
          Failures,     \* error codes the server or the network may give
          NoValue,      \* null
          MaxSearches,  \* bound on the searches of a visit
          MaxPositions, \* bound on the positions waited for at a time
          MaxDetails    \* bound on the selections of a visit

ErrorCodes ==
  {"AUTHENTICATION_REQUIRED", "SEARCH_INPUT_INVALID", "ORIGIN_REQUIRED",
   "RESOURCE_NOT_FOUND", "SEARCH_DATA_STALE", "SEARCH_DATA_UNAVAILABLE",
   "SEARCH_DATA_VERSION_MISMATCH", "SEARCH_DATABASE_UNAVAILABLE",
   "INTERNAL_ERROR", "INVALID_RESPONSE", "NETWORK_UNAVAILABLE",
   "REQUEST_ABORTED", "REQUEST_FAILED", "SNAPSHOT_MISMATCH",
   "STORE_ID_MISMATCH"}

MapShellAssumption ==
  /\ Failures \subseteq ErrorCodes
  /\ MaxSearches \in Nat
  /\ MaxPositions \in Nat
  /\ MaxDetails \in Nat
  /\ NoValue \notin Store \cup ErrorCodes

VARIABLES
  searchStatus,       \* state of the search panel
  searchRequestId,    \* number of the search whose answer is shown
  searchResult,       \* items, completeness and version, or null
  searchErrorCode,
  selectedStoreId,    \* kept when the visitor goes back to the list
  detailStatus,
  detailRequestId,
  detail,             \* store and version of the detail, or null
  detailErrorCode,
  drawerView,         \* "LIST" or "DETAIL"
  mobileSurface,      \* "LIST" or "MAP"
  rendered,           \* the page on the screen, which the handlers see
  useCurrentLocation, \* whether the form sends a position
  locationStatus,     \* of the form: waiting for a position, or failed
  positionsAsked,     \* submissions of the form that wait for a position
  lastSearch,         \* whether a search without a position can be repeated
  searchCount,        \* searchRequestIdRef
  detailCount,        \* detailRequestIdRef
  requests            \* requests in flight

search == <<searchStatus, searchRequestId, searchResult, searchErrorCode>>
selection == <<selectedStoreId, detailStatus, detailRequestId, detail,
               detailErrorCode, drawerView>>
page == <<search, selection, mobileSurface>>
form == <<useCurrentLocation, locationStatus, positionsAsked, lastSearch>>
vars == <<page, rendered, form, searchCount, detailCount, requests>>

Result == [items : SUBSET Store, partial : BOOLEAN, version : Version]
Detail == [store : Store, version : Version]
PublicCodes == {"AUTHENTICATION_REQUIRED", "INVALID_INPUT", "NOT_FOUND",
                "STALE_DATA", "UNAVAILABLE", "UNKNOWN"}

publicErrorCode(code) ==
  CASE code = "AUTHENTICATION_REQUIRED" -> "AUTHENTICATION_REQUIRED"
    [] code \in {"SEARCH_INPUT_INVALID", "ORIGIN_REQUIRED"}
         -> "INVALID_INPUT"
    [] code = "RESOURCE_NOT_FOUND" -> "NOT_FOUND"
    [] code \in {"SEARCH_DATA_STALE", "SEARCH_DATA_VERSION_MISMATCH",
                 "SNAPSHOT_MISMATCH"} -> "STALE_DATA"
    [] code \in {"SEARCH_DATA_UNAVAILABLE", "SEARCH_DATABASE_UNAVAILABLE",
                 "NETWORK_UNAVAILABLE", "REQUEST_FAILED"} -> "UNAVAILABLE"
    [] OTHER -> "UNKNOWN"

-----------------------------------------------------------------------------
(* The reducer.                                                            *)

clearDetail ==
  /\ selectedStoreId' = NoValue
  /\ detailStatus' = "IDLE"
  /\ detailRequestId' = NoValue
  /\ detail' = NoValue
  /\ detailErrorCode' = NoValue
  /\ drawerView' = "LIST"

searchStatusFor(result) ==
  IF result.items = {} THEN "EMPTY"
  ELSE IF result.partial THEN "PARTIAL" ELSE "SUCCESS"

isCurrentSearch(id) == searchRequestId = id

\* Mutant: the number of the search is compared.
OfCurrentSearch(storeId, id) ==
  selectedStoreId = storeId /\ searchRequestId = id

isCurrentDetail(storeId, id) ==
  selectedStoreId = storeId /\ detailRequestId = id

hasCurrentSnapshot(answer) ==
  searchResult = NoValue \/ answer.version = searchResult.version

searchStarted(id) ==
  /\ searchStatus' = "LOADING"
  /\ searchRequestId' = id
  /\ searchResult' = NoValue
  /\ searchErrorCode' = NoValue
  /\ clearDetail

\* Mutant: the selection survives the answer of a search.
SelectionKept(id, result) ==
  IF isCurrentSearch(id)
  THEN /\ searchStatus' = searchStatusFor(result)
       /\ searchResult' = result
       /\ searchErrorCode' = NoValue
       /\ UNCHANGED <<searchRequestId, selection>>
  ELSE UNCHANGED <<search, selection>>

searchSucceeded(id, result) ==
  IF isCurrentSearch(id)
  THEN /\ searchStatus' = searchStatusFor(result)
       /\ searchResult' = result
       /\ searchErrorCode' = NoValue
       /\ clearDetail
       /\ UNCHANGED searchRequestId
  ELSE UNCHANGED <<search, selection>>

searchFailed(id, code) ==
  IF isCurrentSearch(id)
  THEN /\ searchStatus' = "ERROR"
       /\ searchResult' = NoValue
       /\ searchErrorCode' = publicErrorCode(code)
       /\ clearDetail
       /\ UNCHANGED searchRequestId
  ELSE UNCHANGED <<search, selection>>

selectStore(storeId, id) ==
  /\ selectedStoreId' = storeId
  /\ detailStatus' = "LOADING"
  /\ detailRequestId' = id
  /\ detail' = NoValue
  /\ detailErrorCode' = NoValue
  /\ drawerView' = "DETAIL"
  /\ mobileSurface' = "LIST"

detailSucceeded(storeId, id, answer) ==
  IF isCurrentDetail(storeId, id) /\ hasCurrentSnapshot(answer)
  THEN /\ detailStatus' = "SUCCESS"
       /\ detail' = answer
       /\ detailErrorCode' = NoValue
       /\ UNCHANGED <<selectedStoreId, detailRequestId, drawerView>>
  ELSE UNCHANGED selection

detailFailed(storeId, id, code) ==
  IF isCurrentDetail(storeId, id)
  THEN /\ detailStatus' = "ERROR"
       /\ detail' = NoValue
       /\ detailErrorCode' = publicErrorCode(code)
       /\ UNCHANGED <<selectedStoreId, detailRequestId, drawerView>>
  ELSE UNCHANGED selection

backToList ==
  /\ detailStatus' = "IDLE"
  /\ detailRequestId' = NoValue
  /\ detail' = NoValue
  /\ detailErrorCode' = NoValue
  /\ drawerView' = "LIST"
  /\ UNCHANGED selectedStoreId

-----------------------------------------------------------------------------
(* Requests.                                                               *)

SearchRequest(id, fromForm) ==
  [kind |-> "SEARCH", id |-> id, fromForm |-> fromForm, store |-> NoValue,
   version |-> NoValue, aborted |-> FALSE]

DetailRequest(id, storeId, version) ==
  [kind |-> "DETAIL", id |-> id, fromForm |-> FALSE, store |-> storeId,
   version |-> version, aborted |-> FALSE]

\* A controller is held for the last request of each kind only; those before
\* it have been aborted.
abort(kinds, sent) ==
  {[r EXCEPT !.aborted = @ \/ r.kind \in kinds] : r \in sent}

\* The requests after a new one replaced those of the given kinds.
Replacing(kinds, request) == abort(kinds, requests) \cup {request}

\* An abort makes the call fail; when it cuts the body of the answer off, the
\* body cannot be parsed and the code says so instead.
AbortCodes == {"REQUEST_ABORTED", "INVALID_RESPONSE", "REQUEST_FAILED"}

Codes(r) == IF r.aborted THEN AbortCodes ELSE Failures

\* What reading a detail makes of the answer: null, or why it was refused.
readStoreDetail(r, answer) ==
  IF answer.version # r.version THEN "SNAPSHOT_MISMATCH"
  ELSE IF answer.store # r.store THEN "STORE_ID_MISMATCH"
  ELSE NoValue

Screen == [status |-> searchStatus, error |-> searchErrorCode,
           result |-> searchResult, view |-> drawerView]

-----------------------------------------------------------------------------
Init ==
  /\ searchStatus = "IDLE"
  /\ searchRequestId = NoValue
  /\ searchResult = NoValue
  /\ searchErrorCode = NoValue
  /\ selectedStoreId = NoValue
  /\ detailStatus = "IDLE"
  /\ detailRequestId = NoValue
  /\ detail = NoValue
  /\ detailErrorCode = NoValue
  /\ drawerView = "LIST"
  /\ mobileSurface = "LIST"
  /\ rendered = Screen
  /\ useCurrentLocation = FALSE
  /\ locationStatus = "IDLE"
  /\ positionsAsked = 0
  /\ lastSearch = FALSE
  /\ searchCount = 0
  /\ detailCount = 0
  /\ requests = {}

\* React renders before the next event what an event of the visitor changed,
\* and in a task of its own what an answer or a position changed.
RenderedAtOnce == rendered' = Screen'

handleSearch(located, fromForm) ==
  /\ searchCount < MaxSearches
  /\ lastSearch' = ~located
  /\ searchCount' = searchCount + 1
  /\ requests' = Replacing({"SEARCH", "DETAIL"},
                           SearchRequest(searchCount + 1, fromForm))
  /\ searchStarted(searchCount + 1)
  /\ UNCHANGED <<mobileSurface, detailCount>>

\* The form sends nothing while a search of its own or of the page runs.
FormFree ==
  /\ rendered.view = "LIST"
  /\ rendered.status # "LOADING"
  /\ locationStatus # "LOCATING"

Submit ==
  /\ FormFree
  /\ ~useCurrentLocation
  /\ handleSearch(FALSE, TRUE)
  /\ UNCHANGED <<useCurrentLocation, locationStatus, positionsAsked>>
  /\ RenderedAtOnce

\* The form asks the browser for a position, which may ask the visitor.
AskPosition ==
  /\ FormFree
  /\ useCurrentLocation
  /\ positionsAsked < MaxPositions
  /\ locationStatus' = "LOCATING"
  /\ positionsAsked' = positionsAsked + 1
  /\ UNCHANGED <<page, useCurrentLocation, lastSearch, searchCount,
                 detailCount, requests>>
  /\ RenderedAtOnce

\* The checkbox frees the form, also while a position is waited for: the
\* submission that asked for it goes on, and another may join it.
ToggleLocation ==
  /\ rendered.view = "LIST"
  /\ useCurrentLocation' = ~useCurrentLocation
  /\ locationStatus' = "IDLE"
  /\ UNCHANGED <<page, positionsAsked, lastSearch, searchCount, detailCount,
                 requests>>
  /\ RenderedAtOnce

PositionFound ==
  /\ positionsAsked > 0
  /\ positionsAsked' = positionsAsked - 1
  /\ handleSearch(TRUE, TRUE)
  /\ UNCHANGED <<rendered, useCurrentLocation, locationStatus>>

PositionRefused ==
  /\ positionsAsked > 0
  /\ positionsAsked' = positionsAsked - 1
  /\ locationStatus' = "ERROR"
  /\ UNCHANGED <<page, rendered, useCurrentLocation, lastSearch, searchCount,
                 detailCount, requests>>

RetryOffered ==
  /\ rendered.view = "LIST"
  /\ rendered.status = "ERROR"
  /\ rendered.error # "AUTHENTICATION_REQUIRED"

handleRetrySearch ==
  /\ RetryOffered
  /\ lastSearch
  /\ handleSearch(FALSE, FALSE)
  /\ UNCHANGED <<useCurrentLocation, locationStatus, positionsAsked>>
  /\ RenderedAtOnce

\* A click in the list or on the map, on a store of the rendered result.
handleStoreSelection(storeId) ==
  /\ rendered.result # NoValue
  /\ storeId \in rendered.result.items
  /\ detailCount < MaxDetails
  /\ detailCount' = detailCount + 1
  /\ requests' = Replacing({"DETAIL"},
                           DetailRequest(detailCount + 1, storeId,
                                         rendered.result.version))
  /\ selectStore(storeId, detailCount + 1)
  /\ UNCHANGED <<search, form, searchCount>>
  /\ RenderedAtOnce

handleBack ==
  /\ rendered.view = "DETAIL"
  /\ requests' = abort({"DETAIL"}, requests)
  /\ backToList
  /\ UNCHANGED <<search, mobileSurface, form, searchCount, detailCount>>
  /\ RenderedAtOnce

ToggleMobileSurface ==
  /\ mobileSurface' = IF mobileSurface = "LIST" THEN "MAP" ELSE "LIST"
  /\ UNCHANGED <<search, selection, form, searchCount, detailCount, requests>>
  /\ RenderedAtOnce

Render ==
  /\ rendered # Screen
  /\ UNCHANGED <<page, form, searchCount, detailCount, requests>>
  /\ RenderedAtOnce

\* The network answers a request no sooner than the page has been rendered;
\* the failure of an aborted one needs no network.
Answerable(r) == r.aborted \/ rendered = Screen

\* The form is free again once a search of its own has been answered, however,
\* though another submission may still wait for a position.
SubmissionEnds(r) ==
  locationStatus' = IF r.fromForm THEN "IDLE" ELSE locationStatus

SearchAnswered(r) ==
  /\ r.kind = "SEARCH"
  /\ Answerable(r)
  /\ requests' = requests \ {r}
  /\ \/ /\ ~r.aborted
        /\ \E result \in Result : searchSucceeded(r.id, result)
     \/ \E code \in Codes(r) : searchFailed(r.id, code)
  /\ SubmissionEnds(r)
  /\ UNCHANGED <<mobileSurface, rendered, useCurrentLocation, positionsAsked,
                 lastSearch, searchCount, detailCount>>

DetailAnswered(r) ==
  /\ r.kind = "DETAIL"
  /\ Answerable(r)
  /\ requests' = requests \ {r}
  /\ \/ /\ ~r.aborted
        /\ \E answer \in Detail :
             LET refusal == readStoreDetail(r, answer)
             IN  IF refusal = NoValue
                 THEN detailSucceeded(r.store, r.id, answer)
                 ELSE detailFailed(r.store, r.id, refusal)
     \/ \E code \in Codes(r) : detailFailed(r.store, r.id, code)
  /\ UNCHANGED <<search, mobileSurface, rendered, form, searchCount,
                 detailCount>>

Visitor ==
  \/ Submit
  \/ AskPosition
  \/ ToggleLocation
  \/ handleRetrySearch
  \/ \E s \in Store : handleStoreSelection(s)
  \/ handleBack
  \/ ToggleMobileSurface

Browser == PositionFound \/ PositionRefused \/ Render

Answer(n) ==
  \E r \in requests : r.id = n /\ (SearchAnswered(r) \/ DetailAnswered(r))

Next ==
  \/ Visitor
  \/ Browser
  \/ \E n \in 1 .. MaxSearches + MaxDetails : Answer(n)

Spec == Init /\ [][Next]_vars

(* The browser renders what changed, and a request ends: with an answer, or *)
(* with the failure that the browser reports when it gives it up.  Nothing  *)
(* obliges the visitor to do anything, nor to answer the browser's question *)
(* for the position.                                                        *)
FairSpec ==
  /\ Spec
  /\ WF_vars(Render)
  /\ \A n \in 1 .. MaxSearches + MaxDetails :
       /\ WF_vars(\E r \in requests : r.id = n /\ SearchAnswered(r))
       /\ WF_vars(\E r \in requests : r.id = n /\ DetailAnswered(r))

-----------------------------------------------------------------------------
(* Every part of the page has its type; the fields of the state and the    *)
(* counters of the requests are those of MapShellState and MapShell.       *)
MapShellTypeOK ==
  /\ searchStatus \in {"IDLE", "LOADING", "SUCCESS", "PARTIAL", "EMPTY",
                       "ERROR"}
  /\ searchRequestId \in 1 .. MaxSearches \cup {NoValue}
  /\ searchResult \in Result \cup {NoValue}
  /\ searchErrorCode \in PublicCodes \cup {NoValue}
  /\ selectedStoreId \in Store \cup {NoValue}
  /\ detailStatus \in {"IDLE", "LOADING", "SUCCESS", "ERROR"}
  /\ detailRequestId \in 1 .. MaxDetails \cup {NoValue}
  /\ detail \in Detail \cup {NoValue}
  /\ detailErrorCode \in PublicCodes \cup {NoValue}
  /\ drawerView \in {"LIST", "DETAIL"}
  /\ mobileSurface \in {"LIST", "MAP"}
  /\ useCurrentLocation \in BOOLEAN
  /\ locationStatus \in {"IDLE", "LOCATING", "ERROR"}
  /\ positionsAsked \in 0 .. MaxPositions
  /\ lastSearch \in BOOLEAN
  /\ searchCount \in 0 .. MaxSearches
  /\ detailCount \in 0 .. MaxDetails
  /\ \A r \in requests : r.kind \in {"SEARCH", "DETAIL"}

(* The detail beside a result is of the selected store, and of a store and *)
(* a version of that result, also when the selection was made on a list    *)
(* that a newer search had already replaced.                               *)
OneSnapshotOnScreen ==
  detail # NoValue =>
    /\ detail.store = selectedStoreId
    /\ searchResult # NoValue =>
         /\ detail.version = searchResult.version
         /\ detail.store \in searchResult.items

(* A search and a detail that are loading are answered in the end, unless  *)
(* the visitor starts another.                                             *)
LoadingEnds ==
  /\ \A n \in 1 .. MaxSearches :
       (searchStatus = "LOADING" /\ searchRequestId = n)
         ~> ~(searchStatus = "LOADING" /\ searchRequestId = n)
  /\ \A n \in 1 .. MaxDetails :
       (detailStatus = "LOADING" /\ detailRequestId = n)
         ~> ~(detailStatus = "LOADING" /\ detailRequestId = n)

=============================================================================
