--------------------------- MODULE MapShellProofs ---------------------------
(* That the page never shows a detail beside a result it does not belong    *)
(* to, for any stores, versions, failures and lengths of a visit.           *)
EXTENDS MapShell, TLAPS

Kinds == {"SEARCH", "DETAIL"}

Request ==
  [kind : Kinds, id : Nat, fromForm : BOOLEAN, store : Store \cup {NoValue},
   version : Version \cup {NoValue}, aborted : BOOLEAN]

Page ==
  [status : {"IDLE", "LOADING", "SUCCESS", "PARTIAL", "EMPTY", "ERROR"},
   error : PublicCodes \cup {NoValue}, result : Result \cup {NoValue},
   view : {"LIST", "DETAIL"}]

\* A request for a detail names a store.
RequestsOK ==
  /\ requests \subseteq Request
  /\ \A r \in requests : r.kind = "DETAIL" => r.store \in Store

TypeInv == MapShellTypeOK /\ rendered \in Page /\ RequestsOK

Live(r) == r.kind = "SEARCH" /\ ~r.aborted

\* One search at most can still succeed, and while it is in flight there is
\* no result.
OneSearch ==
  \A r \in requests : Live(r) =>
    /\ searchResult = NoValue
    /\ \A q \in requests : Live(q) => q = r

\* A rendered list may have been dropped, but never replaced by another: the
\* page is rendered before the network answers.
SameList ==
  rendered.result # NoValue /\ searchResult # NoValue
    => rendered.result = searchResult

\* What is selected is in the list, also after the visitor went back to it.
SelectedInList ==
  selectedStoreId # NoValue /\ searchResult # NoValue
    => selectedStoreId \in searchResult.items

DetailOfSelected ==
  detail # NoValue =>
    /\ selectedStoreId # NoValue /\ detail.store = selectedStoreId
    /\ searchResult # NoValue => detail.version = searchResult.version

ShellInv ==
  TypeInv /\ OneSearch /\ SameList /\ SelectedInList /\ DetailOfSelected

-----------------------------------------------------------------------------
(* Types *)

LEMMA CodesPublic == \A code : publicErrorCode(code) \in PublicCodes
BY ZenonT(60) DEF publicErrorCode, PublicCodes

LEMMA StatusTyped ==
  \A result : searchStatusFor(result) \in {"SUCCESS", "PARTIAL", "EMPTY"}
BY DEF searchStatusFor

LEMMA ScreenTyped ==
  ASSUME MapShellTypeOK
  PROVE  Screen \in Page /\ Screen.result = searchResult
BY DEF MapShellTypeOK, Screen, Page

LEMMA Aborting ==
  ASSUME NEW q \in Request, NEW b \in BOOLEAN
  PROVE  LET r == [q EXCEPT !.aborted = b]
         IN  /\ r \in Request /\ r.kind = q.kind /\ r.store = q.store
             /\ r.aborted = b /\ (b = q.aborted => r = q)
BY DEF Request

LEMMA AbortTyped ==
  ASSUME NEW kinds, NEW sent, sent \subseteq Request,
         NEW r \in abort(kinds, sent)
  PROVE  \E q \in sent :
           /\ r \in Request /\ r.kind = q.kind /\ r.store = q.store
           /\ q.kind \in kinds => r.aborted
           /\ q.kind \notin kinds => r = q
<1>1. PICK q \in sent :
        r = [q EXCEPT !.aborted = q.aborted \/ q.kind \in kinds]
  BY Zenon DEF abort
<1> DEFINE b == q.aborted \/ q.kind \in kinds
<1>2. q \in Request /\ q.aborted \in BOOLEAN
  BY DEF Request
<1>3. b \in BOOLEAN /\ (q.kind \in kinds => b)
  OBVIOUS
<1>4. q.kind \notin kinds => b = q.aborted
  BY <1>2
<1>5. r = [q EXCEPT !.aborted = b]
  BY <1>1, Zenon
<1> HIDE DEF b
<1> QED  BY <1>2, <1>3, <1>4, <1>5, Aborting

LEMMA AbortKeeps ==
  ASSUME RequestsOK, NEW kinds
  PROVE  /\ abort(kinds, requests) \subseteq Request
         /\ \A r \in abort(kinds, requests) :
              r.kind = "DETAIL" => r.store \in Store
BY AbortTyped DEF RequestsOK

\* To abort the details leaves the searches alone.
LEMMA SearchesLeft ==
  ASSUME RequestsOK, NEW r \in abort({"DETAIL"}, requests), Live(r)
  PROVE  r \in requests
<1>1. PICK q \in requests :
        /\ r.kind = q.kind
        /\ q.kind \notin {"DETAIL"} => r = q
  BY AbortTyped DEF RequestsOK
<1> QED  BY <1>1 DEF Live

LEMMA InitShell ==
  ASSUME MapShellAssumption, Init
  PROVE  ShellInv
<1>1. MapShellTypeOK
  <2>1. /\ searchCount \in 0 .. MaxSearches /\ detailCount \in 0 .. MaxDetails
        /\ positionsAsked \in 0 .. MaxPositions
    BY DEF Init, MapShellAssumption
  <2> QED  BY <2>1, ZenonT(60) DEF Init, MapShellTypeOK
<1>2. rendered \in Page /\ RequestsOK
  BY <1>1, ScreenTyped DEF Init, RequestsOK
<1>3. OneSearch /\ SameList /\ SelectedInList /\ DetailOfSelected
  BY DEF Init, OneSearch, SameList, SelectedInList, DetailOfSelected
<1> QED  BY <1>1, <1>2, <1>3 DEF ShellInv, TypeInv

-----------------------------------------------------------------------------
(* Steps *)

\* A rendering makes the list on the screen that of the state.
LEMMA Rendering ==
  ASSUME MapShellTypeOK', RenderedAtOnce
  PROVE  rendered' \in Page /\ SameList'
<1>1. rendered' = [status |-> searchStatus', error |-> searchErrorCode',
                   result |-> searchResult', view |-> drawerView']
  BY DEF RenderedAtOnce, Screen
<1>2. rendered'.result = searchResult'
  BY <1>1
<1>3. rendered' \in Page
  BY <1>1 DEF MapShellTypeOK, Page
<1> QED  BY <1>2, <1>3 DEF SameList

LEMMA SearchStep ==
  ASSUME MapShellAssumption, ShellInv, NEW located \in BOOLEAN,
         NEW fromForm \in BOOLEAN, handleSearch(located, fromForm),
         UNCHANGED <<useCurrentLocation, locationStatus>>,
         positionsAsked' \in 0 .. MaxPositions
  PROVE  /\ MapShellTypeOK' /\ RequestsOK'
         /\ OneSearch' /\ SelectedInList' /\ DetailOfSelected'
         /\ searchResult' = NoValue
<1> DEFINE new == SearchRequest(searchCount + 1, fromForm)
           old == abort({"SEARCH", "DETAIL"}, requests)
<1>1. MapShellTypeOK /\ RequestsOK
  BY DEF ShellInv, TypeInv
<1>2. requests' = old \cup {new}
  BY DEF handleSearch, Replacing
<1>3. /\ searchStatus' = "LOADING" /\ searchRequestId' = searchCount + 1
      /\ searchResult' = NoValue /\ searchErrorCode' = NoValue
      /\ selectedStoreId' = NoValue /\ detailStatus' = "IDLE"
      /\ detailRequestId' = NoValue /\ detail' = NoValue
      /\ detailErrorCode' = NoValue /\ drawerView' = "LIST"
      /\ mobileSurface' = mobileSurface /\ detailCount' = detailCount
      /\ searchCount < MaxSearches /\ searchCount' = searchCount + 1
      /\ lastSearch' = ~located
  BY DEF handleSearch, searchStarted, clearDetail
<1>4. searchCount + 1 \in 1 .. MaxSearches
  BY <1>1, <1>3 DEF MapShellTypeOK, MapShellAssumption
<1>5. new \in Request /\ new.kind = "SEARCH"
  BY <1>4 DEF SearchRequest, Request, Kinds
<1>6. \A r \in old : r \in Request /\ ~Live(r)
                     /\ (r.kind = "DETAIL" => r.store \in Store)
  <2>1. old \subseteq Request
    BY <1>1, AbortKeeps
  <2>2. SUFFICES ASSUME NEW r \in old
                 PROVE  ~Live(r) /\ (r.kind = "DETAIL" => r.store \in Store)
    BY <2>1
  <2>3. r.kind = "DETAIL" => r.store \in Store
    BY <1>1, AbortKeeps
  <2>4. PICK q \in requests :
          /\ q \in Request
          /\ q.kind \in {"SEARCH", "DETAIL"} => r.aborted
    BY <1>1, AbortTyped DEF RequestsOK
  <2>5. r.aborted
    BY <2>4 DEF Request, Kinds
  <2> QED  BY <2>3, <2>5 DEF Live
<1> HIDE DEF new, old
<1>7. \A r \in requests' : r.kind = "DETAIL" => r.store \in Store
  BY <1>2, <1>5, <1>6
<1>71. requests' \subseteq Request
  BY <1>2, <1>5, <1>6
<1>8. OneSearch'
  BY <1>2, <1>3, <1>6 DEF OneSearch
<1>9. MapShellTypeOK'
  <2>1. /\ searchStatus' \in {"IDLE", "LOADING", "SUCCESS", "PARTIAL", "EMPTY",
                             "ERROR"}
        /\ searchRequestId' \in 1 .. MaxSearches \cup {NoValue}
        /\ searchCount' \in 0 .. MaxSearches
        /\ lastSearch' \in BOOLEAN
    BY <1>1, <1>3, <1>4 DEF MapShellAssumption
  <2> QED  BY <1>1, <1>3, <1>71, <2>1 DEF MapShellTypeOK, Request, Kinds
<1> QED
  BY <1>3, <1>7, <1>71, <1>8, <1>9
     DEF RequestsOK, SelectedInList, DetailOfSelected

LEMMA SelectStep ==
  ASSUME MapShellAssumption, ShellInv, NEW s \in Store,
         handleStoreSelection(s)
  PROVE  ShellInv'
<1> DEFINE new == DetailRequest(detailCount + 1, s, rendered.result.version)
           old == abort({"DETAIL"}, requests)
<1>1. /\ MapShellTypeOK /\ RequestsOK /\ rendered \in Page
      /\ OneSearch /\ SameList
  BY DEF ShellInv, TypeInv
<1>2. requests' = old \cup {new}
  BY DEF handleStoreSelection, Replacing
<1>3. /\ UNCHANGED <<searchStatus, searchRequestId, searchResult,
                     searchErrorCode, useCurrentLocation, locationStatus,
                     positionsAsked, lastSearch, searchCount>>
      /\ selectedStoreId' = s /\ detailStatus' = "LOADING"
      /\ detailRequestId' = detailCount + 1 /\ detail' = NoValue
      /\ detailErrorCode' = NoValue /\ drawerView' = "DETAIL"
      /\ mobileSurface' = "LIST" /\ detailCount < MaxDetails
      /\ detailCount' = detailCount + 1
      /\ rendered.result # NoValue /\ s \in rendered.result.items
  BY DEF handleStoreSelection, selectStore, search, form
<1>4. detailCount + 1 \in 1 .. MaxDetails
  BY <1>1, <1>3 DEF MapShellTypeOK, MapShellAssumption
<1>5. rendered.result.version \in Version
  BY <1>1, <1>3 DEF Page, Result
<1>6. new \in Request /\ new.kind = "DETAIL" /\ new.store = s
  BY <1>4, <1>5 DEF DetailRequest, Request, Kinds
<1>7. /\ old \subseteq Request
      /\ \A r \in old : r.kind = "DETAIL" => r.store \in Store
  BY <1>1, AbortKeeps
<1>8. \A r \in old : Live(r) => r \in requests
  BY <1>1, SearchesLeft
<1> HIDE DEF new, old
<1>9. RequestsOK'
  BY <1>2, <1>6, <1>7 DEF RequestsOK
<1>10. OneSearch'
  BY <1>1, <1>2, <1>3, <1>6, <1>8 DEF OneSearch, Live
<1>11. MapShellTypeOK'
  <2>1. \A r \in requests' : r.kind \in {"SEARCH", "DETAIL"}
    BY <1>9 DEF RequestsOK, Request, Kinds
  <2>2. /\ detailRequestId' \in 1 .. MaxDetails \cup {NoValue}
        /\ detailCount' \in 0 .. MaxDetails
    BY <1>3, <1>4 DEF MapShellAssumption
  <2> QED  BY <1>1, <1>3, <2>1, <2>2 DEF MapShellTypeOK
<1>12. rendered' \in Page /\ SameList'
  BY <1>11, Rendering DEF handleStoreSelection
<1>13. SelectedInList' /\ DetailOfSelected'
  BY <1>1, <1>3 DEF SelectedInList, DetailOfSelected, SameList
<1> QED  BY <1>9, <1>10, <1>11, <1>12, <1>13 DEF ShellInv, TypeInv

LEMMA BackStep ==
  ASSUME ShellInv, handleBack
  PROVE  ShellInv'
<1>1. /\ MapShellTypeOK /\ RequestsOK /\ OneSearch /\ SameList
      /\ SelectedInList
  BY DEF ShellInv, TypeInv
<1>2. /\ UNCHANGED <<searchStatus, searchRequestId, searchResult,
                     searchErrorCode, selectedStoreId, mobileSurface,
                     useCurrentLocation, locationStatus, positionsAsked,
                     lastSearch, searchCount, detailCount>>
      /\ detailStatus' = "IDLE" /\ detailRequestId' = NoValue
      /\ detail' = NoValue /\ detailErrorCode' = NoValue
      /\ drawerView' = "LIST"
      /\ requests' = abort({"DETAIL"}, requests)
  BY DEF handleBack, backToList, search, form
<1>3. RequestsOK'
  BY <1>1, <1>2, AbortKeeps DEF RequestsOK
<1>4. OneSearch'
  BY <1>1, <1>2, SearchesLeft DEF OneSearch
<1>5. MapShellTypeOK'
  <2>1. \A r \in requests' : r.kind \in {"SEARCH", "DETAIL"}
    BY <1>3 DEF RequestsOK, Request, Kinds
  <2> QED  BY <1>1, <1>2, <2>1, ZenonT(60) DEF MapShellTypeOK
<1>6. rendered' \in Page /\ SameList'
  BY <1>5, Rendering DEF handleBack
<1>7. SelectedInList' /\ DetailOfSelected'
  BY <1>1, <1>2 DEF SelectedInList, DetailOfSelected
<1> QED  BY <1>3, <1>4, <1>5, <1>6, <1>7 DEF ShellInv, TypeInv

\* The other actions of the visitor and the browser change neither the state
\* of the reducer nor a request.
LEMMA IdleStep ==
  ASSUME MapShellAssumption, ShellInv,
         \/ AskPosition \/ ToggleLocation \/ PositionRefused
         \/ ToggleMobileSurface \/ Render
  PROVE  ShellInv'
<1>1. /\ MapShellTypeOK /\ RequestsOK /\ OneSearch /\ SameList
      /\ SelectedInList /\ DetailOfSelected /\ rendered \in Page
  BY DEF ShellInv, TypeInv
<1>2. /\ UNCHANGED <<searchStatus, searchRequestId, searchResult,
                     searchErrorCode, selectedStoreId, detailStatus,
                     detailRequestId, detail, detailErrorCode, drawerView,
                     lastSearch, searchCount, detailCount, requests>>
      /\ useCurrentLocation' \in {useCurrentLocation, ~useCurrentLocation}
      /\ locationStatus' \in {locationStatus, "IDLE", "LOCATING", "ERROR"}
      /\ \/ UNCHANGED positionsAsked
         \/ positionsAsked < MaxPositions
            /\ positionsAsked' = positionsAsked + 1
         \/ positionsAsked > 0 /\ positionsAsked' = positionsAsked - 1
      /\ mobileSurface' \in {mobileSurface, "LIST", "MAP"}
      /\ UNCHANGED rendered \/ RenderedAtOnce
  BY DEF AskPosition, ToggleLocation, PositionRefused, ToggleMobileSurface,
         Render, page, search, selection, form
<1>3. MapShellTypeOK' /\ RequestsOK'
  <2>1. /\ locationStatus' \in {"IDLE", "LOCATING", "ERROR"}
        /\ mobileSurface' \in {"LIST", "MAP"}
        /\ useCurrentLocation' \in BOOLEAN
    BY <1>1, <1>2 DEF MapShellTypeOK
  <2>2. positionsAsked' \in 0 .. MaxPositions
    BY <1>1, <1>2 DEF MapShellTypeOK, MapShellAssumption
  <2> QED  BY <1>1, <1>2, <2>1, <2>2 DEF MapShellTypeOK, RequestsOK
<1>4. rendered' \in Page /\ SameList'
  <2>1. CASE UNCHANGED rendered
    BY <1>1, <1>2, <2>1 DEF SameList
  <2>2. CASE RenderedAtOnce
    BY <1>3, <2>2, Rendering
  <2> QED  BY <1>2, <2>1, <2>2
<1>5. OneSearch' /\ SelectedInList' /\ DetailOfSelected'
  BY <1>1, <1>2 DEF OneSearch, SelectedInList, DetailOfSelected
<1> QED  BY <1>3, <1>4, <1>5 DEF ShellInv, TypeInv

\* What an answer leaves in flight.
LEMMA Answered ==
  ASSUME ShellInv, NEW r \in requests, requests' = requests \ {r}
  PROVE  /\ RequestsOK'
         /\ \A q \in requests' : q.kind \in {"SEARCH", "DETAIL"}
         /\ Live(r) => \A q \in requests' : ~Live(q)
         /\ \A q \in requests' : q \in requests
BY DEF ShellInv, TypeInv, RequestsOK, OneSearch, Request, Kinds

LEMMA SearchAnsweredStep ==
  ASSUME ShellInv, NEW r \in requests, SearchAnswered(r)
  PROVE  ShellInv'
<1>1. /\ MapShellTypeOK /\ RequestsOK /\ OneSearch /\ SameList
      /\ SelectedInList /\ DetailOfSelected /\ rendered \in Page
  BY DEF ShellInv, TypeInv
<1>2. /\ UNCHANGED <<mobileSurface, rendered, useCurrentLocation,
                     positionsAsked, lastSearch, searchCount, detailCount>>
      /\ locationStatus' \in {locationStatus, "IDLE"}
      /\ r.kind = "SEARCH" /\ Answerable(r) /\ requests' = requests \ {r}
  BY DEF SearchAnswered, SubmissionEnds
<1>21. locationStatus' \in {"IDLE", "LOCATING", "ERROR"}
  BY <1>1, <1>2 DEF MapShellTypeOK
<1>3. /\ RequestsOK' /\ \A q \in requests' : q.kind \in {"SEARCH", "DETAIL"}
      /\ Live(r) => \A q \in requests' : ~Live(q)
      /\ \A q \in requests' : q \in requests
  BY <1>2, Answered
<1> DEFINE Kept == /\ UNCHANGED <<searchStatus, searchRequestId, searchResult,
                                  searchErrorCode, selectedStoreId,
                                  detailStatus, detailRequestId, detail,
                                  detailErrorCode, drawerView>>
           Cleared == /\ selectedStoreId' = NoValue /\ detailStatus' = "IDLE"
                      /\ detailRequestId' = NoValue /\ detail' = NoValue
                      /\ detailErrorCode' = NoValue /\ drawerView' = "LIST"
                      /\ searchRequestId' = searchRequestId
           Failed == /\ searchStatus' = "ERROR" /\ searchResult' = NoValue
                     /\ searchErrorCode' \in PublicCodes
           Found == /\ searchStatus' \in {"SUCCESS", "PARTIAL", "EMPTY"}
                    /\ searchResult' \in Result /\ searchErrorCode' = NoValue
<1>4. Kept \/ (Cleared /\ Failed) \/ (Cleared /\ Found /\ ~r.aborted)
  <2>1. CASE \E code \in Codes(r) : searchFailed(r.id, code)
    BY <2>1, CodesPublic DEF searchFailed, clearDetail, search, selection
  <2>2. CASE ~r.aborted /\ \E result \in Result : searchSucceeded(r.id, result)
    BY <2>2, StatusTyped DEF searchSucceeded, clearDetail, search, selection
  <2> QED  BY <2>1, <2>2 DEF SearchAnswered
<1>5. MapShellTypeOK'
  <2>1. CASE Kept
    BY <1>1, <1>2, <1>21, <1>3, <2>1 DEF MapShellTypeOK
  <2>2. CASE Cleared /\ Failed
    BY <1>1, <1>2, <1>21, <1>3, <2>2, ZenonT(60) DEF MapShellTypeOK
  <2>3. CASE Cleared /\ Found
    BY <1>1, <1>2, <1>21, <1>3, <2>3, ZenonT(60) DEF MapShellTypeOK
  <2> QED  BY <1>4, <2>1, <2>2, <2>3
<1>6. OneSearch' /\ SameList' /\ SelectedInList' /\ DetailOfSelected'
  <2>1. CASE Kept
    BY <1>1, <1>2, <1>3, <2>1
       DEF OneSearch, SameList, SelectedInList, DetailOfSelected
  <2>2. CASE Cleared /\ Failed
    BY <1>1, <1>2, <1>3, <2>2
       DEF OneSearch, SameList, SelectedInList, DetailOfSelected
  <2>3. CASE Cleared /\ Found /\ ~r.aborted
    <3>1. Live(r)
      BY <1>2, <2>3 DEF Live
    <3>2. rendered.result = NoValue
      BY <1>1, <1>2, <2>3, <3>1, ScreenTyped DEF Answerable, OneSearch
    <3> QED
      BY <1>2, <1>3, <2>3, <3>1, <3>2
         DEF OneSearch, SameList, SelectedInList, DetailOfSelected
  <2> QED  BY <1>4, <2>1, <2>2, <2>3
<1> QED  BY <1>1, <1>2, <1>3, <1>5, <1>6 DEF ShellInv, TypeInv

LEMMA DetailAnsweredStep ==
  ASSUME MapShellAssumption, ShellInv, NEW r \in requests, DetailAnswered(r)
  PROVE  ShellInv'
<1>1. /\ MapShellTypeOK /\ RequestsOK /\ OneSearch /\ SameList
      /\ SelectedInList /\ DetailOfSelected /\ rendered \in Page
  BY DEF ShellInv, TypeInv
<1>2. /\ UNCHANGED <<searchStatus, searchRequestId, searchResult,
                     searchErrorCode, mobileSurface, rendered,
                     useCurrentLocation, locationStatus, positionsAsked,
                     lastSearch, searchCount, detailCount>>
      /\ r.kind = "DETAIL" /\ requests' = requests \ {r}
  BY DEF DetailAnswered, search, form
<1>3. /\ RequestsOK' /\ \A q \in requests' : q.kind \in {"SEARCH", "DETAIL"}
      /\ \A q \in requests' : q \in requests
  BY <1>2, Answered
<1>4. r.store \in Store
  BY <1>1, <1>2 DEF RequestsOK
<1> DEFINE Kept == UNCHANGED <<selectedStoreId, detailStatus, detailRequestId,
                               detail, detailErrorCode, drawerView>>
           Same == UNCHANGED <<selectedStoreId, detailRequestId, drawerView>>
           Failed == /\ detailStatus' = "ERROR" /\ detail' = NoValue
                     /\ detailErrorCode' \in PublicCodes
           Shown == /\ detailStatus' = "SUCCESS" /\ detail' \in Detail
                    /\ detailErrorCode' = NoValue
                    /\ detail'.store = r.store /\ selectedStoreId = r.store
                    /\ \/ searchResult = NoValue
                       \/ detail'.version = searchResult.version
<1>5. ASSUME NEW code, detailFailed(r.store, r.id, code)
      PROVE  Kept \/ (Same /\ Failed)
  BY <1>5, CodesPublic DEF detailFailed, selection
<1>6. ASSUME NEW answer \in Detail, readStoreDetail(r, answer) = NoValue,
             detailSucceeded(r.store, r.id, answer)
      PROVE  Kept \/ (Same /\ Shown)
  <2>1. CASE answer.store = r.store
    BY <1>6, <2>1
       DEF detailSucceeded, selection, isCurrentDetail, hasCurrentSnapshot
  <2>2. CASE answer.store # r.store
    BY <1>6, <2>2
       DEF readStoreDetail, MapShellAssumption, ErrorCodes
  <2> QED  BY <2>1, <2>2
<1>7. Kept \/ (Same /\ Failed) \/ (Same /\ Shown)
  BY <1>5, <1>6 DEF DetailAnswered
<1>8. MapShellTypeOK'
  <2>1. CASE Kept
    BY <1>1, <1>2, <1>3, <2>1 DEF MapShellTypeOK
  <2>2. CASE Same /\ Failed
    BY <1>1, <1>2, <1>3, <2>2, ZenonT(60) DEF MapShellTypeOK
  <2>3. CASE Same /\ Shown
    BY <1>1, <1>2, <1>3, <2>3, ZenonT(60) DEF MapShellTypeOK
  <2> QED  BY <1>7, <2>1, <2>2, <2>3
<1>9. OneSearch' /\ SameList'
  BY <1>1, <1>2, <1>3 DEF OneSearch, SameList
<1>10. SelectedInList' /\ DetailOfSelected'
  BY <1>1, <1>2, <1>4, <1>7
     DEF SelectedInList, DetailOfSelected, MapShellAssumption
<1> QED  BY <1>1, <1>2, <1>3, <1>8, <1>9, <1>10 DEF ShellInv, TypeInv

-----------------------------------------------------------------------------
(* Theorem *)

LEMMA NextShell ==
  ASSUME MapShellAssumption, ShellInv, [Next]_vars
  PROVE  ShellInv'
<1>1. ASSUME NEW fromForm \in BOOLEAN, NEW located \in BOOLEAN,
             handleSearch(located, fromForm),
             UNCHANGED <<useCurrentLocation, locationStatus>>,
             positionsAsked' \in 0 .. MaxPositions,
             UNCHANGED rendered \/ RenderedAtOnce
      PROVE  ShellInv'
  <2>1. /\ MapShellTypeOK' /\ RequestsOK' /\ OneSearch' /\ SelectedInList'
        /\ DetailOfSelected' /\ searchResult' = NoValue
    BY <1>1, SearchStep
  <2>2. rendered' \in Page /\ SameList'
    <3>1. CASE UNCHANGED rendered
      BY <2>1, <3>1 DEF ShellInv, TypeInv, SameList
    <3>2. CASE RenderedAtOnce
      BY <2>1, <3>2, Rendering
    <3> QED  BY <1>1, <3>1, <3>2
  <2> QED  BY <2>1, <2>2 DEF ShellInv, TypeInv
<1>2. CASE Submit \/ PositionFound \/ handleRetrySearch
  <2>1. \/ positionsAsked' = positionsAsked
        \/ positionsAsked > 0 /\ positionsAsked' = positionsAsked - 1
    BY <1>2, Zenon DEF Submit, PositionFound, handleRetrySearch
  <2>2. positionsAsked' \in 0 .. MaxPositions
    BY <2>1 DEF ShellInv, TypeInv, MapShellTypeOK, MapShellAssumption
  <2> QED  BY <1>1, <1>2, <2>2 DEF Submit, PositionFound, handleRetrySearch
<1>3. CASE \/ AskPosition \/ ToggleLocation \/ PositionRefused
           \/ ToggleMobileSurface \/ Render
  BY <1>3, IdleStep
<1>4. CASE UNCHANGED vars
  BY <1>4
     DEF vars, page, search, selection, form, ShellInv, TypeInv,
         MapShellTypeOK, RequestsOK, OneSearch, SameList, SelectedInList,
         DetailOfSelected
<1> QED
  BY <1>2, <1>3, <1>4, SelectStep, BackStep, SearchAnsweredStep,
     DetailAnsweredStep
     DEF Next, Visitor, Browser, Answer

LEMMA ShellInvariant ==
  ASSUME MapShellAssumption
  PROVE  Spec => []ShellInv
<1>1. Init => ShellInv
  BY InitShell
<1>2. ShellInv /\ [Next]_vars => ShellInv'
  BY NextShell
<1> QED  BY <1>1, <1>2, PTL DEF Spec

\* Every part of the page keeps its type, whatever is answered and clicked.
THEOREM PageTyped ==
  ASSUME MapShellAssumption
  PROVE  Spec => []MapShellTypeOK
<1>1. ShellInv => MapShellTypeOK
  BY DEF ShellInv, TypeInv
<1> QED  BY <1>1, ShellInvariant, PTL

\* For any stores and versions, and visits of any length: whatever searches and
\* selections replaced one another, and in whatever order their answers, their
\* failures and the renderings came, the detail beside a result is of the
\* selected store, and of a store and the version of that result.
THEOREM DetailIsOfResult ==
  ASSUME MapShellAssumption
  PROVE  Spec => []OneSnapshotOnScreen
<1>1. ShellInv => OneSnapshotOnScreen
  BY DEF ShellInv, SelectedInList, DetailOfSelected, OneSnapshotOnScreen
<1> QED  BY <1>1, ShellInvariant, PTL
=============================================================================
