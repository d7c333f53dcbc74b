--------------------------- MODULE ReviewPublish ---------------------------
(***************************************************************************)
(* Publication of a closed run's reviews from raw.sqlite to app.sqlite,    *)
(* composed with the retention of raw.sqlite (ReviewPurge), which may      *)
(* delete a run's rows before it is published, and with the catalog, which *)
(* may hide a store at any time.                                           *)
(*                                                                         *)
(* publishReviewRun reads the two databases statement by statement and     *)
(* writes app.sqlite in one transaction.  A review's text is its identity; *)
(* a checksum of documents is the set of documents.                        *)
(***************************************************************************)
EXTENDS ReviewPurge

CONSTANTS
  Publisher,  \* processes that call publishReviewRun
  DayOf,      \* the day each review was published by its author
  Window      \* the twelve months before an as-of date, in days

ASSUME PublishAssumption ==
  /\ DayOf \in [Review -> 1..LastDay]
  /\ Window \in Nat

VARIABLES
  publicStores,  \* stores published and active in app.sqlite
  version,       \* review_publish_version, by source run
  document,      \* review_document: the run a document came from, or NoRun
  fts,           \* review_fts: the reviews indexed
  index,         \* fts_index_state's active row: its version and corpus
  pub            \* the publishers

appVars == <<publicStores, version, document, fts, index, pub>>
vars == <<rawVars, appVars>>

VersionRow == [status : {"none", "ACTIVE", "SUPERSEDED"}, asOf : 0..LastDay,
               corpus : SUBSET Review]
NoVersion  == [status |-> "none", asOf |-> 0, corpus |-> {}]
IndexRow   == [run : Run \cup {NoRun}, corpus : SUBSET Review]

(* What a publisher holds: the run row and then the documents it decrypted. *)
Publication == [pc : {"idle", "run", "documents"}, run : Run \cup {NoRun},
                asOf : 0..LastDay, count : Nat, new : SUBSET Review]
Resting == [pc |-> "idle", run |-> NoRun, asOf |-> 0, count |-> 0,
            new |-> {}]

PublishTypeOK ==
  /\ TypeOK
  /\ publicStores \subseteq Store
  /\ version \in [Run -> VersionRow]
  /\ document \in [Review -> Run \cup {NoRun}]
  /\ fts \subseteq Review
  /\ index \in IndexRow
  /\ pub \in [Publisher -> Publication]

Init ==
  /\ RawInit
  /\ publicStores = Store
  /\ version = [r \in Run |-> NoVersion]
  /\ document = [v \in Review |-> NoRun]
  /\ fts = {}
  /\ index = [run |-> NoRun, corpus |-> {}]
  /\ pub = [p \in Publisher |-> Resting]

Documents == {v \in Review : document[v] # NoRun}
Active    == {r \in Run : version[r].status = "ACTIVE"}
InWindow(v, asOf) == DayOf[v] >= asOf - Window

-----------------------------------------------------------------------------
(* The catalog hides a store or shows it again.  The trigger of app.sqlite *)
(* deletes a hidden store's documents, and theirs delete the index rows.   *)

HideStoreKeeps(s) ==
  /\ s \in publicStores
  /\ publicStores' = publicStores \ {s}
  /\ UNCHANGED <<rawVars, version, document, fts, index, pub>>

HideStore(s) ==
  /\ s \in publicStores
  /\ publicStores' = publicStores \ {s}
  /\ document' = [v \in Review |-> IF StoreOf[v] = s THEN NoRun
                                                     ELSE document[v]]
  /\ fts' = {v \in fts : StoreOf[v] # s}
  /\ UNCHANGED <<rawVars, version, index, pub>>

ShowStore(s) ==
  /\ s \notin publicStores
  /\ publicStores' = publicStores \cup {s}
  /\ UNCHANGED <<rawVars, version, document, fts, index, pub>>

-----------------------------------------------------------------------------
(* The collector's as-of date bounds what a run may read. *)
Readable(r, v) == run[r].asOf - Window <= DayOf[v] /\ DayOf[v] <= run[r].asOf

CollectorWrites ==
  \/ NextDay
  \/ \E d \in Discovery, s \in Store : Discover(d, s)
  \/ \E r \in Run : \/ StartRun(r) \/ FinishRun(r)
                    \/ \E v \in Review : Readable(r, v) /\ Collect(r, v)

RawStep == (CollectorWrites \/ Purging) /\ UNCHANGED appVars

-----------------------------------------------------------------------------
(* publishReviewRun *)

(* A run that was published is answered from its version, if that is still *)
(* active and the documents, the index and the checksums agree with it.    *)
Replays(r) ==
  /\ version[r].status = "ACTIVE"
  /\ \A v \in Documents : StoreOf[v] \in publicStores
  /\ fts = Documents
  /\ Documents = version[r].corpus
  /\ index = [run |-> r, corpus |-> version[r].corpus]

(* The run row: closed and not expired.  Nothing was published from it. *)
LoadSourceRun(p, r) ==
  /\ pub[p].pc = "idle"
  /\ version[r].status = "none"
  /\ run[r].status \in {"SUCCEEDED", "PARTIAL"} /\ run[r].until > now
  /\ pub' = [pub EXCEPT ![p] =
               [pc |-> "run", run |-> r, asOf |-> run[r].asOf,
                count |-> Cardinality(run[r].counted), new |-> {}]]
  /\ UNCHANGED <<rawVars, publicStores, version, document, fts, index>>

(* Its rows, joined with their observations: not fewer than the run has    *)
(* counted, none expired, all of public stores, no document of another     *)
(* store under their ids.                                                  *)
RowsOf(r) == {v \in Review : /\ raw[v].run = r
                             /\ observation[PlaceOfRaw(v)] # NoRow}
EnoughRows(p) == Cardinality(RowsOf(pub[p].run)) >= pub[p].count

LoadRows(p) ==
  LET rows == RowsOf(pub[p].run) IN
  /\ pub[p].pc = "run"
  /\ EnoughRows(p)
  /\ \A v \in rows : /\ raw[v].until > now
                     /\ observation[PlaceOfRaw(v)] > now
                     /\ DayOf[v] <= pub[p].asOf
                     /\ StoreOf[v] \in publicStores
  /\ pub' = [pub EXCEPT ![p].pc = "documents", ![p].new = rows]
  /\ UNCHANGED <<rawVars, publicStores, version, document, fts, index>>

NotStaleEver(asOf) == TRUE
NotStale(asOf) == \A q \in Active : version[q].asOf <= asOf

KeptAfterCutoff(v, asOf) == DayOf[v] > asOf - Window
Kept(v, asOf) == InWindow(v, asOf)

(* The version is inserted as BUILDING and activated with its counts and   *)
(* checksum.                                                               *)
ActiveVersion(asOf, left) == [status |-> "ACTIVE", asOf |-> asOf,
                              corpus |-> left]

(* The transaction: a newer corpus is not replaced by an older one, the    *)
(* source run is new (unique index), each row's store is public (trigger), *)
(* what fell out of the window goes, and the new version is the one active *)
(* version, described by its documents and its index.                      *)
PersistPublish(p) ==
  LET r == pub[p].run
      asOf == pub[p].asOf
      left == {v \in Documents \cup pub[p].new : Kept(v, asOf)}
  IN
  /\ pub[p].pc = "documents"
  /\ NotStale(asOf)
  /\ version[r].status = "none"
  /\ \A v \in pub[p].new \cup left : StoreOf[v] \in publicStores
  /\ fts = Documents
  /\ document' = [v \in Review |->
                    CASE v \in left \cap pub[p].new -> r
                      [] v \in left \ pub[p].new -> document[v]
                      [] OTHER -> NoRun]
  /\ fts' = left
  /\ version' = [q \in Run |->
       CASE q = r -> ActiveVersion(asOf, left)
         [] q \in Active -> [version[q] EXCEPT !.status = "SUPERSEDED"]
         [] OTHER -> version[q]]
  /\ index' = [run |-> r, corpus |-> left]
  /\ pub' = [pub EXCEPT ![p] = Resting]
  /\ UNCHANGED <<rawVars, publicStores>>

(* A check fails, the transaction rolls back, or the process ends. *)
PublishStops(p) ==
  /\ pub[p].pc # "idle"
  /\ pub' = [pub EXCEPT ![p] = Resting]
  /\ UNCHANGED <<rawVars, publicStores, version, document, fts, index>>

Next ==
  \/ RawStep
  \/ \E s \in Store : HideStore(s) \/ ShowStore(s)
  \/ \E p \in Publisher :
       \/ \E r \in Run : LoadSourceRun(p, r)
       \/ LoadRows(p) \/ PersistPublish(p) \/ PublishStops(p)

Spec == Init /\ [][Next]_vars

-----------------------------------------------------------------------------
(* SqliteReviewRepository: what a search may be answered from. *)

ActiveIndexState ==
  {r \in Active : index = [run |-> r, corpus |-> version[r].corpus]}

CountsAgreeNotAsked(r) == TRUE
CountsAgree(r) == /\ Cardinality(Documents) = Cardinality(version[r].corpus)
                  /\ Cardinality(fts) = Cardinality(version[r].corpus)

HasConsistentActiveIndex ==
  \E r \in ActiveIndexState :
    /\ CountsAgree(r)
    /\ fts \subseteq Documents
    /\ \A v \in Documents : StoreOf[v] \in publicStores

(* listStoreReviews asks for an active version and a public store only. *)
StoreReviews(s) == {v \in Documents : /\ Active # {}
                                      /\ StoreOf[v] = s /\ s \in publicStores}

-----------------------------------------------------------------------------
(* Properties *)

(* No document of a store that is not public is ever in the corpus or its  *)
(* index, although publishers check stores before they write and the       *)
(* catalog hides stores at any time.                                       *)
OnlyPublicDocuments ==
  /\ \A v \in Documents : StoreOf[v] \in publicStores
  /\ fts = Documents

(* The search's own check compares counts only.  When it passes, a replay  *)
(* with its checksums would pass too: what is searched is exactly the      *)
(* corpus the active version described when it was published.              *)
SearchedIsPublished ==
  HasConsistentActiveIndex => \E r \in Active : Replays(r)

(* A publication drops a review only when it falls before the cutoff, not  *)
(* because the run, incremental or partial, does not mention it.           *)
NoPublishedReviewLost ==
  [][\A v \in Documents :
       v \notin Documents' =>
         \/ StoreOf[v] \notin publicStores'
         \/ \E r \in Run : /\ version'[r].status = "ACTIVE"
                           /\ DayOf[v] < version'[r].asOf - Window]_vars

ActiveDate == IF Active = {} THEN 0
              ELSE version[CHOOSE r \in Active : TRUE].asOf
Corpus == INSTANCE ReviewCorpus
            WITH Date <- 0..LastDay, date <- ActiveDate, corpus <- Documents

(* The documents are one dated corpus that never goes back in time. *)
ImplementsCorpus == Corpus!Spec
=============================================================================
