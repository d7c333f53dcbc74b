---------------------------- MODULE ReviewCorpus ----------------------------
(***************************************************************************)
(* What review publication promises a reader of app.sqlite: one dated      *)
(* corpus.  A publication adds a run's reviews and drops those outside the *)
(* year before its date; the date never goes back.  A store that is no     *)
(* longer public takes its reviews with it, for good.                      *)
(***************************************************************************)
EXTENDS Integers

CONSTANTS
  Store, Review, StoreOf,
  Date,     \* days a publication may be dated
  DayOf,    \* the day each review was published by its author
  Window    \* the twelve months of a corpus, in days

VARIABLES date, corpus

InWindow(v, asOf) == DayOf[v] >= asOf - Window

Init == date = 0 /\ corpus = {}

Publish ==
  \E asOf \in Date, new \in SUBSET Review :
    /\ asOf >= date
    /\ date' = asOf
    /\ corpus' = {v \in corpus \cup new : InWindow(v, asOf)}

Unpublish ==
  \E s \in Store :
    /\ corpus' = {v \in corpus : StoreOf[v] # s}
    /\ UNCHANGED date

Next == Publish \/ Unpublish
Spec == Init /\ [][Next]_<<date, corpus>>
=============================================================================
