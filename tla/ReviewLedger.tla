---------------------------- MODULE ReviewLedger ----------------------------
(***************************************************************************)
(* What review collection promises about the reviews of a store, whatever  *)
(* runs, processes and crashes lie behind it: a review is kept at most     *)
(* once and by one run for good; only a kept review is recorded as known;  *)
(* a known review stays known; only a known review becomes the anchor.     *)
(***************************************************************************)
CONSTANTS Store, Review, Run, NoRun, NoReview

VARIABLES
  kept,      \* the run that keeps each review of a store, or NoRun
  known,     \* the reviews of a store that will not be kept again
  anchor     \* the newest known review when the store was last completed

ledgerVars == <<kept, known, anchor>>

Init ==
  /\ kept = [s \in Store |-> [d \in Review |-> NoRun]]
  /\ known = [s \in Store |-> {}]
  /\ anchor = [s \in Store |-> NoReview]

Keep(s, d, r) ==
  /\ kept[s][d] = NoRun
  /\ kept' = [kept EXCEPT ![s][d] = r]
  /\ UNCHANGED <<known, anchor>>

Record(s, d) ==
  /\ kept[s][d] # NoRun
  /\ known' = [known EXCEPT ![s] = @ \cup {d}]
  /\ UNCHANGED <<kept, anchor>>

Complete(s, d) ==
  /\ d \in known[s]
  /\ anchor' = [anchor EXCEPT ![s] = d]
  /\ UNCHANGED <<kept, known>>

Next == \E s \in Store, d \in Review :
          \/ \E r \in Run : Keep(s, d, r)
          \/ Record(s, d)
          \/ Complete(s, d)

Spec == Init /\ [][Next]_ledgerVars
=============================================================================
