-------------------------- MODULE CatalogIngestion --------------------------
(***************************************************************************)
(* runLocaldataIngestion: the pages of the public register are fetched one *)
(* by one, hashed into a snapshot and staged page by page, each page in a  *)
(* transaction.  A snapshot is identified by its content, and its run by   *)
(* the snapshot: ingesting the same content again is a retry of that run.  *)
(*                                                                         *)
(* Nothing excludes two operators; between two transactions of one process *)
(* the other may run, the register may change, and a process may crash.    *)
(***************************************************************************)
EXTENDS Integers, Sequences, FiniteSets, SequencesExt

CONSTANTS
  Caller,            \* who may run the command
  Row,               \* rows the register may list
  RowOrder,          \* the register's order: a sequence of all rows
  RowsAtStart,       \* rows listed at first
  RowsPerPage,
  IngestionFailures, \* of {"FETCH", "SHORT", "STORAGE", "CRASH"}
  MaxDrift,          \* changes of the register during one fetch
  MaxChanges,        \* changes of the register
  MaxCalls           \* invocations of the command

(* One row: its key as sent and as trimmed, and what normalizeSourceRow    *)
(* looks at.                                                               *)
SourceRow ==
  [managementNumber : STRING, mngNo : STRING, blank : BOOLEAN,
   road : {"none", "seoul", "elsewhere"}, lot : {"none", "seoul",
   "elsewhere"}, dates : {"ok", "bad"}, times : {"ok", "bad"},
   coordinates : {"none", "pair", "half", "bad"}]

IngestionAssumption ==
  /\ \A r \in Row : r \in SourceRow
  /\ RowOrder \in Seq(Row) /\ Range(RowOrder) = Row
  /\ Len(RowOrder) = Cardinality(Row)
  /\ RowsAtStart \subseteq Row
  /\ RowsPerPage \in Nat \ {0} /\ MaxDrift \in Nat /\ MaxChanges \in Nat
  /\ MaxCalls \in Nat
ASSUME IngestionAssumption

VARIABLES
  operators,    \* those who run it, together or one after the other
  register,     \* rows the register lists
  changes, calls,
  snapshot,     \* by content: source_snapshot with its rows, staged
                \* records, issues, checkpoints and ingestion_run
  task          \* the processes inside runLocaldataIngestion

ingestionVars == <<operators, register, changes, calls, snapshot, task>>

(* The listed rows in the register's order.                                *)
Listing(rows) ==
  LET upTo[n \in 0..Len(RowOrder)] ==
        IF n = 0 THEN <<>>
        ELSE IF RowOrder[n] \in rows THEN Append(upTo[n - 1], RowOrder[n])
        ELSE upTo[n - 1]
  IN  upTo[Len(RowOrder)]

Ids(rows) == {r.managementNumber : r \in rows}
NoCounts == [read |-> 0, inserted |-> 0, updated |-> 0, rejected |-> 0]
NoCall == [pc |-> "idle", pages |-> <<>>, total |-> 0,
           moments |-> {}, next |-> 1, counts |-> NoCounts]

Known == DOMAIN snapshot
Content(p) == FlattenSeq(task[p].pages)
Changed(c, t) == [x \in Known \cup {c} |-> IF x = c THEN t ELSE snapshot[x]]

IngestionTypeOK ==
  /\ operators \subseteq Caller /\ register \subseteq Row
  /\ changes \in 0..MaxChanges /\ calls \in 0..MaxCalls
  /\ \A c \in Known :
       LET t == snapshot[c] IN
       /\ Range(c) \subseteq Row
       /\ t.rows \subseteq Row
       /\ \A k \in DOMAIN t.staged : t.staged[k] \in Row
       /\ t.issues \subseteq Row
       /\ DOMAIN t.checkpoint \subseteq 1..Cardinality(Row) + 1
       /\ t.status \in {"none", "RUNNING", "SUCCEEDED", "FAILED_FINAL"}
       /\ t.attempt \in 0..MaxCalls
  /\ \A p \in Caller :
       task[p].pc \in {"idle", "fetch", "record", "start", "store"}

IngestionInit ==
  /\ operators \in SUBSET Caller
  /\ register = RowsAtStart /\ changes = 0 /\ calls = 0
  /\ snapshot = << >>
  /\ task = [p \in Caller |-> NoCall]

-----------------------------------------------------------------------------
(* The register *)

(* A row is added or removed, or replaced by another state of itself.      *)
Change(new) ==
  /\ changes < MaxChanges /\ new # register
  /\ \/ \E r \in Row : new \in {register \cup {r}, register \ {r}}
     \/ \E r \in register, q \in Row : new = (register \ {r}) \cup {q} /\
          q.managementNumber = r.managementNumber
  /\ Cardinality(Ids(new)) = Cardinality(new)
  /\ \A p \in Caller : Cardinality(task[p].moments) <= MaxDrift
  /\ register' = new /\ changes' = changes + 1
  /\ task' = [p \in Caller |->
                IF task[p].pc = "fetch"
                THEN [task[p] EXCEPT !.moments = @ \cup {Listing(new)}]
                ELSE task[p]]
  /\ UNCHANGED <<operators, calls, snapshot>>

-----------------------------------------------------------------------------
(* normalizeSourceRow *)

(* The reason a row is rejected for, or "ACCEPTED".                        *)
normalizeSourceRow(row) ==
  LET address == IF row.road # "none" THEN row.road ELSE row.lot IN
  CASE row.blank                            -> "INVALID_REQUIRED_FIELD"
    [] ~row.blank /\ address = "none"       -> "ADDRESS_MISSING"
    [] ~row.blank /\ address = "elsewhere"  -> "NOT_SEOUL"
    [] OTHER -> CASE row.dates = "bad"      -> "INVALID_DATE"
                  [] row.dates = "ok" /\ row.times = "bad"
                                            -> "INVALID_TIMESTAMP"
                  [] OTHER -> IF row.coordinates \in {"half", "bad"}
                              THEN "INVALID_COORDINATE" ELSE "ACCEPTED"

Accepted(row) == normalizeSourceRow(row) = "ACCEPTED"

-----------------------------------------------------------------------------
(* createLocaldataClient: the fetch *)

Invoke(p) ==
  /\ task[p].pc = "idle" /\ calls < MaxCalls
  /\ calls' = calls + 1
  /\ task' = [task EXCEPT ![p] = [NoCall EXCEPT !.pc = "fetch",
                                  !.moments = {Listing(register)}]]
  /\ UNCHANGED <<operators, register, changes, snapshot>>

PageItems(n) ==
  LET l == Listing(register) IN
  SubSeq(l, (n - 1) * RowsPerPage + 1,
         IF n * RowsPerPage < Len(l) THEN n * RowsPerPage ELSE Len(l))

(* A response that the provider may give: the page, or one row short.      *)
Responses(n) ==
  {PageItems(n)} \cup
  (IF "SHORT" \in IngestionFailures /\ PageItems(n) # <<>>
   THEN {Front(PageItems(n))} ELSE {})

PageNo(p) == Len(task[p].pages) + 1
TotalOf(p) == IF PageNo(p) = 1 THEN Cardinality(register) ELSE task[p].total
SameTotal(p) == Cardinality(register) = TotalOf(p)
IsLastPage(p) == PageNo(p) * RowsPerPage >= TotalOf(p)

(* Mutant: the rows are not counted.                                       *)
UncountedPages(pages, total) ==
  Cardinality(Ids(Range(FlattenSeq(pages)))) = Len(FlattenSeq(pages))

(* The row count is the declared one, and no key is listed twice.          *)
assertSnapshotPages(pages, total) ==
  LET rows == FlattenSeq(pages) IN
  /\ Len(rows) = total
  /\ Cardinality(Ids(Range(rows))) = Len(rows)

FetchPage(p, items) ==
  /\ task[p].pc = "fetch" /\ SameTotal(p) /\ ~IsLastPage(p)
  /\ task' = [task EXCEPT ![p].pages = Append(@, items),
                          ![p].total = TotalOf(p)]
  /\ UNCHANGED <<operators, register, changes, calls, snapshot>>

FetchLastPage(p, items) ==
  /\ task[p].pc = "fetch" /\ SameTotal(p) /\ IsLastPage(p)
  /\ assertSnapshotPages(Append(task[p].pages, items), TotalOf(p))
  /\ task' = [task EXCEPT ![p].pages = Append(@, items),
                          ![p].total = TotalOf(p), ![p].pc = "record"]
  /\ UNCHANGED <<operators, register, changes, calls, snapshot>>

(* The call throws and nothing was written.                                *)
FetchFails(p) ==
  /\ task[p].pc = "fetch"
  /\ \/ "FETCH" \in IngestionFailures
     \/ ~SameTotal(p)
     \/ /\ IsLastPage(p)
        /\ \E items \in Responses(PageNo(p)) :
             ~assertSnapshotPages(Append(task[p].pages, items), TotalOf(p))
  /\ task' = [task EXCEPT ![p] = NoCall]
  /\ UNCHANGED <<operators, register, changes, calls, snapshot>>

-----------------------------------------------------------------------------
(* runLocaldataIngestion: after the fetch *)

NewSnapshot ==
  [rows |-> {}, staged |-> << >>, issues |-> {},
   checkpoint |-> << >>, status |-> "none", attempt |-> 0,
   counts |-> NoCounts]

(* INSERT OR IGNORE: a known content keeps its row.                        *)
upsertSnapshot(p) ==
  /\ task[p].pc = "record"
  /\ snapshot' = IF Content(p) \in Known THEN snapshot
                 ELSE Changed(Content(p), NewSnapshot)
  /\ task' = [task EXCEPT ![p].pc = "start"]
  /\ UNCHANGED <<operators, register, changes, calls>>

(* Mutant: a retry keeps the status of the attempt before it. *)
startRunKeepingStatus(p) ==
  /\ task[p].pc = "start"
  /\ snapshot' = [snapshot EXCEPT
       ![Content(p)].status = IF @ = "none" THEN "SUCCEEDED" ELSE @,
       ![Content(p)].attempt = @ + 1]
  /\ task' = [task EXCEPT ![p].pc = "store"]
  /\ UNCHANGED <<operators, register, changes, calls>>

startRun(p) ==
  /\ task[p].pc = "start"
  /\ snapshot' = [snapshot EXCEPT ![Content(p)].status = "RUNNING",
                                  ![Content(p)].attempt = @ + 1,
                                  ![Content(p)].counts = NoCounts]
  /\ task' = [task EXCEPT ![p].pc = "store"]
  /\ UNCHANGED <<operators, register, changes, calls>>

(* persistSourceRow, then persistRejectedRow or persistStagingRow.         *)
persistRow(acc, row) ==
  LET a == [acc EXCEPT !.t.rows = @ \cup {row}]
      known == row.mngNo \in DOMAIN acc.t.staged IN
  IF ~Accepted(row)
  THEN [a EXCEPT !.t.issues = @ \cup {row}, !.n.rejected = @ + 1]
  ELSE IF known /\ acc.t.staged[row.mngNo] = row THEN a
  ELSE [a EXCEPT
          !.t.staged = [k \in DOMAIN @ \cup {row.mngNo} |->
                          IF k = row.mngNo THEN row ELSE acc.t.staged[k]],
          !.n.inserted = IF known THEN @ ELSE @ + 1,
          !.n.updated = IF known THEN @ + 1 ELSE @]

(* Mutant: the checkpoint of an earlier attempt stays. *)
FirstCheckpoint(t, page, counts) ==
  [n \in DOMAIN t.checkpoint \cup {page} |->
     IF n \in DOMAIN t.checkpoint THEN t.checkpoint[n] ELSE counts]

CheckpointOf(t, page, counts) ==
  [n \in DOMAIN t.checkpoint \cup {page} |->
     IF n = page THEN counts ELSE t.checkpoint[n]]

(* One page: its rows and its checkpoint in one transaction.               *)
persistPage(p) ==
  LET n == task[p].next
      done == FoldLeft(persistRow,
                [t |-> snapshot[Content(p)],
                 n |-> [NoCounts EXCEPT !.read = Len(task[p].pages[n])]],
                task[p].pages[n]) IN
  /\ task[p].pc = "store" /\ n <= Len(task[p].pages)
  /\ snapshot' = Changed(Content(p),
                   [done.t EXCEPT
                      !.checkpoint = CheckpointOf(done.t, n, done.n)])
  /\ task' = [task EXCEPT ![p].next = n + 1,
                          ![p].counts = [k \in DOMAIN @ |->
                                           @[k] + done.n[k]]]
  /\ UNCHANGED <<operators, register, changes, calls>>

finishRun(p) ==
  /\ task[p].pc = "store" /\ task[p].next > Len(task[p].pages)
  /\ snapshot' = [snapshot EXCEPT ![Content(p)].status = "SUCCEEDED",
                                  ![Content(p)].counts = task[p].counts]
  /\ task' = [task EXCEPT ![p] = NoCall]
  /\ UNCHANGED <<operators, register, changes, calls>>

(* A transaction throws: it is rolled back, and the run is closed.         *)
failRun(p) ==
  /\ "STORAGE" \in IngestionFailures /\ task[p].pc = "store"
  /\ snapshot' = [snapshot EXCEPT ![Content(p)].status = "FAILED_FINAL"]
  /\ task' = [task EXCEPT ![p] = NoCall]
  /\ UNCHANGED <<operators, register, changes, calls>>

CrashIngestion(p) ==
  /\ "CRASH" \in IngestionFailures /\ task[p].pc # "idle"
  /\ task' = [task EXCEPT ![p] = NoCall]
  /\ UNCHANGED <<operators, register, changes, calls, snapshot>>

IngestionNext ==
  \/ \E new \in SUBSET Row : Change(new)
  \/ \E p \in operators :
       \/ Invoke(p) \/ FetchFails(p) \/ CrashIngestion(p)
       \/ \E items \in Responses(PageNo(p)) :
            FetchPage(p, items) \/ FetchLastPage(p, items)
       \/ upsertSnapshot(p) \/ startRun(p) \/ persistPage(p)
       \/ finishRun(p) \/ failRun(p)

IngestionSpec == IngestionInit /\ [][IngestionNext]_ingestionVars

-----------------------------------------------------------------------------
(* Properties *)

Succeeded(c) == snapshot[c].status = "SUCCEEDED"

(* Whatever attempts crashed, failed or ran beside it: a snapshot whose    *)
(* run succeeded has every row stored, every row either staged under its   *)
(* own number or reported, and a checkpoint for every page.                *)
SucceededIsComplete ==
  \A c \in Known : Succeeded(c) =>
    /\ snapshot[c].rows = Range(c)
    /\ \A r \in Range(c) :
         IF Accepted(r) THEN r \in Range(snapshot[c].staged)
                        ELSE r \in snapshot[c].issues
    /\ \A n \in 1..Len(c) : \E k \in DOMAIN snapshot[c].checkpoint :
         (k - 1) * RowsPerPage < n /\ n <= k * RowsPerPage

(* A fetched snapshot is the register as it was at one moment of the       *)
(* fetch, although its pages were read at different moments.               *)
SnapshotIsOneMoment ==
  \A p \in Caller : task[p].pc \in {"record", "start", "store"} =>
    Content(p) \in task[p].moments

Total(counts, field) ==
  MapThenSumSet(LAMBDA n : counts[n][field], DOMAIN counts)

(* With one operator, the counts a succeeded run reports are those of its  *)
(* checkpoints, and account for every row, also after an attempt that      *)
(* stopped half way.                                                       *)
ReportAgrees ==
  (\A p, q \in operators : p = q) =>
  \A c \in Known : Succeeded(c) =>
    /\ \A f \in DOMAIN NoCounts :
         snapshot[c].counts[f] = Total(snapshot[c].checkpoint, f)
    /\ snapshot[c].counts.read = Len(c)
    /\ snapshot[c].counts.rejected =
         Cardinality({r \in Range(c) : ~Accepted(r)})
=============================================================================
