----------------------------- MODULE AppRestore -----------------------------
(***************************************************************************)
(* Copies of app.sqlite and their restoration (scripts/backup-app-         *)
(* database.ts, apps/worker/src/recovery/restore-app-database.ts).         *)
(*                                                                         *)
(* A restore reads the rows of a copy, copies it to a path of its own,     *)
(* migrates it, compares the rows and searches in the result; only then is *)
(* the file a candidate for the place of the active one.  Meanwhile users  *)
(* leave, the catalog is published, the schema moves on and a new copy is  *)
(* written over the one that is read.  A file is what a restore looks at:  *)
(* its users, its stores, its schema and whether it is damaged.            *)
(***************************************************************************)
EXTENDS Naturals

CONSTANTS User, Store,
          NoFile,      \* no file at a path
          Partial,     \* a file that is being copied
          MaxSchema,   \* bound on the migrations of the code
          TablesOf     \* the tables of a schema, and the columns of their rows

AppRestoreAssumption ==
  /\ MaxSchema \in Nat \ {0}
  /\ DOMAIN TablesOf = 1 .. MaxSchema

VARIABLES
  active,      \* the file of the server
  copy,        \* the copy that backup-app-database.ts writes
  destination, \* the file at the path of the restore
  migrations,  \* migrations of the deployed code
  withdrawn,   \* users who have left
  restore      \* the restore: its step, what it read, what it reports

vars == <<active, copy, destination, migrations, withdrawn, restore>>

\* Damages that integrity_check, foreign_key_check and the history of the
\* migrations show, and those that only the count of indexed reviews shows.
Damages == {"HEALTH", "INDEX"}

File == [users : SUBSET User, stores : SUBSET Store,
         schema : 1 .. MaxSchema, damage : Damages \cup {"NONE"}]

NoError == "NONE"
AtRest == {"IDLE", "VERIFIED", "FAILED", "CRASHED"}
Steps == AtRest \cup {"READ", "COPYING", "COPIED", "REMOVING"}

\* The tables, which the schema gives, and the rows in them; a migration that
\* only adds an index leaves the tables as they are.
logicalDatabaseSignature(f) ==
  [users |-> f.users, stores |-> f.stores, tables |-> TablesOf[f.schema]]

Idle == [step |-> "IDLE", excluded |-> {}, signature |-> NoFile,
         error |-> NoError]

\* What was read is forgotten; the error is what is reported.
Ended(step, error) == [Idle EXCEPT !.step = step, !.error = error]

Init ==
  /\ active = [users |-> {}, stores |-> Store, schema |-> 1,
               damage |-> "NONE"]
  /\ copy = NoFile
  /\ destination = NoFile
  /\ migrations = 1
  /\ withdrawn = {}
  /\ restore = Idle

-----------------------------------------------------------------------------
(* The server, the operator and the disk.                                  *)

Register(u) ==
  /\ u \notin active.users \cup withdrawn
  /\ active' = [active EXCEPT !.users = @ \cup {u}]
  /\ UNCHANGED <<copy, destination, migrations, withdrawn, restore>>

Withdraw(u) ==
  /\ u \in active.users
  /\ active' = [active EXCEPT !.users = @ \ {u}]
  /\ withdrawn' = withdrawn \cup {u}
  /\ UNCHANGED <<copy, destination, migrations, restore>>

Publish(stores) ==
  /\ active' = [active EXCEPT !.stores = stores]
  /\ UNCHANGED <<copy, destination, migrations, withdrawn, restore>>

Deploy ==
  /\ migrations < MaxSchema
  /\ migrations' = migrations + 1
  /\ active' = [active EXCEPT !.schema = migrations']
  /\ UNCHANGED <<copy, destination, withdrawn, restore>>

\* The copy is written over the one before, also while that one is read.
backupAppDatabase ==
  /\ copy' = active
  /\ UNCHANGED <<active, destination, migrations, withdrawn, restore>>

CopyDamaged(damage) ==
  /\ copy # NoFile
  /\ copy' = [copy EXCEPT !.damage = damage]
  /\ UNCHANGED <<active, destination, migrations, withdrawn, restore>>

\* The operator puts a verified file in the place of the active one.
Swap ==
  /\ restore.step = "VERIFIED"
  /\ active' = destination
  /\ destination' = NoFile
  /\ restore' = Idle
  /\ UNCHANGED <<copy, migrations, withdrawn>>

\* The operator clears the path of a restore that ended without a report.
ClearPath ==
  /\ restore.step \in {"FAILED", "CRASHED"}
  /\ destination' = NoFile
  /\ restore' = Idle
  /\ UNCHANGED <<active, copy, migrations, withdrawn>>

-----------------------------------------------------------------------------
(* The restore.  Each of its awaits ends an action.                        *)

assertDatabaseHealth(f) == f.damage # "HEALTH"

ftsAgrees(f) == f.damage # "INDEX"

\* Mutant: only the tables are compared.
SameTables(f, signature) == TablesOf[f.schema] = signature.tables

sameRows(f, signature) == logicalDatabaseSignature(f) = signature

migrateAppDatabase(f) == [f EXCEPT !.schema = migrations]

removePartialDestination(f) == NoFile

\* The first await is inside the copying: nothing is written yet.
restoreAppDatabase(excluded) ==
  /\ restore.step = "IDLE"
  /\ copy # NoFile
  /\ destination = NoFile
  /\ restore' =
       IF assertDatabaseHealth(copy)
       THEN [step |-> "READ", excluded |-> excluded, error |-> NoError,
             signature |-> logicalDatabaseSignature(copy)]
       ELSE Ended("FAILED", "HEALTH")
  /\ UNCHANGED <<active, copy, destination, migrations, withdrawn>>

BackupStarts ==
  /\ restore.step = "READ"
  /\ destination' = Partial
  /\ restore' = [restore EXCEPT !.step = "COPYING"]
  /\ UNCHANGED <<active, copy, migrations, withdrawn>>

\* A copying during which its source was written starts again: what is copied
\* is the source as it is in the end.
backupSqliteFile ==
  /\ restore.step = "COPYING"
  /\ destination' = copy
  /\ restore' = [restore EXCEPT !.step = "COPIED"]
  /\ UNCHANGED <<active, copy, migrations, withdrawn>>

\* The library removes the file of its own that it could not finish.
BackupFails ==
  /\ restore.step = "COPYING"
  /\ destination' = NoFile
  /\ restore' = Ended("FAILED", "BACKUP")
  /\ UNCHANGED <<active, copy, migrations, withdrawn>>

\* The reasons against a copied and migrated file; whether the search finds
\* its data current depends on the time the operator gives.
Faults(f, current) ==
  {e \in {"HEALTH", "CHECKSUM", "INDEX", "SEARCH"} :
     CASE e = "HEALTH" -> ~assertDatabaseHealth(f)
       [] e = "CHECKSUM" -> ~sameRows(f, restore.signature)
       [] e = "INDEX" -> ~ftsAgrees(f)
       [] e = "SEARCH" -> \/ ~current
                          \/ f.stores = {}
                          \/ f.stores \cap restore.excluded # {}}

\* Migration, checks and report follow the copying without an await.
verify(current) ==
  /\ restore.step = "COPIED"
  /\ LET migrated == migrateAppDatabase(destination)
         faults == Faults(migrated, current)
     IN  /\ destination' = migrated
         /\ \/ /\ faults = {}
               /\ restore' = [restore EXCEPT !.step = "VERIFIED"]
            \/ \E e \in faults :
                 restore' = Ended("REMOVING", e)
  /\ UNCHANGED <<active, copy, migrations, withdrawn>>

RemovePartial ==
  /\ restore.step = "REMOVING"
  /\ destination' = removePartialDestination(destination)
  /\ restore' = Ended("FAILED", restore.error)
  /\ UNCHANGED <<active, copy, migrations, withdrawn>>

Crash ==
  /\ restore.step \notin AtRest
  /\ restore' = Ended("CRASHED", NoError)
  /\ UNCHANGED <<active, copy, destination, migrations, withdrawn>>

Environment ==
  \/ \E u \in User : Register(u) \/ Withdraw(u)
  \/ \E stores \in SUBSET Store : Publish(stores)
  \/ Deploy
  \/ backupAppDatabase
  \/ \E damage \in Damages : CopyDamaged(damage)
  \/ Swap
  \/ ClearPath

Restore ==
  \/ \E excluded \in SUBSET Store : restoreAppDatabase(excluded)
  \/ BackupStarts
  \/ backupSqliteFile
  \/ BackupFails
  \/ \E current \in BOOLEAN : verify(current)
  \/ RemovePartial
  \/ Crash

Next == Environment \/ Restore

Spec == Init /\ [][Next]_vars

-----------------------------------------------------------------------------
(* The files, the steps and the signature have their types.                *)
AppRestoreTypeOK ==
  /\ active \in File
  /\ copy \in File \cup {NoFile}
  /\ destination \in File \cup {NoFile, Partial}
  /\ migrations \in 1 .. MaxSchema
  /\ withdrawn \subseteq User
  /\ restore.step \in Steps
  /\ restore.excluded \subseteq Store
  /\ restore.signature \in
       [users : SUBSET User, stores : SUBSET Store,
        tables : {TablesOf[n] : n \in 1 .. MaxSchema}] \cup {NoFile}

(* A file that is reported as a candidate is whole and undamaged, holds    *)
(* the rows that were in the copy when the restore began, whatever was     *)
(* written over the copy since, and no store that must not be seen.        *)
VerifiedIsTheCopy ==
  restore.step = "VERIFIED" =>
    /\ destination \in File
    /\ destination.damage = "NONE"
    /\ destination.users = restore.signature.users
    /\ destination.stores = restore.signature.stores
    /\ destination.stores \cap restore.excluded = {}

=============================================================================
