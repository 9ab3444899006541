----------------------------- MODULE LegacyImport -----------------------------
(***************************************************************************)
(* Runs of the legacy importer's command line: a dry run into a database   *)
(* of its own, or the guarded commit into the target database, while files *)
(* are edited, the API writes to the same tables, answers are lost and     *)
(* processes are killed.                                                   *)
(*                                                                         *)
(* A commit is one Serializable transaction whose first statement takes an *)
(* advisory lock; PostgreSQL gives that statement the snapshot every later *)
(* read of the transaction uses.  The table locks come after it.           *)
(***************************************************************************)
EXTENDS FiniteSets, Integers

CONSTANTS
  Run,      \* executions of the command
  MaxEdits, \* edits of files on disk
  MaxWrites \* API transactions that write to the locked tables

Input == {"source", "profile", "mapping"}  \* what a plan is computed from
File  == Input \cup {"artifacts", "backup"}

\* The profile is read twice: for its checksums, and then for its contents.
Reading  == Input \cup {"parsed"}
Approved == [f \in Reading |-> "approved"]

\* Contents of a file: the approved ones, others, and for the profile others that
\* change the rows kept as they are and the findings of the import, and leave its
\* units, products, balances and valuations as they were.
Versions(f) == {"approved", "edited"} \cup (IF f = "profile" THEN {"restaged"} ELSE {})

None == "none"

\* The bounds are numbers, and nobody's run is called none.
ASSUME LegacyImportAssumption == MaxEdits \in Nat /\ MaxWrites \in Nat /\ None \notin Run

VARIABLES
  file,     \* file[f]: "approved" when its hash is the expected one
  db,       \* the target: imported plans, rows of the API, the operator's role
  writer,   \* what the open API transaction writes: "rows", "operator"
  edits, writes, \* how many there have been
  pc, mode, \* where run r is, and which mode it was given
  left,     \* left[r]: what is still to read
  read,     \* read[r]: what they contained, in the reading under way
  plan,     \* plan[r]: the inputs of the plan r would import
  snap,     \* snap[r]: the snapshot of its transaction
  advisory, \* the run that holds the advisory locks
  locked,   \* the run that holds the table locks
  temp,     \* temp[r]: "none", "building", "managed" (the command
            \* will drop it) or "kept" (a drop failed)
  told      \* told[r]: "nothing", "success", "failure report"

outside == <<file, db, writer, edits, writes>>
locks == <<advisory, locked>>
inside == <<mode, left, read, plan, snap, temp, told>>
vars == <<outside, locks, pc, inside>>

-----------------------------------------------------------------------------
(* The target and the files, which others change.                          *)

Clean == [plans |-> {}, rows |-> FALSE, admin |-> TRUE]

\* The operator edits a file, or puts the approved one back.
Edit(f, version) ==
  /\ edits < MaxEdits
  /\ edits' = edits + 1
  /\ version # file[f]
  /\ file' = [file EXCEPT ![f] = version]
  /\ UNCHANGED <<db, writer, writes, locks, pc, inside>>

\* A bug: ACCESS SHARE locks, which conflict with no write.
TablesOpen == FALSE

\* SHARE ROW EXCLUSIVE and SHARE both conflict with the lock of a write.
TablesClosed == locked # None

\* An API transaction writes a row of a locked table, and then ends.
OpenWrite(kind) ==
  /\ writes < MaxWrites /\ writer = None
  /\ ~TablesClosed
  /\ writes' = writes + 1
  /\ writer' = kind
  /\ UNCHANGED <<file, db, edits, locks, pc, inside>>

CommitWrite ==
  /\ writer # None
  /\ db' = IF writer = "rows" THEN [db EXCEPT !.rows = TRUE]
                              ELSE [db EXCEPT !.admin = FALSE]
  /\ writer' = None
  /\ UNCHANGED <<file, edits, writes, locks, pc, inside>>

-----------------------------------------------------------------------------
(* Reading the inputs.                                                     *)

Go(r, from, to) ==
  /\ pc[r] = from
  /\ pc' = [pc EXCEPT ![r] = to]

Start(r, m) ==
  /\ Go(r, "idle", "prepare")
  /\ mode' = [mode EXCEPT ![r] = m]
  /\ left' = [left EXCEPT ![r] = Reading]
  /\ UNCHANGED <<outside, locks, read, plan, snap, temp, told>>

\* The plan, the second plan and the last hashes read the same files, one
\* after the other or concurrently.  The workbook must have the expected
\* hash; the manifest and the mapping are only fingerprinted.
Read(r, f, from) ==
  /\ pc[r] \in {"prepare", "again", "critical"}
  /\ f \in left[r]
  /\ left' = [left EXCEPT ![r] = @ \ {f}]
  /\ read' = [read EXCEPT ![r][f] = file[from]]
  /\ UNCHANGED <<outside, locks, pc, mode, plan, snap, temp, told>>

ReadSource(r) == file["source"] = "approved" /\ Read(r, "source", "source")

\* The manifest, whose fingerprint is kept, and the artifacts it has the hashes of.
ReadProfile(r) == Read(r, "profile", "profile")

\* The artifacts again, now for what they say.
ParseProfile(r) == "profile" \notin left[r] /\ Read(r, "parsed", "profile")

ReadMapping(r) == Read(r, "mapping", "mapping")

\* The hashes of workbook, manifest and mapping are those passed as approved.
Hashed(inputs) == \A f \in Input : inputs[f] = "approved"

\* A bug: the plan key is not among what is compared.
HashesAlone(inputs) == Hashed(inputs)

\* So is the plan key, which they determine with the units, products, balances
\* and valuations of the plan, and with nothing else of it.
IsApproved(inputs) == Hashed(inputs) /\ inputs["parsed"] # "edited"

\* A dry run imports any plan; a commit only the approved one.
Prepared(r) ==
  /\ left[r] = {}
  /\ plan' = [plan EXCEPT ![r] = read[r]]
  /\ \/ mode[r] = "DRY_RUN" /\ Go(r, "prepare", "create")
     \/ mode[r] = "COMMIT" /\ IsApproved(read[r]) /\ Go(r, "prepare", "artifacts")
  /\ read' = [read EXCEPT ![r] = Approved]
  /\ UNCHANGED <<outside, locks, mode, left, snap, temp, told>>

-----------------------------------------------------------------------------
(* The dry run.                                                            *)

CreateTemp(r) ==
  /\ Go(r, "create", "build")
  /\ temp' = [temp EXCEPT ![r] = "building"]
  /\ UNCHANGED <<outside, locks, mode, left, read, plan, snap, told>>

\* Marked, migrated, bootstrapped and counted.
TempReady(r) ==
  /\ Go(r, "build", "rehearse")
  /\ temp' = [temp EXCEPT ![r] = "managed"]
  /\ UNCHANGED <<outside, locks, mode, left, read, plan, snap, told>>

\* What the catch of the creation leaves: the drop may fail, unnoticed.
AfterFailedBuild == {"none", "kept"}

TempFails(r) ==
  /\ Go(r, "build", "dispose")
  /\ \E left_ \in AfterFailedBuild: temp' = [temp EXCEPT ![r] = left_]
  /\ UNCHANGED <<outside, locks, mode, left, read, plan, snap, told>>

\* The plan is persisted in the temporary database in one transaction, the
\* reports are written, and the workbook is hashed once more.
Rehearse(r) == Go(r, "rehearse", "reports") /\ UNCHANGED <<outside, locks, inside>>

DryReports(r) ==
  /\ Go(r, "reports", "dispose")
  /\ file["source"] = "approved"
  /\ told' = [told EXCEPT ![r] = "success"]
  /\ UNCHANGED <<outside, locks, mode, left, read, plan, snap, temp>>

-----------------------------------------------------------------------------
(* The commit: evidence before the transaction.                            *)

NextCheck == [artifacts |-> "target", backup |-> "confirm",
              artifacts2 |-> "backup2", backup2 |-> "begin",
              artifacts3 |-> "backup3", backup3 |-> "insert"]

Check(r, f) ==
  /\ file[f] = "approved"
  /\ Go(r, pc[r], NextCheck[pc[r]])
  /\ UNCHANGED <<outside, locks, inside>>

\* The five approved reports still have the approved hashes.
CheckArtifacts(r) ==
  pc[r] \in {"artifacts", "artifacts2", "artifacts3"} /\ Check(r, "artifacts")

\* So have the backup and its restore evidence.
CheckBackup(r) == pc[r] \in {"backup", "backup2", "backup3"} /\ Check(r, "backup")

\* The counts of the target are those of the restore evidence; they are read
\* once, and compared at both full checks of the backup.
ReadTarget(r) ==
  /\ Go(r, "target", "backup")
  /\ db = Clean
  /\ UNCHANGED <<outside, locks, inside>>

\* The operator types the phrase; the command then prepares a second plan.
Confirm(r) ==
  /\ Go(r, "confirm", "again")
  /\ left' = [left EXCEPT ![r] = Reading]
  /\ UNCHANGED <<outside, locks, mode, read, plan, snap, temp, told>>

\* The second plan has the approved key, which is that of the first.
SamePlan(r) ==
  /\ Go(r, "again", "artifacts2")
  /\ left[r] = {}
  /\ IsApproved(plan[r]) /\ IsApproved(read[r])
  /\ read' = [read EXCEPT ![r] = Approved]
  /\ UNCHANGED <<outside, locks, mode, left, plan, snap, temp, told>>

-----------------------------------------------------------------------------
(* The commit: the transaction.                                            *)

\* The snapshot, and then the function call that tries the advisory lock.
Begin(r) ==
  /\ Go(r, "begin", "try")
  /\ snap' = [snap EXCEPT ![r] = db]
  /\ UNCHANGED <<outside, locks, mode, left, read, plan, temp, told>>

TryLock(r) ==
  /\ Go(r, "try", "tables")
  /\ advisory = None
  /\ advisory' = r
  /\ UNCHANGED <<outside, locked, inside>>

\* LOCK TABLE waits for the writers.
LockTables(r) ==
  /\ Go(r, "tables", "guards")
  /\ writer = None
  /\ locked' = r
  /\ UNCHANGED <<outside, advisory, inside>>

EmptyTarget(shown) == shown.plans = {} /\ ~shown.rows

ActiveOperator(shown) == shown.admin

\* The target and the operator, as the snapshot shows them.  What the profile says
\* is of no consequence in the reading that follows.
CheckTarget(r) ==
  /\ Go(r, "guards", "critical")
  /\ EmptyTarget(snap[r]) /\ ActiveOperator(snap[r])
  /\ left' = [left EXCEPT ![r] = Input]
  /\ UNCHANGED <<outside, locks, mode, read, plan, snap, temp, told>>

CheckCritical(r) ==
  /\ Go(r, "critical", "artifacts3")
  /\ left[r] = {}
  /\ Hashed(read[r])
  /\ read' = [read EXCEPT ![r] = Approved]
  /\ UNCHANGED <<outside, locks, mode, left, plan, snap, temp, told>>

\* The ids of an import are computed from its plan: another import that
\* committed since the snapshot is a duplicate key.
Duplicate(r) == db.plans # snap[r].plans

Insert(r) ==
  /\ Go(r, "insert", "final")
  /\ ~Duplicate(r)
  /\ UNCHANGED <<outside, locks, inside>>

\* The counts of what was written and the last hash of the workbook.
FinalCheck(r) ==
  /\ Go(r, "final", "commit")
  /\ file["source"] = "approved"
  /\ UNCHANGED <<outside, locks, inside>>

\* The transaction ends.
Unlock(r) ==
  /\ advisory' = IF advisory = r THEN None ELSE advisory
  /\ locked' = IF locked = r THEN None ELSE locked

Commit(r) ==
  /\ Go(r, "commit", "answer")
  /\ db' = [db EXCEPT !.plans = @ \cup {[by |-> r, inputs |-> plan[r]]}]
  /\ Unlock(r)
  /\ UNCHANGED <<file, writer, edits, writes, inside>>

\* The answer arrives and persistentCommitted is set.
Answer(r) == Go(r, "answer", "told") /\ UNCHANGED <<outside, locks, inside>>

CommitReports(r) ==
  /\ Go(r, "told", "dispose")
  /\ told' = [told EXCEPT ![r] = "success"]
  /\ UNCHANGED <<outside, locks, mode, left, read, plan, snap, temp>>

-----------------------------------------------------------------------------
(* Failures.                                                               *)

\* What the process remembers is gone.
Forget(r) ==
  /\ left' = [left EXCEPT ![r] = {}]
  /\ read' = [read EXCEPT ![r] = Approved]
  /\ plan' = [plan EXCEPT ![r] = Approved]
  /\ snap' = [snap EXCEPT ![r] = Clean]

\* A bug: persistentCommitted is set after the reports are written.
UnansweredTillReported(r) == pc[r] # "dispose"

\* persistentCommitted is false, so the catch writes a failure report.
Unanswered(r) == pc[r] # "told"

\* A check, a query, a timeout or a write to disk fails: the transaction is
\* rolled back if it has not committed, and the catch reports if it can.
Fail(r) ==
  /\ pc[r] \notin {"idle", "build", "dispose", "dead", "ended"}
  /\ pc' = [pc EXCEPT ![r] = "dispose"]
  /\ Unlock(r)
  /\ Forget(r)
  /\ \/ UNCHANGED told
     \/ /\ mode[r] = "COMMIT" /\ Unanswered(r)
        /\ told' = [told EXCEPT ![r] = "failure report"]
  /\ UNCHANGED <<outside, mode, temp>>

\* The finally block drops the temporary database, if the server lets it.
Dispose(r) ==
  /\ Go(r, "dispose", "ended")
  /\ \E after \in {"none", "kept"}:
       temp' = [temp EXCEPT ![r] = IF @ = "managed" THEN after ELSE @]
  /\ Forget(r)
  /\ UNCHANGED <<outside, locks, mode, told>>

\* The process is killed; the server ends its transaction when it notices.
Kill(r) ==
  /\ pc[r] \notin {"idle", "dead", "ended"}
  /\ pc' = [pc EXCEPT ![r] = "dead"]
  /\ Forget(r)
  /\ UNCHANGED <<outside, locks, mode, temp, told>>

Notice(r) ==
  /\ pc[r] = "dead"
  /\ advisory = r \/ locked = r
  /\ Unlock(r)
  /\ UNCHANGED <<outside, pc, inside>>

-----------------------------------------------------------------------------
Init ==
  /\ file = [f \in File |-> "approved"]
  /\ db = Clean
  /\ writer = None
  /\ edits = 0 /\ writes = 0
  /\ pc = [r \in Run |-> "idle"]
  /\ mode = [r \in Run |-> None]
  /\ left = [r \in Run |-> {}]
  /\ read = [r \in Run |-> Approved]
  /\ plan = [r \in Run |-> Approved]
  /\ snap = [r \in Run |-> Clean]
  /\ advisory = None /\ locked = None
  /\ temp = [r \in Run |-> "none"]
  /\ told = [r \in Run |-> "nothing"]

\* What run r does once it was started.
Step(r) ==
  \/ ReadSource(r) \/ ReadProfile(r) \/ ParseProfile(r) \/ ReadMapping(r)
  \/ CheckArtifacts(r) \/ CheckBackup(r)
  \/ Prepared(r) \/ CreateTemp(r) \/ TempReady(r) \/ TempFails(r)
  \/ Rehearse(r) \/ DryReports(r)
  \/ ReadTarget(r) \/ SamePlan(r)
  \/ Begin(r) \/ TryLock(r) \/ LockTables(r) \/ CheckTarget(r)
  \/ CheckCritical(r) \/ Insert(r) \/ FinalCheck(r) \/ Commit(r)
  \/ Answer(r) \/ CommitReports(r)
  \/ Fail(r) \/ Dispose(r) \/ Notice(r)

Next ==
  \/ \E f \in File: \E version \in Versions(f): Edit(f, version)
  \/ \E kind \in {"rows", "operator"}: OpenWrite(kind)
  \/ CommitWrite
  \/ \E r \in Run:
       \/ \E m \in {"COMMIT", "DRY_RUN"}: Start(r, m)
       \/ Confirm(r) \/ Kill(r) \/ Step(r)

\* A started run goes on, fails or times out; only the confirmation waits for
\* a person.  The server notices a dead connection.
Spec == Init /\ [][Next]_vars

-----------------------------------------------------------------------------
(* Properties.                                                             *)

\* One plan is imported at most, however many runs there are and however
\* their transactions overlap or are repeated after a lost answer.
ImportedOnce == Cardinality(db.plans) <= 1

\* What is in the target was planned under the approved hashes, with the units,
\* products, balances and valuations that were approved, although the plan was
\* computed from files read long before the last hashes were compared, and an
\* edit may have come and gone between.  Of the rows kept as they are and of the
\* findings it says nothing: the profile that delimits them is parsed from files
\* read once more after their hashes were compared (profile-evidence-loader.ts),
\* and neither the plan key nor the later hashes tell them from the approved ones.
ApprovedPlanOnly ==
  \A p \in db.plans:
    /\ \A f \in Input: p.inputs[f] = "approved"
    /\ p.inputs["parsed"] \in {"approved", "restaged"}

\* The target holds one plan at most, and no other hash, unit, product, balance
\* or valuation than the approved plan has.
ApprovedPlanOnce == ImportedOnce /\ ApprovedPlanOnly

\* From the table locks to the end of the import no API transaction changes
\* the target: one that wrote before them ended before them.
LocksFreezeTarget ==
  [][locked # None => db'.rows = db.rows /\ db'.admin = db.admin]_vars

\* Success is reported only of an import that committed; and a run that got
\* its answer never reports "aborted before commit", although it may fail to
\* write its own reports.
ReportsTrue ==
  [][\A r \in Run: mode[r] = "COMMIT" /\ told'[r] # told[r] =>
       /\ told'[r] = "success" => \E p \in db.plans: p.by = r
       /\ told'[r] = "failure report" => pc[r] # "told"]_vars

\* The documented rule: under the transaction, with the tables locked, the
\* target is again verified to be empty and the operator to be an
\* administrator, and any difference aborts.
VerifiedUnderLocks ==
  \A r \in Run: pc[r] = "commit" => ~db.rows /\ db.admin
=============================================================================
