----------------------------- MODULE RecordsProofs -----------------------------
(***************************************************************************)
(* The importer: whatever number of runs race, fail and are repeated,      *)
(* beside whatever number of writes of the API and edits of files, the     *)
(* target receives the approved plan once, the table locks keep it still,  *)
(* and reports tell the truth.                                             *)
(*                                                                         *)
(* The argument: between its table locks and its end a run also holds the  *)
(* advisory locks, so that no other run commits; what was imported before  *)
(* is in its snapshot, which it found empty, or makes its rows duplicates. *)
(*                                                                         *)
(* The sheets of products: whatever number of people edit them, lose and   *)
(* get permissions, while documents give the products a history, nobody's  *)
(* change is overwritten, and code and unit stay as the documents know     *)
(* them.                                                                   *)
(*                                                                         *)
(* The argument: a form follows a row by its stamp, which a save raises,   *)
(* so that equal stamps mean equal rows; from the lock of the row to the   *)
(* end of the transaction nobody else writes the row and no document comes *)
(* to be about it, and from the lock of the code nobody else gives it.     *)
(*                                                                         *)
(* The web application: a form sends its intent under one key, so that the *)
(* requests of an intent have one effect; a list within the limit of the   *)
(* export is shorter than its probe, and so was read whole; a screen shows *)
(* the answer to the question it asks; the token of a tab binds a request  *)
(* to a session, whoever owns the cookie; and whatever permissions change  *)
(* while a screen is open, the check inside the transaction decides.       *)
(*                                                                         *)
(* The plan of the importer: rows are merged group by group, and what was  *)
(* observed last of a key comes last, so that it is what is kept. The      *)
(* dialogue: a cut shows two candidates whenever there are two, so that    *)
(* one candidate left is the only one the words allow.                     *)
(***************************************************************************)
EXTENDS LegacyImport, LegacyPlan, ProductCatalog, WebForms, ReportExport, ReadViews,
        VoiceDialog, WebSession, RouteAccess, FiniteSetTheorems, FunctionTheorems,
        SequenceTheorems, WellFoundedInduction, TLAPS

Contents == {"approved", "edited", "restaged"}
Inputs == [Reading -> Contents]
Target == [plans : SUBSET [by : Run, inputs : Inputs], rows : BOOLEAN, admin : BOOLEAN]

\* Where a run is: reading, in the dry run, in the commit, or done.
Checking == {"artifacts", "target", "backup", "confirm", "again", "artifacts2",
             "backup2", "begin", "try", "tables"}
Rereading == {"critical", "artifacts3", "backup3", "insert"}
Writing  == {"final", "commit"}
Frozen   == {"guards"} \cup Rereading \cup Writing
Imported == {"answer", "told"}
Committing == Checking \cup Frozen \cup Imported
Rehearsing == {"create", "build", "rehearse", "reports"}
Phase == Committing \cup Rehearsing \cup {"idle", "prepare", "dispose", "dead", "ended"}

TypeOK ==
  /\ file \in [File -> Contents]
  /\ db \in Target
  /\ writer \in {None, "rows", "operator"}
  /\ edits \in Nat /\ writes \in Nat
  /\ pc \in [Run -> Phase]
  /\ mode \in [Run -> {None, "COMMIT", "DRY_RUN"}]
  /\ left \in [Run -> SUBSET Reading]
  /\ read \in [Run -> Inputs]
  /\ plan \in [Run -> Inputs]
  /\ snap \in [Run -> Target]
  /\ advisory \in Run \cup {None}
  /\ locked \in Run \cup {None}
  /\ temp \in [Run -> {"none", "building", "managed", "kept"}]
  /\ told \in [Run -> {"nothing", "success", "failure report"}]

\* Only a commit is past its preparation, and with a plan of the approved key.
ModesKept ==
  \A r \in Run :
    /\ pc[r] \in Committing => mode[r] = "COMMIT" /\ IsApproved(plan[r])
    /\ pc[r] \in Rehearsing => mode[r] = "DRY_RUN"

\* The locks are held by the run whose transaction took them, or by one that
\* was killed; the table locks only with the advisory locks, and only while
\* no API transaction writes.
LocksHeld ==
  /\ \A r \in Run : pc[r] \in {"tables"} \cup Frozen => advisory = r
  /\ \A r \in Run : pc[r] \in Frozen => locked = r
  /\ locked # None => advisory = locked /\ writer = None

\* A transaction that has looked saw no import, and one that has written its
\* rows is the first to do so.
NothingBefore ==
  \A r \in Run :
    /\ pc[r] \in Rereading => snap[r].plans = {}
    /\ pc[r] \in Writing => db.plans = {}

CommittedIsThere ==
  \A r \in Run : pc[r] \in Imported => \E p \in db.plans : p.by = r

IInv ==
  /\ TypeOK /\ ModesKept /\ LocksHeld /\ NothingBefore /\ CommittedIsThere
  /\ ApprovedPlanOnly
  /\ \A p, q \in db.plans : p = q

-----------------------------------------------------------------------------
(* Types.                                                                  *)

LEMMA ConstantsTyped ==
  /\ Approved \in Inputs /\ Clean \in Target
  /\ None \notin Run /\ Input \subseteq Reading /\ "approved" \in Contents
  BY LegacyImportAssumption DEF Approved, Inputs, Contents, Reading, Clean, Target

LEMMA InitIInv == Init => IInv
  BY ConstantsTyped, SMTT(60)
  DEF Init, IInv, TypeOK, ModesKept, LocksHeld, NothingBefore, CommittedIsThere,
      ApprovedPlanOnly, Committing, Checking, Rereading, Writing, Frozen, Imported,
      Rehearsing, Phase, Clean, File

\* What moving, unlocking and forgetting do to the types.
LEMMA GoTyped ==
  ASSUME NEW r \in Run, NEW from, NEW to \in Phase,
         pc \in [Run -> Phase], Go(r, from, to)
  PROVE  /\ pc[r] = from
         /\ pc' \in [Run -> Phase]
         /\ pc'[r] = to
         /\ \A q \in Run \ {r} : pc'[q] = pc[q]
  BY DEF Go

LEMMA UnlockTyped ==
  ASSUME NEW r \in Run, TypeOK, Unlock(r)
  PROVE  advisory' \in Run \cup {None} /\ locked' \in Run \cup {None}
  BY DEF Unlock, TypeOK

LEMMA ForgetTyped ==
  ASSUME NEW r \in Run, TypeOK, Forget(r)
  PROVE  /\ left' \in [Run -> SUBSET Reading]
         /\ read' \in [Run -> Inputs]
         /\ plan' \in [Run -> Inputs]
         /\ snap' \in [Run -> Target]
         /\ \A q \in Run \ {r} : plan'[q] = plan[q] /\ snap'[q] = snap[q]
         /\ plan'[r] = Approved /\ snap'[r] = Clean
  BY ConstantsTyped DEF Forget, TypeOK

LEMMA StepTyped == TypeOK /\ [Next]_vars => TypeOK'
  <1>. USE ConstantsTyped, LegacyImportAssumption
  <1>. SUFFICES ASSUME TypeOK, [Next]_vars PROVE TypeOK'
    OBVIOUS
  <1>1. CASE UNCHANGED vars
    BY <1>1 DEF TypeOK, vars, outside, locks, inside
  <1>2. ASSUME NEW f \in File, NEW version \in Versions(f), Edit(f, version) PROVE TypeOK'
    <2>1. edits \in Nat /\ edits' = edits + 1
      BY <1>2 DEF TypeOK, Edit
    <2>2. edits' \in Nat
      BY <2>1
    <2>3. version \in Contents
      BY DEF Versions, Contents
    <2>. QED BY <1>2, <2>2, <2>3 DEF TypeOK, Edit, locks, inside
  <1>3. ASSUME NEW kind \in {"rows", "operator"}, OpenWrite(kind) PROVE TypeOK'
    <2>1. writes \in Nat /\ writes' = writes + 1
      BY <1>3 DEF TypeOK, OpenWrite
    <2>2. writes' \in Nat
      BY <2>1
    <2>. QED BY <1>3, <2>2 DEF TypeOK, OpenWrite, locks, inside
  <1>4. CASE CommitWrite
    BY <1>4 DEF TypeOK, CommitWrite, Target, locks, inside
  <1>5. ASSUME NEW r \in Run, NEW m \in {"COMMIT", "DRY_RUN"}, Start(r, m)
        PROVE  TypeOK'
    BY <1>5 DEF TypeOK, Start, Go, outside, locks, Phase
  <1>6. ASSUME NEW r \in Run, Confirm(r) PROVE TypeOK'
    BY <1>6 DEF TypeOK, Confirm, Go, outside, locks, Phase, Committing, Checking
  <1>7. ASSUME NEW r \in Run, Kill(r) PROVE TypeOK'
    BY <1>7, ForgetTyped DEF TypeOK, Kill, outside, locks, Phase
  <1>8. ASSUME NEW r \in Run, Step(r) PROVE TypeOK'
    <2>1. ASSUME NEW f \in Reading, NEW from \in Input, Read(r, f, from) PROVE TypeOK'
      <3>1. from \in File /\ file[from] \in Contents
        BY DEF TypeOK, File
      <3>2. read' \in [Run -> Inputs]
        BY <2>1, <3>1 DEF TypeOK, Read, Inputs
      <3>. QED BY <2>1, <3>2 DEF TypeOK, Read, outside, locks
    <2>2. CASE ReadSource(r) \/ ReadProfile(r) \/ ParseProfile(r) \/ ReadMapping(r)
      BY <2>1, <2>2 DEF ReadSource, ReadProfile, ParseProfile, ReadMapping, Input, Reading
    <2>3. CASE CheckArtifacts(r) \/ CheckBackup(r)
      <3>1. PICK f \in File : Check(r, f) /\ pc[r] \in DOMAIN NextCheck
        BY <2>3 DEF CheckArtifacts, CheckBackup, NextCheck, File
      <3>2. NextCheck[pc[r]] \in Phase
        BY <3>1 DEF NextCheck, Phase, Committing, Checking, Frozen, Rereading
      <3>. QED BY <3>1, <3>2, GoTyped DEF TypeOK, Check, outside, locks, inside
    <2>4. CASE Prepared(r)
      BY <2>4 DEF TypeOK, Prepared, Go, outside, locks, Phase, Committing, Checking,
                  Rehearsing
    <2>5. CASE CreateTemp(r) \/ TempReady(r) \/ TempFails(r)
      <3>1. PICK after \in {"none", "building", "managed", "kept"} :
              temp' = [temp EXCEPT ![r] = after]
        BY <2>5 DEF CreateTemp, TempReady, TempFails, AfterFailedBuild
      <3>. QED BY <2>5, <3>1 DEF TypeOK, CreateTemp, TempReady, TempFails, Go, outside,
                                 locks, Phase, Rehearsing
    <2>6. CASE Rehearse(r) \/ DryReports(r)
      BY <2>6 DEF TypeOK, Rehearse, DryReports, Go, outside, locks, inside, Phase,
                  Rehearsing
    <2>7. CASE ReadTarget(r) \/ SamePlan(r)
      <3>1. \E from \in Phase : \E to \in Phase : Go(r, from, to)
        BY <2>7 DEF ReadTarget, SamePlan, Phase, Committing, Checking
      <3>2. pc' \in [Run -> Phase]
        BY <3>1, GoTyped DEF TypeOK
      <3>3. CASE ReadTarget(r)
        BY <3>2, <3>3 DEF TypeOK, ReadTarget, outside, locks, inside
      <3>4. CASE SamePlan(r)
        BY <3>2, <3>4 DEF TypeOK, SamePlan, outside, locks, inside
      <3>. QED BY <2>7, <3>3, <3>4
    <2>8. CASE Begin(r) \/ TryLock(r)
      <3>1. \E from \in Phase : \E to \in Phase : Go(r, from, to)
        BY <2>8 DEF Begin, TryLock, Phase, Committing, Checking
      <3>2. pc' \in [Run -> Phase]
        BY <3>1, GoTyped DEF TypeOK
      <3>3. CASE Begin(r)
        BY <3>2, <3>3 DEF TypeOK, Begin, outside, locks, inside
      <3>4. CASE TryLock(r)
        BY <3>2, <3>4 DEF TypeOK, TryLock, outside, locks, inside
      <3>. QED BY <2>8, <3>3, <3>4
    <2>9. CASE LockTables(r) \/ CheckTarget(r)
      <3>1. \E from \in Phase : \E to \in Phase : Go(r, from, to)
        BY <2>9 DEF LockTables, CheckTarget, Phase, Committing, Checking, Frozen, Rereading
      <3>2. pc' \in [Run -> Phase]
        BY <3>1, GoTyped DEF TypeOK
      <3>. QED BY <2>9, <3>2 DEF TypeOK, LockTables, CheckTarget, outside, locks, inside
    <2>10. CASE CheckCritical(r) \/ Insert(r) \/ FinalCheck(r)
      <3>1. \E from \in Phase : \E to \in Phase : Go(r, from, to)
        BY <2>10 DEF CheckCritical, Insert, FinalCheck, Phase, Committing, Checking, Frozen,
            Rereading, Writing
      <3>2. pc' \in [Run -> Phase]
        BY <3>1, GoTyped DEF TypeOK
      <3>3. CASE CheckCritical(r)
        BY <3>2, <3>3 DEF TypeOK, CheckCritical, outside, locks, inside
      <3>4. CASE Insert(r)
        BY <3>2, <3>4 DEF TypeOK, Insert, outside, locks, inside
      <3>5. CASE FinalCheck(r)
        BY <3>2, <3>5 DEF TypeOK, FinalCheck, outside, locks, inside
      <3>. QED BY <2>10, <3>3, <3>4, <3>5
    <2>11. CASE Commit(r)
      <3>1. [by |-> r, inputs |-> plan[r]] \in [by : Run, inputs : Inputs]
        BY DEF TypeOK
      <3>2. db' \in Target
        BY <2>11, <3>1 DEF TypeOK, Commit, Target
      <3>3. pc' \in [Run -> Phase]
        BY <2>11 DEF TypeOK, Commit, Go, Phase, Committing, Imported
      <3>. QED BY <2>11, <3>2, <3>3, UnlockTyped DEF TypeOK, Commit, inside
    <2>12. CASE Answer(r) \/ CommitReports(r)
      BY <2>12 DEF TypeOK, Answer, CommitReports, Go, outside, locks, inside, Phase,
                   Committing, Imported
    <2>13. CASE Fail(r)
      <3>1. told' \in [Run -> {"nothing", "success", "failure report"}]
        BY <2>13 DEF TypeOK, Fail
      <3>. QED BY <2>13, <3>1, UnlockTyped, ForgetTyped DEF TypeOK, Fail, outside, Phase
    <2>14. CASE Dispose(r)
      <3>1. PICK after \in {"none", "kept"} :
              temp' = [temp EXCEPT ![r] = IF @ = "managed" THEN after ELSE @]
        BY <2>14 DEF Dispose
      <3>2. temp' \in [Run -> {"none", "building", "managed", "kept"}]
        BY <3>1 DEF TypeOK
      <3>. QED BY <2>14, <3>2, ForgetTyped DEF TypeOK, Dispose, Go, outside, locks, Phase
    <2>15. CASE Notice(r)
      BY <2>15, UnlockTyped DEF TypeOK, Notice, outside, inside
    <2>. QED BY <1>8, <2>2, <2>3, <2>4, <2>5, <2>6, <2>7, <2>8, <2>9, <2>10, <2>11,
                <2>12, <2>13, <2>14, <2>15 DEF Step
  <1>. QED BY <1>1, <1>2, <1>3, <1>4, <1>5, <1>6, <1>7, <1>8 DEF Next

-----------------------------------------------------------------------------
(* The modes, the locks and what the target holds.                         *)

\* The steps of a run that only look, check or report.
Undisturbed(r) ==
  \/ ReadSource(r) \/ ReadProfile(r) \/ ParseProfile(r) \/ ReadMapping(r)
  \/ CheckArtifacts(r) \/ CheckBackup(r)
  \/ CreateTemp(r) \/ TempReady(r) \/ TempFails(r)
  \/ Rehearse(r) \/ DryReports(r) \/ ReadTarget(r) \/ Confirm(r) \/ SamePlan(r)
  \/ CheckCritical(r) \/ FinalCheck(r) \/ CommitReports(r)

\* Where they lead: along the lines of the program, within one stage of it.
Along ==
  [prepare |-> {"prepare"}, create |-> {"build"}, build |-> {"rehearse", "dispose"},
   rehearse |-> {"reports"}, reports |-> {"dispose"},
   artifacts |-> {"target"}, target |-> {"backup"}, backup |-> {"confirm"},
   confirm |-> {"again"}, again |-> {"again", "artifacts2"},
   artifacts2 |-> {"backup2"}, backup2 |-> {"begin"},
   critical |-> {"critical", "artifacts3"}, artifacts3 |-> {"backup3"},
   backup3 |-> {"insert"}, final |-> {"commit"}, told |-> {"dispose"}]

LEMMA QuietSteps ==
  ASSUME TypeOK, NEW r \in Run, Undisturbed(r)
  PROVE  /\ UNCHANGED <<db, writer, advisory, locked, mode, plan, snap>>
         /\ pc[r] \in DOMAIN Along /\ pc'[r] \in Along[pc[r]]
         /\ \A q \in Run \ {r} : pc'[q] = pc[q]
  <1>. DEFINE Unmoved == UNCHANGED <<db, writer, advisory, locked, mode, plan, snap>>
              Led == /\ pc[r] \in DOMAIN Along /\ pc'[r] \in Along[pc[r]]
                     /\ \A q \in Run \ {r} : pc'[q] = pc[q]
  <1>1. CASE ReadSource(r) \/ ReadProfile(r) \/ ParseProfile(r) \/ ReadMapping(r)
    BY <1>1 DEF ReadSource, ReadProfile, ParseProfile, ReadMapping, Read, outside, locks, Along
  <1>2. CASE CheckArtifacts(r) \/ CheckBackup(r)
    <2>1. PICK f \in File : Check(r, f)
      BY <1>2 DEF CheckArtifacts, CheckBackup, File
    <2>2. Unmoved
      BY <2>1 DEF Check, outside, locks, inside
    <2>3. pc[r] \in DOMAIN NextCheck
      BY <1>2 DEF CheckArtifacts, CheckBackup, NextCheck
    <2>4. pc'[r] = NextCheck[pc[r]] /\ \A q \in Run \ {r} : pc'[q] = pc[q]
      BY <2>1 DEF Check, Go, TypeOK
    <2>5. NextCheck[pc[r]] \in Along[pc[r]] /\ pc[r] \in DOMAIN Along
      BY <2>3 DEF NextCheck, Along
    <2>. QED BY <2>2, <2>4, <2>5
  <1>0. ASSUME NEW from \in DOMAIN Along, NEW to \in Along[from], Go(r, from, to)
        PROVE  Led
    BY <1>0 DEF Go, TypeOK
  <1>3. CASE CreateTemp(r) \/ TempReady(r) \/ TempFails(r)
    <2>1. Unmoved
      BY <1>3 DEF CreateTemp, TempReady, TempFails, outside, locks, inside
    <2>2. \E from \in DOMAIN Along : \E to \in Along[from] : Go(r, from, to)
      BY <1>3 DEF CreateTemp, TempReady, TempFails, Along
    <2>. QED BY <1>0, <2>1, <2>2
  <1>4. CASE Rehearse(r) \/ DryReports(r)
    <2>1. Unmoved
      BY <1>4 DEF Rehearse, DryReports, outside, locks, inside
    <2>2. \E from \in DOMAIN Along : \E to \in Along[from] : Go(r, from, to)
      BY <1>4 DEF Rehearse, DryReports, Along
    <2>. QED BY <1>0, <2>1, <2>2
  <1>5. CASE ReadTarget(r) \/ Confirm(r) \/ SamePlan(r)
    <2>1. Unmoved
      BY <1>5 DEF ReadTarget, Confirm, SamePlan, outside, locks, inside
    <2>2. \E from \in DOMAIN Along : \E to \in Along[from] : Go(r, from, to)
      BY <1>5 DEF ReadTarget, Confirm, SamePlan, Along
    <2>. QED BY <1>0, <2>1, <2>2
  <1>6. CASE CheckCritical(r) \/ FinalCheck(r) \/ CommitReports(r)
    <2>1. Unmoved
      BY <1>6 DEF CheckCritical, FinalCheck, CommitReports, outside, locks, inside
    <2>2. \E from \in DOMAIN Along : \E to \in Along[from] : Go(r, from, to)
      BY <1>6 DEF CheckCritical, FinalCheck, CommitReports, Along
    <2>. QED BY <1>0, <2>1, <2>2
  <1>. QED BY <1>1, <1>2, <1>3, <1>4, <1>5, <1>6 DEF Undisturbed

\* A run dies, fails or is done: nothing is left of what it remembered.
Leaves(r) == Fail(r) \/ Dispose(r) \/ Kill(r)

LEMMA LeavingSteps ==
  ASSUME TypeOK, NEW r \in Run, Leaves(r)
  PROVE  /\ UNCHANGED <<db, writer, mode>>
         /\ advisory' # advisory => advisory = r
         /\ locked' # locked => locked = r /\ locked' = None
         /\ advisory' # advisory /\ locked = r => locked' = None
         /\ pc'[r] \in {"dispose", "dead", "ended"}
         /\ \A q \in Run \ {r} :
              pc'[q] = pc[q] /\ plan'[q] = plan[q] /\ snap'[q] = snap[q]
  BY ForgetTyped
  DEF Leaves, Fail, Dispose, Kill, Unlock, Go, TypeOK, outside, locks

\* What others do to the target and the files.
Around ==
  \/ \E f \in File : \E version \in Versions(f) : Edit(f, version)
  \/ \E kind \in {"rows", "operator"} : OpenWrite(kind)
  \/ CommitWrite

LEMMA StepsCovered ==
  ASSUME Next
  PROVE  \/ Around
         \/ \E r \in Run :
              \/ \E m \in {"COMMIT", "DRY_RUN"} : Start(r, m)
              \/ Prepared(r) \/ Undisturbed(r) \/ Leaves(r)
              \/ Begin(r) \/ TryLock(r) \/ LockTables(r) \/ CheckTarget(r)
              \/ Insert(r) \/ Commit(r) \/ Answer(r) \/ Notice(r)
  BY DEF Next, Step, Around, Undisturbed, Leaves

LEMMA AroundSteps ==
  ASSUME TypeOK, Around
  PROVE  UNCHANGED <<advisory, locked, pc, mode, plan, snap>> /\ db'.plans = db.plans
  <1>1. db'.plans = db.plans
    <2>1. CASE CommitWrite
      BY <2>1 DEF CommitWrite, TypeOK, Target
    <2>. QED BY <2>1 DEF Around, Edit, OpenWrite
  <1>2. UNCHANGED <<advisory, locked, pc, mode, plan, snap>>
    BY DEF Around, Edit, OpenWrite, CommitWrite, locks, inside
  <1>. QED BY <1>1, <1>2

LEMMA StepModesKept == TypeOK /\ ModesKept /\ [Next]_vars => ModesKept'
  <1>. SUFFICES ASSUME TypeOK, ModesKept, [Next]_vars PROVE ModesKept'
    OBVIOUS
  <1>. USE DEF ModesKept
  <1>1. CASE UNCHANGED vars
    BY <1>1 DEF vars, inside
  <1>2. CASE Around
    BY <1>2, AroundSteps
  <1>3. ASSUME NEW r \in Run, Undisturbed(r) PROVE ModesKept'
    <2>1. /\ pc'[r] \in Committing => pc[r] \in Committing
          /\ pc'[r] \in Rehearsing => pc[r] \in Rehearsing
      BY <1>3, QuietSteps
      DEF Along, Committing, Checking, Frozen, Rereading, Writing, Imported, Rehearsing
    <2>. QED BY <1>3, <2>1, QuietSteps
  <1>4. ASSUME NEW r \in Run, Leaves(r) PROVE ModesKept'
    <2>1. pc'[r] \notin Committing \cup Rehearsing
      BY <1>4, LeavingSteps
      DEF Committing, Checking, Frozen, Rereading, Writing, Imported, Rehearsing
    <2>. QED BY <1>4, <2>1, LeavingSteps
  <1>5. ASSUME NEW r \in Run, NEW m \in {"COMMIT", "DRY_RUN"}, Start(r, m)
        PROVE  ModesKept'
    <2>1. pc'[r] = "prepare" /\ UNCHANGED plan
      BY <1>5 DEF Start, Go, TypeOK
    <2>2. \A q \in Run \ {r} : pc'[q] = pc[q] /\ mode'[q] = mode[q]
      BY <1>5 DEF Start, Go, TypeOK
    <2>3. "prepare" \notin Committing \cup Rehearsing
      BY DEF Committing, Checking, Frozen, Rereading, Writing, Imported, Rehearsing
    <2>. HIDE DEF Committing, Rehearsing
    <2>. QED BY <2>1, <2>2, <2>3
  <1>6. ASSUME NEW r \in Run, Prepared(r) PROVE ModesKept'
    <2>1. /\ pc'[r] \in Committing => mode[r] = "COMMIT" /\ IsApproved(plan'[r])
          /\ pc'[r] \in Rehearsing => mode[r] = "DRY_RUN"
      BY <1>6 DEF Prepared, IsApproved, Go, TypeOK, Committing, Checking, Frozen,
                  Rereading, Writing, Imported, Rehearsing
    <2>2. /\ UNCHANGED mode
          /\ \A q \in Run \ {r} : pc'[q] = pc[q] /\ plan'[q] = plan[q]
      BY <1>6 DEF Prepared, Go, TypeOK
    <2>. QED BY <2>1, <2>2
  <1>7. ASSUME NEW r \in Run, \/ Begin(r) \/ TryLock(r) \/ LockTables(r) \/ CheckTarget(r)
                              \/ Insert(r) \/ Commit(r) \/ Answer(r)
        PROVE  ModesKept'
    <2>1. UNCHANGED <<mode, plan>>
      BY <1>7 DEF Begin, TryLock, LockTables, CheckTarget, Insert, Commit, Answer, inside
    <2>2. \E from \in Committing : \E to \in Committing : Go(r, from, to)
      BY <1>7 DEF Begin, TryLock, LockTables, CheckTarget, Insert, Commit, Answer,
                  Committing, Checking, Frozen, Rereading, Writing, Imported
    <2>3. /\ pc[r] \in Committing /\ pc'[r] \in Committing \ Rehearsing
          /\ \A q \in Run \ {r} : pc'[q] = pc[q]
      BY <2>2 DEF Go, TypeOK, Committing, Checking, Frozen, Rereading, Writing,
                  Imported, Rehearsing
    <2>. QED BY <2>1, <2>3
  <1>8. ASSUME NEW r \in Run, Notice(r) PROVE ModesKept'
    BY <1>8 DEF Notice, inside
  <1>. QED BY <1>1, <1>2, <1>3, <1>4, <1>5, <1>6, <1>7, <1>8, StepsCovered

LEMMA StepLocksHeld == TypeOK /\ LocksHeld /\ [Next]_vars => LocksHeld'
  <1>. SUFFICES ASSUME TypeOK, LocksHeld, [Next]_vars PROVE LocksHeld'
    OBVIOUS
  <1>. USE ConstantsTyped DEF LocksHeld
  <1>1. CASE UNCHANGED vars
    BY <1>1 DEF vars, outside, locks
  <1>2. CASE Around
    <2>1. locked # None => UNCHANGED writer
      BY <1>2 DEF Around, Edit, OpenWrite, CommitWrite, TablesClosed
    <2>. QED BY <1>2, <2>1, AroundSteps
  <1>3. ASSUME NEW r \in Run, Undisturbed(r) PROVE LocksHeld'
    <2>1. pc'[r] \in {"tables"} \cup Frozen => pc[r] \in Frozen /\ pc'[r] \in Frozen
      BY <1>3, QuietSteps DEF Along, Frozen, Rereading, Writing
    <2>. QED BY <1>3, <2>1, QuietSteps
  <1>4. ASSUME NEW r \in Run, Leaves(r) PROVE LocksHeld'
    <2>1. pc'[r] \notin {"tables"} \cup Frozen
      BY <1>4, LeavingSteps DEF Frozen, Rereading, Writing
    <2>2. /\ UNCHANGED writer
          /\ advisory' # advisory => advisory = r
          /\ locked' # locked => locked = r /\ locked' = None
          /\ advisory' # advisory /\ locked = r => locked' = None
          /\ \A q \in Run \ {r} : pc'[q] = pc[q]
      BY <1>4, LeavingSteps
    <2>3. ASSUME NEW q \in Run
          PROVE  /\ pc'[q] \in {"tables"} \cup Frozen => advisory' = q
                 /\ pc'[q] \in Frozen => locked' = q
      BY <2>1, <2>2
    <2>4. locked' # None => advisory' = locked' /\ writer' = None
      BY <2>2
    <2>. QED BY <2>3, <2>4
  <1>5. ASSUME NEW r \in Run, NEW m \in {"COMMIT", "DRY_RUN"}, Start(r, m) \/ Prepared(r)
        PROVE  LocksHeld'
    <2>1. \E from \in Phase : \E to \in {"prepare", "create", "artifacts"} : Go(r, from, to)
      BY <1>5 DEF Start, Prepared, Phase, Committing, Checking
    <2>2. pc'[r] \notin {"tables"} \cup Frozen /\ \A q \in Run \ {r} : pc'[q] = pc[q]
      BY <2>1 DEF Go, TypeOK, Frozen, Rereading, Writing
    <2>3. UNCHANGED <<writer, advisory, locked>>
      BY <1>5 DEF Start, Prepared, outside, locks
    <2>. QED BY <2>2, <2>3
  <1>6. ASSUME NEW r \in Run, Begin(r) PROVE LocksHeld'
    BY <1>6 DEF Begin, Go, TypeOK, outside, locks, Frozen, Rereading, Writing
  <1>7. ASSUME NEW r \in Run, TryLock(r) PROVE LocksHeld'
    BY <1>7 DEF TryLock, Go, TypeOK, outside, Frozen, Rereading, Writing
  <1>8. ASSUME NEW r \in Run, LockTables(r) PROVE LocksHeld'
    BY <1>8 DEF LockTables, Go, TypeOK, outside, Frozen, Rereading, Writing
  <1>9. ASSUME NEW r \in Run, CheckTarget(r) \/ Insert(r) PROVE LocksHeld'
    <2>1. pc[r] \in Frozen /\ \A q \in Run \ {r} : pc'[q] = pc[q]
      BY <1>9 DEF CheckTarget, Insert, Go, TypeOK, Frozen, Rereading
    <2>2. UNCHANGED <<writer, advisory, locked>>
      BY <1>9 DEF CheckTarget, Insert, outside, locks
    <2>. QED BY <2>1, <2>2
  <1>10. ASSUME NEW r \in Run, Commit(r) PROVE LocksHeld'
    <2>1. /\ advisory = r /\ locked = r
          /\ pc'[r] \notin {"tables"} \cup Frozen
          /\ \A q \in Run \ {r} : pc'[q] = pc[q]
      BY <1>10 DEF Commit, Go, TypeOK, Frozen, Rereading, Writing
    <2>. QED BY <1>10, <2>1 DEF Commit, Unlock
  <1>11. ASSUME NEW r \in Run, Answer(r) PROVE LocksHeld'
    BY <1>11 DEF Answer, Go, TypeOK, outside, locks, Frozen, Rereading, Writing
  <1>12. ASSUME NEW r \in Run, Notice(r) PROVE LocksHeld'
    <2>1. pc[r] = "dead" /\ UNCHANGED <<pc, writer>>
      BY <1>12 DEF Notice, outside
    <2>2. pc[r] \notin {"tables"} \cup Frozen
      BY <2>1 DEF Frozen, Rereading, Writing
    <2>. QED BY <1>12, <2>1, <2>2 DEF Notice, Unlock
  <1>. QED BY <1>1, <1>2, <1>3, <1>4, <1>5, <1>6, <1>7, <1>8, <1>9, <1>10, <1>11,
              <1>12, StepsCovered

\* Whoever commits holds the advisory locks, so the others are not writing.
LEMMA StepNothingBefore ==
  TypeOK /\ LocksHeld /\ NothingBefore /\ [Next]_vars => NothingBefore'
  <1>. SUFFICES ASSUME TypeOK, LocksHeld, NothingBefore, [Next]_vars
                PROVE  NothingBefore'
    OBVIOUS
  <1>. USE DEF NothingBefore
  <1>1. CASE UNCHANGED vars
    BY <1>1 DEF vars, outside, inside
  <1>2. CASE Around
    BY <1>2, AroundSteps
  <1>3. ASSUME NEW r \in Run, Undisturbed(r) PROVE NothingBefore'
    <2>1. /\ pc'[r] \in Rereading => pc[r] \in Rereading
          /\ pc'[r] \in Writing => pc[r] \in Writing
      BY <1>3, QuietSteps DEF Along, Rereading, Writing
    <2>. QED BY <1>3, <2>1, QuietSteps
  <1>4. ASSUME NEW r \in Run, Leaves(r) PROVE NothingBefore'
    <2>1. pc'[r] \notin Rereading \cup Writing
      BY <1>4, LeavingSteps DEF Rereading, Writing
    <2>. QED BY <1>4, <2>1, LeavingSteps
  <1>5. ASSUME NEW r \in Run, NEW m \in {"COMMIT", "DRY_RUN"},
               \/ Start(r, m) \/ Prepared(r) \/ TryLock(r) \/ LockTables(r) \/ Answer(r)
        PROVE  NothingBefore'
    <2>1. UNCHANGED <<db, snap>>
      BY <1>5 DEF Start, Prepared, TryLock, LockTables, Answer, outside, inside
    <2>2. \E from \in Phase :
            \E to \in {"prepare", "create", "artifacts", "tables", "guards", "told"} :
              Go(r, from, to)
      BY <1>5 DEF Start, Prepared, TryLock, LockTables, Answer, Phase, Committing,
                  Checking, Imported
    <2>3. pc'[r] \notin Rereading \cup Writing /\ \A q \in Run \ {r} : pc'[q] = pc[q]
      BY <2>2 DEF Go, TypeOK, Rereading, Writing
    <2>. QED BY <2>1, <2>3
  <1>6. ASSUME NEW r \in Run, Begin(r) PROVE NothingBefore'
    BY <1>6 DEF Begin, Go, TypeOK, outside, Rereading, Writing
  <1>7. ASSUME NEW r \in Run, CheckTarget(r) PROVE NothingBefore'
    BY <1>7 DEF CheckTarget, EmptyTarget, Go, TypeOK, outside, Writing
  <1>8. ASSUME NEW r \in Run, Insert(r) PROVE NothingBefore'
    <2>1. db.plans = {} /\ UNCHANGED <<db, snap>>
      BY <1>8 DEF Insert, Duplicate, Go, outside, inside, Rereading
    <2>. QED BY <1>8, <2>1 DEF Insert, Go, TypeOK, Rereading
  <1>9. ASSUME NEW r \in Run, Commit(r) PROVE NothingBefore'
    <2>1. advisory = r /\ pc'[r] = "answer" /\ UNCHANGED snap
      BY <1>9 DEF Commit, Go, TypeOK, LocksHeld, Frozen, Writing, inside
    <2>2. \A q \in Run \ {r} : pc'[q] = pc[q] /\ pc'[q] \notin Writing
      BY <1>9, <2>1 DEF Commit, Go, TypeOK, LocksHeld, Frozen
    <2>. QED BY <2>1, <2>2 DEF Rereading, Writing
  <1>10. ASSUME NEW r \in Run, Notice(r) PROVE NothingBefore'
    BY <1>10 DEF Notice, outside, inside
  <1>. QED BY <1>1, <1>2, <1>3, <1>4, <1>5, <1>6, <1>7, <1>8, <1>9, <1>10, StepsCovered

\* The target receives one plan in one step, the one its run holds.
LEMMA CommitsAlone ==
  ASSUME TypeOK, [Next]_vars, db'.plans # db.plans
  PROVE  \E r \in Run : /\ pc[r] = "commit" /\ pc' = [pc EXCEPT ![r] = "answer"]
                        /\ db'.plans = db.plans \cup {[by |-> r, inputs |-> plan[r]]}
  <1>1. ~UNCHANGED db
    OBVIOUS
  <1>2. ~Around /\ \A r \in Run : ~Undisturbed(r) /\ ~Leaves(r)
    BY <1>1, AroundSteps, QuietSteps, LeavingSteps
  <1>3. PICK r \in Run : \/ \E m \in {"COMMIT", "DRY_RUN"} : Start(r, m)
                         \/ Prepared(r) \/ Begin(r) \/ TryLock(r) \/ LockTables(r)
                         \/ CheckTarget(r) \/ Insert(r) \/ Commit(r) \/ Answer(r)
                         \/ Notice(r)
    BY <1>1, <1>2, StepsCovered DEF vars, outside
  <1>4. Commit(r)
    BY <1>1, <1>3 DEF Start, Prepared, Begin, TryLock, LockTables, CheckTarget, Insert,
                      Answer, Notice, outside
  <1>. QED BY <1>4 DEF Commit, Go, TypeOK, Target

LEMMA StepCommittedIsThere ==
  TypeOK /\ CommittedIsThere /\ [Next]_vars => CommittedIsThere'
  <1>. SUFFICES ASSUME TypeOK, CommittedIsThere, [Next]_vars PROVE CommittedIsThere'
    OBVIOUS
  <1>. USE DEF CommittedIsThere
  <1>1. CASE UNCHANGED vars
    BY <1>1 DEF vars, outside
  <1>2. CASE Around
    BY <1>2, AroundSteps
  <1>3. ASSUME NEW r \in Run, Undisturbed(r) \/ Leaves(r) PROVE CommittedIsThere'
    <2>1. pc'[r] \notin Imported
      BY <1>3, QuietSteps, LeavingSteps DEF Along, Imported
    <2>. QED BY <1>3, <2>1, QuietSteps, LeavingSteps
  <1>4. ASSUME NEW r \in Run, NEW m \in {"COMMIT", "DRY_RUN"},
               \/ Start(r, m) \/ Prepared(r) \/ Begin(r) \/ TryLock(r) \/ LockTables(r)
               \/ CheckTarget(r) \/ Insert(r)
        PROVE  CommittedIsThere'
    <2>1. PICK from \in Phase,
               to \in {"prepare", "create", "artifacts", "try", "tables", "guards",
                      "critical", "final"} : Go(r, from, to)
      BY <1>4 DEF Start, Prepared, Begin, TryLock, LockTables, CheckTarget, Insert,
                  Phase, Committing, Checking, Frozen, Rereading
    <2>2. pc'[r] \notin Imported /\ \A q \in Run \ {r} : pc'[q] = pc[q]
      BY <2>1 DEF Go, TypeOK, Imported
    <2>3. UNCHANGED db
      BY <1>4 DEF Start, Prepared, Begin, TryLock, LockTables, CheckTarget, Insert,
                  outside
    <2>. QED BY <2>2, <2>3
  <1>5. ASSUME NEW r \in Run, Commit(r) PROVE CommittedIsThere'
    <2>1. db'.plans = db.plans \cup {[by |-> r, inputs |-> plan[r]]}
      BY <1>5 DEF Commit, TypeOK, Target
    <2>2. \A q \in Run \ {r} : pc'[q] = pc[q]
      BY <1>5 DEF Commit, Go, TypeOK
    <2>3. \E p \in db'.plans : p.by = r
      <3>1. [by |-> r, inputs |-> plan[r]].by = r
        OBVIOUS
      <3>. QED BY <2>1, <3>1
    <2>4. ASSUME NEW q \in Run \ {r}, pc'[q] \in Imported
          PROVE  \E p \in db'.plans : p.by = q
      BY <2>1, <2>2, <2>4
    <2>. QED BY <2>3, <2>4
  <1>6. ASSUME NEW r \in Run, Answer(r) PROVE CommittedIsThere'
    BY <1>6 DEF Answer, Go, TypeOK, outside, Imported
  <1>7. ASSUME NEW r \in Run, Notice(r) PROVE CommittedIsThere'
    BY <1>7 DEF Notice, outside
  <1>. QED BY <1>1, <1>2, <1>3, <1>4, <1>5, <1>6, <1>7, StepsCovered

-----------------------------------------------------------------------------
(* The theorems.                                                           *)

LEMMA StepIInv == IInv /\ [Next]_vars => IInv'
  <1>. SUFFICES ASSUME IInv, [Next]_vars PROVE IInv'
    OBVIOUS
  <1>1. TypeOK' /\ ModesKept' /\ LocksHeld' /\ NothingBefore' /\ CommittedIsThere'
    BY StepTyped, StepModesKept, StepLocksHeld, StepNothingBefore, StepCommittedIsThere
    DEF IInv
  <1>2. CASE db'.plans = db.plans
    BY <1>1, <1>2 DEF IInv, ApprovedPlanOnly
  <1>3. CASE db'.plans # db.plans
    <2>1. PICK r \in Run : /\ pc[r] = "commit" /\ pc' = [pc EXCEPT ![r] = "answer"]
                          /\ db'.plans = db.plans \cup {[by |-> r, inputs |-> plan[r]]}
      BY <1>3, CommitsAlone DEF IInv
    <2>2. db.plans = {} /\ IsApproved(plan[r]) /\ plan[r] \in Inputs
      BY <2>1 DEF IInv, TypeOK, NothingBefore, Writing, ModesKept, Committing, Frozen
    <2>3. db'.plans = {[by |-> r, inputs |-> plan[r]]}
      BY <2>1, <2>2
    <2>4. ApprovedPlanOnly'
      BY <2>2, <2>3 DEF ApprovedPlanOnly, IsApproved, Hashed, Inputs, Contents, Reading
    <2>. QED BY <1>1, <2>3, <2>4 DEF IInv
  <1>. QED BY <1>2, <1>3

\* Types.
THEOREM ImportTypeOK == Spec => []TypeOK
  BY InitIInv, StepIInv, PTL DEF Spec, IInv

\* However many runs there are, however they fail and whatever is edited and
\* written around them, the target holds the approved plan at most, and once.
THEOREM ApprovedPlanOnceHolds == Spec => []ApprovedPlanOnce
  <1>1. IInv => ApprovedPlanOnce
    <2>. SUFFICES ASSUME IInv PROVE Cardinality(db.plans) <= 1
      BY DEF IInv, ApprovedPlanOnce, ImportedOnce
    <2>1. CASE db.plans = {}
      BY <2>1, FS_EmptySet
    <2>2. CASE db.plans # {}
      <3>1. PICK p \in db.plans : TRUE
        BY <2>2
      <3>2. db.plans = {p}
        BY <3>1 DEF IInv
      <3>. QED BY <3>2, FS_Singleton
    <2>. QED BY <2>1, <2>2
  <1>. QED BY <1>1, InitIInv, StepIInv, PTL DEF Spec

\* While a run holds the table locks no API transaction changes the target.
THEOREM LocksFreezeTargetHolds == Spec => LocksFreezeTarget
  <1>1. ASSUME IInv, [Next]_vars, locked # None
        PROVE  db'.rows = db.rows /\ db'.admin = db.admin
    <2>1. CASE UNCHANGED db
      BY <2>1
    <2>2. CASE Around
      BY <1>1, <2>2 DEF Around, Edit, OpenWrite, CommitWrite, IInv, LocksHeld
    <2>3. ASSUME NEW r \in Run, Commit(r) PROVE db'.rows = db.rows /\ db'.admin = db.admin
      BY <1>1, <2>3 DEF Commit, IInv, TypeOK, Target
    <2>4. ASSUME ~UNCHANGED db, ~Around PROVE \E r \in Run : Commit(r)
      <3>1. PICK r \in Run : \/ \E m \in {"COMMIT", "DRY_RUN"} : Start(r, m)
                             \/ Prepared(r) \/ Begin(r) \/ TryLock(r) \/ LockTables(r)
                             \/ CheckTarget(r) \/ Insert(r) \/ Commit(r) \/ Answer(r)
                             \/ Notice(r)
        BY <1>1, <2>4, StepsCovered, QuietSteps, LeavingSteps DEF vars, outside, IInv
      <3>. QED BY <2>4, <3>1 DEF Start, Prepared, Begin, TryLock, LockTables,
                  CheckTarget, Insert, Answer, Notice, outside
    <2>. QED BY <2>1, <2>2, <2>3, <2>4
  <1>. QED BY <1>1, InitIInv, StepIInv, PTL DEF Spec, LocksFreezeTarget

\* Success is reported only of an import that is in the target, and a failure
\* never by a run that knows it has committed.
THEOREM ReportsTrueHolds == Spec => ReportsTrue
  <1>. DEFINE True(r) ==
                mode[r] = "COMMIT" /\ told'[r] # told[r] =>
                  /\ told'[r] = "success" => \E p \in db.plans : p.by = r
                  /\ told'[r] = "failure report" => pc[r] # "told"
  <1>1. ASSUME IInv, [Next]_vars, NEW r \in Run PROVE True(r)
    <2>. SUFFICES ASSUME mode[r] = "COMMIT", told'[r] # told[r]
                  PROVE  /\ told'[r] = "success" => \E p \in db.plans : p.by = r
                         /\ told'[r] = "failure report" => pc[r] # "told"
      OBVIOUS
    <2>1. \E q \in Run : DryReports(q) \/ CommitReports(q) \/ Fail(q)
      BY <1>1 DEF Next, Step, vars, outside, locks, inside, Edit, OpenWrite, CommitWrite,
        Start, Confirm, Kill, ReadSource, ReadProfile, ParseProfile, ReadMapping, Read,
        CheckArtifacts, CheckBackup, Check, Prepared, CreateTemp, TempReady, TempFails,
        Rehearse, ReadTarget, SamePlan, Begin, TryLock, LockTables, CheckTarget,
        CheckCritical, Insert, FinalCheck, Commit, Answer, Dispose, Notice
    <2>2. PICK q \in Run : DryReports(q) \/ CommitReports(q) \/ Fail(q)
      BY <2>1
    <2>3. q = r
      BY <1>1, <2>2 DEF DryReports, CommitReports, Fail, IInv, TypeOK
    <2>4. CASE DryReports(r)
      BY <1>1, <2>4 DEF DryReports, Go, IInv, ModesKept, Rehearsing
    <2>5. CASE CommitReports(r)
      BY <1>1, <2>5 DEF CommitReports, Go, IInv, TypeOK, CommittedIsThere, Imported
    <2>6. CASE Fail(r)
      BY <1>1, <2>6 DEF Fail, Unanswered, IInv, TypeOK
    <2>. QED BY <2>2, <2>3, <2>4, <2>5, <2>6
  <1>2. IInv /\ [Next]_vars => \A r \in Run : True(r)
    BY <1>1
  <1>. QED BY <1>2, InitIInv, StepIInv, PTL DEF Spec, ReportsTrue

-----------------------------------------------------------------------------
(* The sheets of products.                                                 *)

\* The values of a field, or nothing.
Or(S) == S \cup {Blank}
Sheet == [code : Or(Label), unit : Or(Unit), name : Or(Text), specs : Or(Text), stamp : Nat]
Form == [kind : {"none", "edit", "new"}, of : Or(Product), seen : Sheet, draft : Sheet,
         access : BOOLEAN, sent : Or(Job)]
Saving == [kind : {"none", "edit", "new", "category"},
           stage : {"none", "begun", "held", "checked"}, of : Or(Product), by : Or(Person),
           seen : Sheet, wants : Sheet, sends : BOOLEAN, could : BOOLEAN]

CatalogTypeOK ==
  /\ sheet \in [Product -> Sheet]
  /\ categories \in Seq(Label)
  /\ used \in SUBSET Product
  /\ moving \in [Document -> SUBSET Product]
  /\ entitled \in SUBSET Person
  /\ editor \in [Person -> Form]
  /\ saving \in [Job -> Saving]

\* Only products that are there have a code, a history or a document about them.
SheetsWritten ==
  /\ \A p \in Product : IsSheet(sheet[p]) => sheet[p].code \in Label
  /\ \A p \in used : IsSheet(sheet[p])
  /\ \A d \in Document : \A p \in moving[d] : IsSheet(sheet[p])

\* A row seen at the present stamp is the row.
Tracks(of, seen, wants) ==
  /\ of \in Product /\ IsSheet(sheet[of])
  /\ wants.stamp = seen.stamp /\ wants.code \in Label
  /\ seen.stamp <= sheet[of].stamp
  /\ seen.stamp = sheet[of].stamp => seen = sheet[of]

\* Forms and transactions show a row as it was at a stamp it had.
FormsFollow ==
  /\ \A w \in Person :
    /\ editor[w].kind = "edit" => Tracks(editor[w].of, editor[w].seen, editor[w].draft)
    /\ editor[w].kind = "new" => editor[w].of = Blank /\ editor[w].draft.code \in Label
  /\ \A j \in Job :
    /\ saving[j].kind = "edit" => Tracks(saving[j].of, saving[j].seen, saving[j].wants)
    /\ saving[j].kind \in {"new", "category"} => saving[j].of = Blank /\ saving[j].wants.code \in Label
    /\ saving[j].stage # "none" => saving[j].kind # "none"
    /\ saving[j].kind \in {"edit", "new"} /\ saving[j].by \in entitled => saving[j].could

Held(j) == saving[j].stage \in {"held", "checked"}

\* From its lock on, a row is as the form showed it, and nobody else's.
RowsStill ==
  \A j \in Job :
    /\ Held(j) /\ saving[j].kind = "edit" =>
       /\ saving[j].seen = sheet[saving[j].of]
       /\ \A d \in Document : saving[j].of \notin moving[d]
       /\ \A i \in Job \ {j} : ~HoldsRow(i, saving[j].of)
    /\ Held(j) /\ saving[j].kind # "category" /\ After(j).specs # Before(j).specs => saving[j].could

\* From the lock of its code on, what was checked of it stays so.
CodesStill ==
  \A j \in Job : saving[j].stage = "checked" =>
    /\ ~CodeTaken(j) /\ ~Freezes(j)
    /\ \A i \in Job \ {j} : ~HoldsCode(i, CodeLock(j))

CatalogInv ==
  CatalogTypeOK /\ SheetsWritten /\ FormsFollow /\ RowsStill /\ CodesStill /\ CodesDistinct

\* What the transactions rely on holds of the first catalogue.
LEMMA InitCatalogInv == CatalogInit => CatalogInv
  <1>. SUFFICES ASSUME CatalogInit PROVE CatalogInv
    OBVIOUS
  <1>. USE CatalogAssumption
  <1>1. Missing \in Sheet /\ ~IsSheet(Missing) /\ Missing.code = Blank
    BY DEF Missing, Sheet, Or, IsSheet
  <1>2. NoForm \in Form /\ NoJob \in Saving
    BY <1>1 DEF NoForm, NoJob, Form, Saving, Or
  <1>3. ASSUME NEW p \in Product
        PROVE  sheet[p] \in Sheet /\ (IsSheet(sheet[p]) => sheet[p].code \in Label)
    <2>1. sheet \in [Product -> {Missing} \cup FirstSheets]
      BY DEF CatalogInit
    <2>2. ASSUME NEW row \in FirstSheets PROVE row \in Sheet /\ row.code \in Label
      <3>1. PICK x \in Label \X Unit \X Values("specs") :
              row = [Missing EXCEPT !.code = x[1], !.unit = x[2], !.specs = x[3], !.stamp = 1]
        BY DEF FirstSheets
      <3>2. x[1] \in Label /\ x[2] \in Unit /\ x[3] \in Text \cup {Blank}
        BY DEF Values
      <3>. QED BY <3>1, <3>2 DEF Missing, Sheet, Or
    <2>. QED BY <1>1, <2>1, <2>2
  <1>4. CatalogTypeOK
    <2>1. sheet \in [Product -> Sheet]
      <3>1. sheet = [p \in Product |-> sheet[p]]
        BY DEF CatalogInit
      <3>. QED BY <1>3, <3>1
    <2>2. categories \in Seq(Label)
      BY DEF CatalogInit
    <2>3. /\ used \in SUBSET Product /\ entitled \in SUBSET Person
          /\ moving = [d \in Document |-> {}]
          /\ editor = [w \in Person |-> NoForm] /\ saving = [j \in Job |-> NoJob]
      BY DEF CatalogInit
    <2>. QED BY <1>2, <2>1, <2>2, <2>3 DEF CatalogTypeOK
  <1>5. SheetsWritten
    <2>1. used \subseteq {p \in Product : IsSheet(sheet[p])} /\ moving = [d \in Document |-> {}]
      BY DEF CatalogInit
    <2>. QED BY <1>3, <2>1 DEF SheetsWritten
  <1>6. FormsFollow /\ RowsStill /\ CodesStill
    <2>1. editor = [w \in Person |-> NoForm] /\ saving = [j \in Job |-> NoJob]
      BY DEF CatalogInit
    <2>. QED BY <2>1 DEF FormsFollow, RowsStill, CodesStill, NoForm, NoJob, Held
  <1>7. CodesDistinct
    <2>1. /\ \A p, q \in Product : IsSheet(sheet[p]) /\ sheet[p].code = sheet[q].code => p = q
          /\ categories = <<>>
      BY DEF CatalogInit
    <2>. QED BY <2>1 DEF CodesDistinct
  <1>. QED BY <1>4, <1>5, <1>6, <1>7 DEF CatalogInv

\* Steps of a person on a form.
OnForms ==
  \E w \in Person :
    \/ \E p \in Product : OpenSheet(w, p)
    \/ \E c \in Label : OpenNew(w, c)
    \/ \E f \in Field : \E v \in Values(f) : TypeField(w, f, v)
    \/ LeaveSheet(w)

\* The form shown is a form, and shows a sheet that is there.
FormOf(f) ==
  /\ f.kind = "edit" => Tracks(f.of, f.seen, f.draft)
  /\ f.kind = "new" => f.of = Blank /\ f.draft.code \in Label

\* A step on a form touches nothing else, and leaves a form that follows its row.
LEMMA FormSteps ==
  ASSUME CatalogInv, OnForms
  PROVE  /\ UNCHANGED <<tables, moving, entitled, saving>>
         /\ editor' \in [Person -> Form]
         /\ \A w \in Person : FormOf(editor'[w])
  <1>. USE CatalogAssumption DEF CatalogInv, CatalogTypeOK
  <1>1. \A w \in Person : FormOf(editor[w])
    BY DEF FormsFollow, FormOf
  <1>0. Missing \in Sheet /\ NoForm \in Form
    BY DEF Missing, NoForm, Form, Sheet, Or
  <1>2. ASSUME NEW w \in Person, NEW f \in Form, FormOf(f), Shows(w, f)
        PROVE  editor' \in [Person -> Form] /\ \A v \in Person : FormOf(editor'[v])
    BY <1>1, <1>2 DEF Shows
  <1>3. PICK w \in Person :
          \/ \E p \in Product : OpenSheet(w, p)
          \/ \E c \in Label : OpenNew(w, c)
          \/ \E f \in Field : \E v \in Values(f) : TypeField(w, f, v)
          \/ LeaveSheet(w)
    BY DEF OnForms
  <1>4. ASSUME NEW p \in Product, OpenSheet(w, p)
        PROVE  /\ UNCHANGED <<tables, moving, entitled, saving>>
               /\ \E f \in Form : FormOf(f) /\ Shows(w, f)
    <2>. DEFINE f == [NoForm EXCEPT !.kind = "edit", !.of = p, !.seen = sheet[p],
                                    !.draft = sheet[p], !.access = w \in entitled]
    <2>0. (w \in entitled) \in BOOLEAN
      OBVIOUS
    <2>1. f \in Form
      <3>. DEFINE e(b) == [NoForm EXCEPT !.kind = "edit", !.of = p, !.seen = sheet[p],
                                        !.draft = sheet[p], !.access = b]
      <3>1. ASSUME NEW b \in BOOLEAN PROVE e(b) \in Form
        BY <1>0 DEF NoForm, Form, Or
      <3>2. f = e(w \in entitled)
        OBVIOUS
      <3>. HIDE DEF e, f
      <3>. QED BY <2>0, <3>1, <3>2
    <2>2. FormOf(f)
      BY <1>4, <1>0 DEF OpenSheet, FormOf, Tracks, NoForm, SheetsWritten, Sheet
    <2>3. Shows(w, f)
      BY <1>4 DEF OpenSheet, Opens, NoForm
    <2>. QED BY <1>4, <2>1, <2>2, <2>3 DEF OpenSheet, Opens
  <1>5. ASSUME NEW c \in Label, OpenNew(w, c)
        PROVE  /\ UNCHANGED <<tables, moving, entitled, saving>>
               /\ \E f \in Form : FormOf(f) /\ Shows(w, f)
    <2>. DEFINE f == [NoForm EXCEPT !.kind = "new", !.draft.code = c, !.draft.unit = Usual,
                                    !.access = w \in entitled]
    <2>0. (w \in entitled) \in BOOLEAN
      OBVIOUS
    <2>1. f \in Form
      <3>. DEFINE e(b) == [NoForm EXCEPT !.kind = "new", !.draft.code = c, !.draft.unit = Usual,
                                        !.access = b]
      <3>1. ASSUME NEW b \in BOOLEAN PROVE e(b) \in Form
        BY DEF NoForm, Form, Or, Missing, Sheet
      <3>2. f = e(w \in entitled)
        OBVIOUS
      <3>. HIDE DEF e, f
      <3>. QED BY <2>0, <3>1, <3>2
    <2>2. FormOf(f)
      BY DEF FormOf, NoForm, Missing
    <2>3. Shows(w, f)
      BY <1>5 DEF OpenNew, Opens, NoForm
    <2>. QED BY <1>5, <2>1, <2>2, <2>3 DEF OpenNew, Opens
  <1>6. ASSUME NEW f \in Field, NEW v \in Values(f), TypeField(w, f, v)
        PROVE  /\ UNCHANGED <<tables, moving, entitled, saving>>
               /\ \E g \in Form : FormOf(g) /\ Shows(w, g)
    <2>. DEFINE g == [editor[w] EXCEPT !.draft[f] = v]
                d == [editor[w].draft EXCEPT ![f] = v]
    <2>1. editor[w] \in Form /\ editor[w].draft \in Sheet
      BY DEF Form
    <2>2. d \in Sheet /\ d.stamp = editor[w].draft.stamp
                      /\ (editor[w].draft.code \in Label => d.code \in Label)
      BY <2>1 DEF Sheet, Field, Values, Or
    <2>3. g = [editor[w] EXCEPT !.draft = d]
      OBVIOUS
    <2>4. g \in Form /\ FormOf(g)
      BY <2>1, <2>2, <2>3, <1>1 DEF Form, FormOf, Tracks
    <2>5. Shows(w, g)
      BY <1>6 DEF TypeField
    <2>. QED BY <1>6, <2>4, <2>5 DEF TypeField
  <1>7. ASSUME LeaveSheet(w)
        PROVE  /\ UNCHANGED <<tables, moving, entitled, saving>>
               /\ \E f \in Form : FormOf(f) /\ Shows(w, f)
    <2>1. NoForm \in Form /\ FormOf(NoForm)
      BY <1>0 DEF NoForm, Form, Or, FormOf
    <2>. QED BY <1>7, <2>1 DEF LeaveSheet
  <1>. QED BY <1>2, <1>3, <1>4, <1>5, <1>6, <1>7

\* What is about a job stays while the job and the tables it looks at do.
LEMMA SameJob ==
  ASSUME NEW i \in Job, saving'[i] = saving[i], sheet' = sheet
  PROVE  /\ Before(i)' = Before(i) /\ After(i)' = After(i)
         /\ CodeLock(i)' = CodeLock(i) /\ (Held(i)' <=> Held(i))
         /\ \A p : HoldsRow(i, p)' <=> HoldsRow(i, p)
         /\ \A l : HoldsCode(i, l)' <=> HoldsCode(i, l)
         /\ categories' = categories => (CodeTaken(i)' <=> CodeTaken(i))
         /\ used' = used => (Freezes(i)' <=> Freezes(i))
  <1>1. Before(i)' = Before(i)
    BY DEF Before
  <1>2. After(i)' = After(i)
    BY <1>1 DEF After
  <1>3. CodeLock(i)' = CodeLock(i) /\ (Held(i)' <=> Held(i))
    BY DEF CodeLock, Held
  <1>4. ASSUME NEW p PROVE HoldsRow(i, p)' <=> HoldsRow(i, p)
    BY DEF HoldsRow
  <1>5. ASSUME NEW l PROVE HoldsCode(i, l)' <=> HoldsCode(i, l)
    BY <1>3 DEF HoldsCode
  <1>6. ASSUME categories' = categories PROVE CodeTaken(i)' <=> CodeTaken(i)
    BY <1>2, <1>6 DEF CodeTaken
  <1>7. ASSUME used' = used PROVE Freezes(i)' <=> Freezes(i)
    BY <1>1, <1>2, <1>7 DEF Freezes
  <1>. QED BY <1>1, <1>2, <1>3, <1>4, <1>5, <1>6, <1>7

\* It is kept by what a person does on a form, ...
LEMMA FormStepsInv == CatalogInv /\ OnForms => CatalogInv'
  <1>. SUFFICES ASSUME CatalogInv, OnForms PROVE CatalogInv'
    OBVIOUS
  <1>1. /\ UNCHANGED <<sheet, categories, used, moving, entitled, saving>>
        /\ editor' \in [Person -> Form] /\ \A w \in Person : FormOf(editor'[w])
    BY FormSteps DEF tables
  <1>2. CatalogTypeOK' /\ SheetsWritten'
    BY <1>1 DEF CatalogInv, CatalogTypeOK, SheetsWritten
  <1>3. FormsFollow'
    BY <1>1 DEF CatalogInv, FormsFollow, FormOf, Tracks
  <1>4. RowsStill' /\ CodesStill' /\ CodesDistinct'
    BY <1>1, SameJob DEF CatalogInv, RowsStill, CodesStill, CodesDistinct
  <1>. QED BY <1>2, <1>3, <1>4 DEF CatalogInv

\* The job a form sends.
Sending(w) ==
  [NoJob EXCEPT !.kind = editor[w].kind, !.stage = "begun", !.of = editor[w].of,
     !.by = w, !.seen = editor[w].seen, !.wants = editor[w].draft,
     !.sends = editor[w].access, !.could = w \in entitled]

\* ... by the form being sent, ...
LEMMA SendInv ==
  ASSUME CatalogInv, NEW w \in Person, NEW j \in Job, Send(w, j)
  PROVE  CatalogInv'
  <1>0. /\ editor[w] \in Form /\ editor[w].kind \in {"edit", "new"} /\ Missing \in Sheet
        /\ FormOf(editor[w]) /\ saving[j] = NoJob
    BY CatalogAssumption DEF CatalogInv, CatalogTypeOK, Form, Send, FormsFollow, FormOf, Missing,
        Sheet, Or
  <1>1. /\ UNCHANGED <<sheet, categories, used, moving, entitled>>
        /\ saving' = [saving EXCEPT ![j] = Sending(w)]
        /\ editor' = [editor EXCEPT ![w] = [editor[w] EXCEPT !.sent = j]]
    BY DEF Send, Shows, Sending, tables
  <1>2. Sending(w) \in Saving
    <2>. DEFINE e(b) == [NoJob EXCEPT !.kind = editor[w].kind, !.stage = "begun", !.of = editor[w].of,
                          !.by = w, !.seen = editor[w].seen, !.wants = editor[w].draft,
                          !.sends = editor[w].access, !.could = b]
    <2>1. ASSUME NEW b \in BOOLEAN PROVE e(b) \in Saving
      BY <1>0 DEF NoJob, Saving, Form, Or
    <2>2. Sending(w) = e(w \in entitled)
      BY DEF Sending
    <2>3. (w \in entitled) \in BOOLEAN
      OBVIOUS
    <2>. HIDE DEF e
    <2>. QED BY <2>1, <2>2, <2>3
  <1>3. /\ Sending(w).kind = editor[w].kind /\ Sending(w).stage = "begun"
        /\ Sending(w).of = editor[w].of /\ Sending(w).by = w
        /\ Sending(w).seen = editor[w].seen /\ Sending(w).wants = editor[w].draft
        /\ Sending(w).could <=> w \in entitled
    BY DEF Sending, NoJob
  <1>4. /\ saving'[j] = Sending(w) /\ saving' \in [Job -> Saving]
        /\ \A i \in Job \ {j} : saving'[i] = saving[i]
    BY <1>1, <1>2 DEF CatalogInv, CatalogTypeOK
  <1>5. CatalogTypeOK' /\ SheetsWritten'
    BY <1>0, <1>1, <1>4 DEF CatalogInv, CatalogTypeOK, SheetsWritten, Form, Or
  <1>6. FormsFollow'
    BY <1>0, <1>1, <1>3, <1>4 DEF CatalogInv, CatalogTypeOK, FormsFollow, FormOf, Tracks
  <1>7. RowsStill'
    BY <1>0, <1>1, <1>3, <1>4, SameJob DEF CatalogInv, RowsStill, Held, HoldsRow
  <1>8. CodesStill'
    BY <1>0, <1>1, <1>3, <1>4, SameJob DEF CatalogInv, CodesStill, HoldsCode
  <1>9. CodesDistinct'
    BY <1>1 DEF CatalogInv, CodesDistinct
  <1>. QED BY <1>5, <1>6, <1>7, <1>8, <1>9 DEF CatalogInv

\* ... by a category being sent, ...
LEMMA SendCategoryInv ==
  ASSUME CatalogInv, NEW w \in Person, NEW j \in Job, NEW c \in Label, SendCategory(w, j, c)
  PROVE  CatalogInv'
  <1>. DEFINE new == [NoJob EXCEPT !.kind = "category", !.stage = "held", !.by = w, !.wants.code = c]
  <1>1. /\ UNCHANGED <<sheet, categories, used, moving, entitled, editor>>
        /\ saving' = [saving EXCEPT ![j] = new]
    BY DEF SendCategory, tables
  <1>2. /\ new \in Saving /\ new.kind = "category" /\ new.stage = "held" /\ new.of = Blank
        /\ new.wants.code = c
    BY DEF NoJob, Missing, Saving, Sheet, Or
  <1>. HIDE DEF new
  <1>4. /\ saving'[j] = new /\ saving' \in [Job -> Saving]
        /\ \A i \in Job \ {j} : saving'[i] = saving[i]
    BY <1>1, <1>2 DEF CatalogInv, CatalogTypeOK
  <1>5. CatalogTypeOK' /\ SheetsWritten'
    BY <1>1, <1>4 DEF CatalogInv, CatalogTypeOK, SheetsWritten
  <1>6. FormsFollow'
    BY <1>1, <1>2, <1>4 DEF CatalogInv, FormsFollow, Tracks
  <1>7. RowsStill'
    BY <1>1, <1>2, <1>4, SameJob DEF CatalogInv, RowsStill, Held, HoldsRow
  <1>8. CodesStill'
    BY <1>1, <1>2, <1>4, SameJob DEF CatalogInv, CodesStill, HoldsCode
  <1>9. CodesDistinct'
    BY <1>1 DEF CatalogInv, CodesDistinct
  <1>. QED BY <1>5, <1>6, <1>7, <1>8, <1>9 DEF CatalogInv

\* The end of a job: its form goes on or is left, the job is gone.
LEMMA FinishSteps ==
  ASSUME CatalogInv, NEW j \in Job, NEW saved \in BOOLEAN, Finish(j, saved)
  PROVE  /\ saving' \in [Job -> Saving] /\ saving'[j] = NoJob
         /\ \A i \in Job \ {j} : saving'[i] = saving[i]
         /\ editor' \in [Person -> Form] /\ \A w \in Person : FormOf(editor'[w])
  <1>1. NoJob \in Saving /\ NoForm \in Form
    BY DEF NoJob, NoForm, Missing, Saving, Form, Sheet, Or
  <1>2. ASSUME NEW w \in Person PROVE editor'[w] \in Form /\ FormOf(editor'[w])
    <2>1. editor[w] \in Form /\ FormOf(editor[w]) /\ FormOf(NoForm)
      BY DEF CatalogInv, CatalogTypeOK, FormsFollow, FormOf, NoForm
    <2>2. editor'[w] \in {editor[w], NoForm, [editor[w] EXCEPT !.sent = Blank]}
      BY DEF Finish
    <2>3. [editor[w] EXCEPT !.sent = Blank] \in Form /\ FormOf([editor[w] EXCEPT !.sent = Blank])
      BY <2>1 DEF Form, FormOf, Or
    <2>. QED BY <1>1, <2>1, <2>2, <2>3
  <1>3. saving' = [saving EXCEPT ![j] = NoJob]
    BY DEF Finish
  <1>4. editor' = [w \in Person |-> editor'[w]]
    BY DEF Finish
  <1>. QED BY <1>1, <1>2, <1>3, <1>4 DEF CatalogInv, CatalogTypeOK

\* It is kept by a transaction that ends without writing, ...
LEMMA RefusedInv ==
  ASSUME CatalogInv, NEW j \in Job, Refused(j)
  PROVE  CatalogInv'
  <1>1. /\ UNCHANGED <<sheet, categories, used, moving, entitled>> /\ Finish(j, FALSE)
    BY DEF Refused, tables
  <1>2. /\ saving' \in [Job -> Saving] /\ saving'[j] = NoJob
        /\ \A i \in Job \ {j} : saving'[i] = saving[i]
        /\ editor' \in [Person -> Form] /\ \A w \in Person : FormOf(editor'[w])
    BY <1>1, FinishSteps
  <1>3. NoJob.kind = "none" /\ NoJob.stage = "none"
    BY DEF NoJob
  <1>5. CatalogTypeOK' /\ SheetsWritten'
    BY <1>1, <1>2 DEF CatalogInv, CatalogTypeOK, SheetsWritten
  <1>6. FormsFollow'
    BY <1>1, <1>2, <1>3 DEF CatalogInv, FormsFollow, FormOf, Tracks
  <1>7. RowsStill'
    BY <1>1, <1>2, <1>3, SameJob DEF CatalogInv, RowsStill, Held, HoldsRow
  <1>8. CodesStill'
    BY <1>1, <1>2, <1>3, SameJob DEF CatalogInv, CodesStill, HoldsCode
  <1>9. CodesDistinct'
    BY <1>1 DEF CatalogInv, CodesDistinct
  <1>. QED BY <1>5, <1>6, <1>7, <1>8, <1>9 DEF CatalogInv

\* A job that reaches its next stage is otherwise as it was.
LEMMA ProceedsSteps ==
  ASSUME CatalogInv, NEW j \in Job, NEW stage \in {"held", "checked"}, Proceeds(j, stage),
         saving[j].kind # "none"
  PROVE  /\ UNCHANGED <<sheet, categories, used, moving, entitled, editor>>
         /\ CatalogTypeOK' /\ SheetsWritten' /\ FormsFollow' /\ CodesDistinct'
         /\ \A i \in Job \ {j} : saving'[i] = saving[i]
         /\ saving'[j].stage = stage /\ saving'[j].kind = saving[j].kind
         /\ saving'[j].of = saving[j].of /\ saving'[j].seen = saving[j].seen
         /\ saving'[j].could = saving[j].could
         /\ Before(j)' = Before(j) /\ After(j)' = After(j) /\ CodeLock(j)' = CodeLock(j)
         /\ CodeTaken(j)' <=> CodeTaken(j)
         /\ Freezes(j)' <=> Freezes(j)
  <1>1. /\ UNCHANGED <<sheet, categories, used, moving, entitled, editor>>
        /\ saving' = [saving EXCEPT ![j].stage = stage]
    BY DEF Proceeds, Reaches, tables
  <1>2. saving \in [Job -> Saving]
    BY DEF CatalogInv, CatalogTypeOK
  <1>3. /\ saving' \in [Job -> Saving] /\ \A i \in Job \ {j} : saving'[i] = saving[i]
        /\ saving'[j] = [saving[j] EXCEPT !.stage = stage]
    BY <1>1, <1>2 DEF Saving
  <1>4. /\ saving'[j].stage = stage /\ saving'[j].kind = saving[j].kind
        /\ saving'[j].of = saving[j].of /\ saving'[j].seen = saving[j].seen
        /\ saving'[j].could = saving[j].could /\ saving'[j].wants = saving[j].wants
        /\ saving'[j].sends = saving[j].sends /\ saving'[j].by = saving[j].by
    BY <1>2, <1>3 DEF Saving
  <1>5. Before(j)' = Before(j) /\ CodeLock(j)' = CodeLock(j)
    BY <1>1, <1>4 DEF Before, CodeLock
  <1>6. After(j)' = After(j)
    BY <1>4, <1>5 DEF After
  <1>7. (CodeTaken(j)' <=> CodeTaken(j)) /\ (Freezes(j)' <=> Freezes(j))
    BY <1>1, <1>4, <1>5, <1>6 DEF CodeTaken, Freezes
  <1>8. CatalogTypeOK' /\ SheetsWritten' /\ CodesDistinct'
    BY <1>1, <1>3 DEF CatalogInv, CatalogTypeOK, SheetsWritten, CodesDistinct
  <1>9. FormsFollow'
    BY <1>1, <1>3, <1>4 DEF CatalogInv, FormsFollow, Tracks
  <1>. QED BY <1>1, <1>3, <1>4, <1>5, <1>6, <1>7, <1>8, <1>9

\* ... by the lock of a row: what is read under it is what the form had shown, ...
LEMMA LockRowInv ==
  ASSUME CatalogInv, NEW j \in Job, LockRow(j)
  PROVE  CatalogInv'
  <1>1. CASE ~(Expected(j) /\ MayWrite(j))
    BY <1>1, RefusedInv DEF LockRow
  <1>2. CASE Expected(j) /\ MayWrite(j)
    <2>0. /\ saving[j].stage = "begun" /\ saving[j].kind # "none" /\ Proceeds(j, "held")
          /\ saving[j].kind = "edit" => RowFree(saving[j].of)
      BY <1>2 DEF LockRow, CatalogInv, FormsFollow
    <2>1. /\ UNCHANGED <<sheet, categories, used, moving, entitled, editor>>
          /\ CatalogTypeOK' /\ SheetsWritten' /\ FormsFollow' /\ CodesDistinct'
          /\ \A i \in Job \ {j} : saving'[i] = saving[i]
          /\ saving'[j].stage = "held" /\ saving'[j].kind = saving[j].kind
          /\ saving'[j].of = saving[j].of /\ saving'[j].seen = saving[j].seen
          /\ saving'[j].could = saving[j].could
          /\ Before(j)' = Before(j) /\ After(j)' = After(j)
      BY <2>0, ProceedsSteps
    <2>6. \A i \in Job \ {j} : Before(i)' = Before(i) /\ After(i)' = After(i)
      BY <2>1, SameJob
    <2>8. ASSUME NEW k \in Job \ {j}, NEW p \in Product, ~HoldsRow(k, p) PROVE ~HoldsRow(k, p)'
      BY <2>1, <2>8 DEF HoldsRow
    <2>2. ASSUME saving[j].kind = "edit"
          PROVE  /\ saving[j].seen = sheet[saving[j].of]
                 /\ \A d \in Document : saving[j].of \notin moving[d]
                 /\ \A i \in Job : ~HoldsRow(i, saving[j].of)
      BY <1>2, <2>0, <2>2 DEF CatalogInv, FormsFollow, Tracks, Expected, Before, RowFree
    <2>3. saving[j].kind # "category" /\ After(j).specs # Before(j).specs => saving[j].could
      BY <1>2, <2>0 DEF MayWrite, CatalogInv, FormsFollow, CatalogTypeOK, Saving
    <2>7. \A i \in Job : Held(i) /\ saving[i].kind # "category" /\ After(i).specs # Before(i).specs
                         => saving[i].could
      BY DEF CatalogInv, RowsStill
    <2>4. RowsStill'
      <3>1. ASSUME NEW i \in Job, Held(i)', saving'[i].kind = "edit"
            PROVE  /\ saving'[i].seen = sheet'[saving'[i].of]
                   /\ \A d \in Document : saving'[i].of \notin moving'[d]
                   /\ \A k \in Job \ {i} : ~HoldsRow(k, saving[i].of)'
        <4>1. CASE i = j
          <5>1. saving[j].of \in Product
            BY <2>1, <3>1, <4>1 DEF CatalogInv, FormsFollow, Tracks
          <5>. QED BY <2>1, <2>2, <2>8, <3>1, <4>1, <5>1
        <4>2. CASE i # j
          <5>1. Held(i) /\ HoldsRow(i, saving[i].of) /\ saving'[i] = saving[i]
            BY <2>1, <3>1, <4>2 DEF HoldsRow, Held
          <5>2. saving[j].kind = "edit" => saving[j].of # saving[i].of
            BY <2>2, <5>1
          <5>3. ASSUME NEW k \in Job \ {i} PROVE ~HoldsRow(k, saving[i].of)'
            <6>1. CASE k = j
              BY <2>1, <5>1, <5>2, <6>1 DEF HoldsRow
            <6>2. CASE k # j
              <7>1. saving[i].of \in Product /\ ~HoldsRow(k, saving[i].of)
                BY <3>1, <5>1 DEF CatalogInv, RowsStill, FormsFollow, Tracks
              <7>. QED BY <2>1, <5>1, <6>2, <7>1 DEF HoldsRow
            <6>. QED BY <6>1, <6>2
          <5>. QED BY <2>1, <3>1, <5>1, <5>3 DEF CatalogInv, RowsStill
        <4>. QED BY <4>1, <4>2
      <3>2. ASSUME NEW i \in Job, Held(i)', saving'[i].kind # "category",
                   After(i)'.specs # Before(i)'.specs
            PROVE  saving'[i].could
        <4>1. CASE i = j
          BY <2>1, <2>3, <3>2, <4>1
        <4>2. CASE i # j
          BY <2>1, <2>6, <2>7, <3>2, <4>2 DEF Held
        <4>. QED BY <4>1, <4>2
      <3>. QED BY <3>1, <3>2 DEF RowsStill
    <2>5. CodesStill'
      BY <2>1, SameJob DEF CatalogInv, CodesStill, HoldsCode
    <2>. QED BY <2>1, <2>4, <2>5 DEF CatalogInv
  <1>. QED BY <1>1, <1>2 DEF LockRow

\* ... by the lock of a code: nobody else has checked it, ...
LEMMA LockCodeInv ==
  ASSUME CatalogInv, NEW j \in Job, LockCode(j)
  PROVE  CatalogInv'
  <1>1. CASE Refused(j)
    BY <1>1, RefusedInv
  <1>2. CASE Proceeds(j, "checked") /\ ~CodeTaken(j) /\ ~Freezes(j)
    <2>0. /\ saving[j].stage = "held" /\ saving[j].kind # "none"
          /\ \A i \in Job : ~HoldsCode(i, CodeLock(j))
      BY DEF LockCode, CatalogInv, FormsFollow
    <2>1. /\ UNCHANGED <<sheet, categories, used, moving, entitled, editor>>
          /\ CatalogTypeOK' /\ SheetsWritten' /\ FormsFollow' /\ CodesDistinct'
          /\ \A i \in Job \ {j} : saving'[i] = saving[i]
          /\ saving'[j].stage = "checked" /\ saving'[j].kind = saving[j].kind
          /\ saving'[j].of = saving[j].of /\ saving'[j].seen = saving[j].seen
          /\ saving'[j].could = saving[j].could
          /\ Before(j)' = Before(j) /\ After(j)' = After(j) /\ CodeLock(j)' = CodeLock(j)
          /\ (CodeTaken(j)' <=> CodeTaken(j)) /\ (Freezes(j)' <=> Freezes(j))
      BY <1>2, <2>0, ProceedsSteps
    <2>2. /\ \A i \in Job : Held(i)' <=> Held(i)
          /\ \A i \in Job : \A p : HoldsRow(i, p)' <=> HoldsRow(i, p)
          /\ \A i \in Job : Before(i)' = Before(i) /\ After(i)' = After(i)
          /\ \A i \in Job : CodeLock(i)' = CodeLock(i)
          /\ \A i \in Job : (CodeTaken(i)' <=> CodeTaken(i)) /\ (Freezes(i)' <=> Freezes(i))
      BY <2>0, <2>1, SameJob DEF Held, HoldsRow
    <2>3. /\ \A i \in Job : /\ saving'[i].seen = saving[i].seen /\ saving'[i].of = saving[i].of
                            /\ saving'[i].kind = saving[i].kind /\ saving'[i].could = saving[i].could
      BY <2>1
    <2>4. RowsStill'
      BY <2>1, <2>2, <2>3 DEF CatalogInv, RowsStill
    <2>5. CodesStill'
      <3>. SUFFICES ASSUME NEW i \in Job, saving'[i].stage = "checked"
                    PROVE  /\ ~CodeTaken(i)' /\ ~Freezes(i)'
                           /\ \A k \in Job \ {i} : ~HoldsCode(k, CodeLock(i))'
        BY DEF CodesStill
      <3>1. CASE i = j
        <4>1. ASSUME NEW k \in Job \ {j} PROVE ~HoldsCode(k, CodeLock(j))'
          BY <2>0, <2>1, <2>2 DEF HoldsCode
        <4>. QED BY <1>2, <2>1, <3>1, <4>1
      <3>2. CASE i # j
        <4>1. saving[i].stage = "checked" /\ CodeLock(i) # CodeLock(j)
          BY <2>0, <2>1, <3>2 DEF HoldsCode
        <4>2. ~CodeTaken(i) /\ ~Freezes(i) /\ \A k \in Job \ {i} : ~HoldsCode(k, CodeLock(i))
          BY <4>1 DEF CatalogInv, CodesStill
        <4>3. ASSUME NEW k \in Job \ {i} PROVE ~HoldsCode(k, CodeLock(i))'
          BY <2>1, <2>2, <4>1, <4>2 DEF HoldsCode
        <4>. QED BY <2>2, <4>2, <4>3
      <3>. QED BY <3>1, <3>2
    <2>. QED BY <2>1, <2>4, <2>5 DEF CatalogInv
  <1>. QED BY <1>1, <1>2 DEF LockCode

\* ... by documents, which wait for a locked row, ...
LEMMA DocumentsInv ==
  ASSUME CatalogInv, NEW d \in Document, EndDocument(d) \/ \E p \in Product : WriteAbout(d, p)
  PROVE  CatalogInv'
  <1>1. /\ UNCHANGED <<sheet, categories, entitled, saving, editor>>
        /\ moving' \in [Document -> SUBSET Product]
        /\ used' \in SUBSET Product /\ used \subseteq used'
    BY DEF EndDocument, WriteAbout, tables, CatalogInv, CatalogTypeOK
  <1>2. ASSUME NEW j \in Job, HoldsRow(j, saving[j].of)
        PROVE  /\ \A e \in Document : saving[j].of \notin moving'[e]
               /\ saving[j].of \in used' => saving[j].of \in used
    <2>1. \A e \in Document : saving[j].of \notin moving[e]
      BY <1>2 DEF HoldsRow, CatalogInv, RowsStill, Held
    <2>. QED BY <1>2, <2>1 DEF EndDocument, WriteAbout, tables, CatalogInv, CatalogTypeOK
  <1>3. /\ \A p \in used' : IsSheet(sheet[p])
        /\ \A e \in Document : \A p \in moving'[e] : IsSheet(sheet[p])
    BY DEF EndDocument, WriteAbout, tables, CatalogInv, CatalogTypeOK, SheetsWritten
  <1>4. CatalogTypeOK' /\ SheetsWritten' /\ FormsFollow' /\ CodesDistinct'
    BY <1>1, <1>3 DEF CatalogInv, CatalogTypeOK, SheetsWritten, FormsFollow, Tracks, CodesDistinct
  <1>5. RowsStill'
    BY <1>1, <1>2, SameJob DEF CatalogInv, RowsStill, HoldsRow, Held
  <1>6. ASSUME NEW j \in Job, saving[j].stage = "checked", Freezes(j)' PROVE Freezes(j)
    BY <1>1, <1>2, <1>6, SameJob DEF Freezes, HoldsRow
  <1>7. CodesStill'
    BY <1>1, <1>6, SameJob DEF CatalogInv, CodesStill
  <1>. QED BY <1>4, <1>5, <1>7 DEF CatalogInv

\* ... and by changes of permissions.
LEMMA AccessInv ==
  ASSUME CatalogInv, NEW w \in Person, ChangeAccess(w)
  PROVE  CatalogInv'
  <1>1. /\ UNCHANGED <<sheet, categories, used, moving, editor>>
        /\ entitled' \in SUBSET Person /\ \A v \in Person \ {w} : v \in entitled' <=> v \in entitled
    BY DEF ChangeAccess, tables, CatalogInv, CatalogTypeOK
  <1>2. ASSUME NEW j \in Job
        PROVE  /\ saving'[j] \in Saving
               /\ saving'[j].kind = saving[j].kind /\ saving'[j].stage = saving[j].stage
               /\ saving'[j].of = saving[j].of /\ saving'[j].by = saving[j].by
               /\ saving'[j].seen = saving[j].seen /\ saving'[j].wants = saving[j].wants
               /\ saving'[j].sends = saving[j].sends
               /\ saving[j].could \/ saving[j].by = w => saving'[j].could
    <2>1. saving[j] \in Saving
      BY DEF CatalogInv, CatalogTypeOK
    <2>2. saving'[j] = IF saving[j].by = w THEN [saving[j] EXCEPT !.could = TRUE] ELSE saving[j]
      BY DEF ChangeAccess
    <2>. QED BY <2>1, <2>2 DEF Saving
  <1>3. saving' \in [Job -> Saving]
    <2>1. saving' = [j \in Job |-> saving'[j]]
      BY DEF ChangeAccess
    <2>. QED BY <1>2, <2>1
  <1>4. CatalogTypeOK' /\ SheetsWritten' /\ CodesDistinct'
    BY <1>1, <1>3 DEF CatalogInv, CatalogTypeOK, SheetsWritten, CodesDistinct
  <1>5. FormsFollow'
    <2>1. ASSUME NEW j \in Job, saving'[j].kind \in {"edit", "new"}, saving'[j].by \in entitled'
          PROVE  saving'[j].could
      BY <1>1, <1>2, <2>1 DEF CatalogInv, FormsFollow, CatalogTypeOK
    <2>. QED BY <1>1, <1>2, <2>1 DEF CatalogInv, FormsFollow, Tracks
  <1>6. ASSUME NEW j \in Job
        PROVE  /\ Before(j)' = Before(j) /\ After(j)' = After(j) /\ CodeLock(j)' = CodeLock(j)
               /\ (Held(j)' <=> Held(j)) /\ (\A p : HoldsRow(j, p)' <=> HoldsRow(j, p))
    <2>1. Before(j)' = Before(j)
      BY <1>1, <1>2 DEF Before
    <2>. QED BY <1>2, <2>1 DEF After, CodeLock, Held, HoldsRow
  <1>7. ASSUME NEW j \in Job
        PROVE  /\ CodeTaken(j)' <=> CodeTaken(j)
               /\ Freezes(j)' <=> Freezes(j)
               /\ \A l : HoldsCode(j, l)' <=> HoldsCode(j, l)
    BY <1>1, <1>2, <1>6 DEF CodeTaken, Freezes, HoldsCode
  <1>8. RowsStill'
    BY <1>1, <1>2, <1>6 DEF CatalogInv, RowsStill
  <1>9. CodesStill'
    BY <1>2, <1>6, <1>7 DEF CatalogInv, CodesStill
  <1>. QED BY <1>4, <1>5, <1>8, <1>9 DEF CatalogInv

\* A row is written by a job that has checked: a step of rows, codes and forms.
LEMMA RowWritten ==
  ASSUME CatalogInv, NEW j \in Job, saving[j].stage = "checked", saving[j].kind # "category",
         Finish(j, TRUE), UNCHANGED <<moving, entitled, categories>>,
         NEW p \in Product, NEW row \in Sheet, IsSheet(row),
         row.code = saving[j].wants.code, row.code \in Label, row.stamp = sheet[p].stamp + 1,
         sheet' = [sheet EXCEPT ![p] = row], used' \in {used, used \cup {p}},
         \A q \in Product \ {p} : sheet[q].code # row.code,
         \A i \in Job \ {j} : ~HoldsRow(i, p)
  PROVE  CatalogInv'
  <1>0. /\ saving' \in [Job -> Saving] /\ saving'[j] = NoJob
        /\ \A i \in Job \ {j} : saving'[i] = saving[i]
        /\ editor' \in [Person -> Form] /\ \A w \in Person : FormOf(editor'[w])
    BY FinishSteps
  <1>1. /\ sheet' \in [Product -> Sheet] /\ sheet'[p] = row
        /\ \A q \in Product \ {p} : sheet'[q] = sheet[q]
    BY DEF CatalogInv, CatalogTypeOK
  <1>2. NoJob.kind = "none" /\ NoJob.stage = "none"
    BY DEF NoJob
  <1>3. CatalogTypeOK'
    BY <1>0, <1>1 DEF CatalogInv, CatalogTypeOK
  <1>4. SheetsWritten'
    BY <1>1 DEF CatalogInv, SheetsWritten
  <1>5. ASSUME NEW of, NEW seen \in Sheet, NEW wants, Tracks(of, seen, wants)
        PROVE  /\ of \in Product /\ IsSheet(sheet'[of])
               /\ wants.stamp = seen.stamp /\ wants.code \in Label
               /\ seen.stamp <= sheet'[of].stamp
               /\ seen.stamp = sheet'[of].stamp => seen = sheet'[of]
    <2>1. CASE of = p
      <3>1. sheet[p].stamp \in Nat /\ seen.stamp \in Nat /\ seen.stamp <= sheet[p].stamp
        BY <1>5, <2>1 DEF Tracks, CatalogInv, CatalogTypeOK, Sheet
      <3>. QED BY <1>1, <1>5, <2>1, <3>1 DEF Tracks
    <2>2. CASE of # p
      BY <1>1, <1>5, <2>2 DEF Tracks
    <2>. QED BY <2>1, <2>2
  <1>6. FormsFollow'
    <2>2. ASSUME NEW i \in Job, saving'[i].kind = "edit"
          PROVE  /\ saving'[i].of \in Product /\ IsSheet(sheet'[saving'[i].of])
                 /\ saving'[i].wants.stamp = saving'[i].seen.stamp /\ saving'[i].wants.code \in Label
                 /\ saving'[i].seen.stamp <= sheet'[saving'[i].of].stamp
                 /\ saving'[i].seen.stamp = sheet'[saving'[i].of].stamp =>
                      saving'[i].seen = sheet'[saving'[i].of]
      <3>1. saving'[i] = saving[i] /\ saving'[i].seen \in Sheet
        BY <1>0, <1>2, <2>2 DEF Saving
      <3>2. Tracks(saving'[i].of, saving'[i].seen, saving'[i].wants)
        BY <2>2, <3>1 DEF CatalogInv, FormsFollow
      <3>. QED BY <1>5, <3>1, <3>2
    <2>3. ASSUME NEW i \in Job
          PROVE  /\ saving'[i].kind \in {"new", "category"} =>
                      saving'[i].of = Blank /\ saving'[i].wants.code \in Label
                 /\ saving'[i].stage # "none" => saving'[i].kind # "none"
                 /\ saving'[i].kind \in {"edit", "new"} /\ saving'[i].by \in entitled' => saving'[i].could
      BY <1>0, <1>2 DEF CatalogInv, FormsFollow
    <2>4. ASSUME NEW w \in Person
          PROVE  /\ editor'[w].kind = "edit" =>
                      /\ editor'[w].of \in Product /\ IsSheet(sheet'[editor'[w].of])
                      /\ editor'[w].draft.stamp = editor'[w].seen.stamp /\ editor'[w].draft.code \in Label
                      /\ editor'[w].seen.stamp <= sheet'[editor'[w].of].stamp
                      /\ editor'[w].seen.stamp = sheet'[editor'[w].of].stamp =>
                           editor'[w].seen = sheet'[editor'[w].of]
                 /\ editor'[w].kind = "new" => editor'[w].of = Blank /\ editor'[w].draft.code \in Label
      <3>1. editor'[w] \in Form /\ editor'[w].seen \in Sheet /\ FormOf(editor'[w])
        BY <1>0 DEF Form
      <3>. QED BY <1>5, <3>1 DEF FormOf
    <2>. QED BY <2>2, <2>3, <2>4 DEF FormsFollow, Tracks
  <1>7. ASSUME NEW i \in Job, Held(i)', saving'[i].kind # "category"
        PROVE  /\ i # j /\ Held(i) /\ saving'[i] = saving[i]
               /\ saving[i].kind = "edit" => saving[i].of \in Product \ {p}
               /\ Before(i)' = Before(i) /\ After(i)' = After(i)
    <2>1. i # j /\ Held(i) /\ saving'[i] = saving[i]
      BY <1>0, <1>2, <1>7 DEF Held
    <2>2. saving[i].kind = "edit" => saving[i].of \in Product \ {p}
      BY <2>1 DEF HoldsRow, Held, CatalogInv, FormsFollow, Tracks
    <2>3. Before(i)' = Before(i)
      BY <1>1, <2>1, <2>2 DEF Before
    <2>. QED BY <2>1, <2>2, <2>3 DEF After
  <1>8. RowsStill'
    <2>1. ASSUME NEW i \in Job, Held(i)', saving'[i].kind = "edit"
          PROVE  /\ saving'[i].seen = sheet'[saving'[i].of]
                 /\ \A d \in Document : saving'[i].of \notin moving'[d]
                 /\ \A k \in Job \ {i} : ~HoldsRow(k, saving[i].of)'
      <3>1. ASSUME NEW k \in Job \ {i} PROVE ~HoldsRow(k, saving[i].of)'
        <4>1. saving'[i] = saving[i] /\ ~HoldsRow(k, saving[i].of)
          BY <1>7, <2>1 DEF CatalogInv, RowsStill
        <4>. QED BY <1>0, <1>2, <4>1 DEF HoldsRow
      <3>. QED BY <1>1, <1>7, <2>1, <3>1 DEF CatalogInv, RowsStill
    <2>2. ASSUME NEW i \in Job, Held(i)', saving'[i].kind # "category",
                 After(i)'.specs # Before(i)'.specs
          PROVE  saving'[i].could
      BY <1>7, <2>2 DEF CatalogInv, RowsStill
    <2>. QED BY <2>1, <2>2 DEF RowsStill
  <1>9. CodesStill'
    <2>1. ASSUME NEW i \in Job, saving'[i].stage = "checked"
          PROVE  /\ i # j /\ saving'[i] = saving[i] /\ CodeLock(i)' = CodeLock(i)
                 /\ ~CodeTaken(i) /\ ~Freezes(i)
                 /\ \A k \in Job \ {i} : ~HoldsCode(k, CodeLock(i))
      BY <1>0, <1>2, <2>1 DEF CatalogInv, CodesStill, CodeLock
    <2>2. ASSUME NEW i \in Job, saving'[i].stage = "checked", saving'[i].kind # "category"
          PROVE  After(i)' = After(i) /\ After(i).code # row.code
      <3>1. saving[i].wants.code # row.code
        BY <2>1, <2>2 DEF HoldsCode, CodeLock
      <3>2. saving[i].wants \in Sheet
        BY DEF CatalogInv, CatalogTypeOK, Saving
      <3>. QED BY <1>7, <2>2, <3>1, <3>2 DEF After, Held, Sheet
    <2>3. ASSUME NEW i \in Job, saving'[i].stage = "checked" PROVE ~CodeTaken(i)'
      <3>1. CASE saving[i].kind = "category"
        <4>1. After(i)'.code = After(i).code
          <5>1. saving[i].wants \in Sheet
            BY DEF CatalogInv, CatalogTypeOK, Saving
          <5>. QED BY <2>1, <2>3, <5>1 DEF After, Sheet
        <4>. QED BY <2>1, <2>3, <3>1, <4>1 DEF CodeTaken
      <3>2. CASE saving[i].kind # "category"
        BY <1>1, <2>1, <2>2, <2>3, <3>2 DEF CodeTaken
      <3>. QED BY <3>1, <3>2
    <2>4. ASSUME NEW i \in Job, saving'[i].stage = "checked" PROVE ~Freezes(i)'
      BY <1>7, <2>1, <2>4 DEF Freezes, Held
    <2>5. ASSUME NEW i \in Job, saving'[i].stage = "checked", NEW k \in Job \ {i}
          PROVE  ~HoldsCode(k, CodeLock(i))'
      BY <1>0, <1>2, <2>1, <2>5 DEF HoldsCode, CodeLock
    <2>. QED BY <2>3, <2>4, <2>5 DEF CodesStill
  <1>10. CodesDistinct'
    BY <1>1 DEF CatalogInv, CodesDistinct
  <1>. QED BY <1>3, <1>4, <1>6, <1>8, <1>9, <1>10 DEF CatalogInv

\* What a job writes is a sheet, one update after the one it read.
LEMMA AfterIsSheet ==
  ASSUME CatalogInv, NEW j \in Job, saving[j].kind \in {"edit", "new"}
  PROVE  /\ After(j) \in Sheet /\ IsSheet(After(j))
         /\ After(j).code = saving[j].wants.code /\ After(j).code \in Label
         /\ After(j).unit = saving[j].wants.unit /\ After(j).name = saving[j].wants.name
         /\ After(j).specs = IF saving[j].sends THEN saving[j].wants.specs ELSE Before(j).specs
         /\ After(j).stamp = Before(j).stamp + 1
  <1>1. Missing \in Sheet
    BY DEF Missing, Sheet, Or
  <1>2. Before(j) \in Sheet /\ saving[j].wants \in Sheet /\ saving[j].wants.code \in Label
    BY <1>1 DEF Before, CatalogInv, CatalogTypeOK, Saving, FormsFollow, Tracks
  <1>3. /\ After(j) \in Sheet
        /\ After(j).code = saving[j].wants.code /\ After(j).unit = saving[j].wants.unit
        /\ After(j).name = saving[j].wants.name
        /\ After(j).specs = IF saving[j].sends THEN saving[j].wants.specs ELSE Before(j).specs
        /\ After(j).stamp = Before(j).stamp + 1
    <2>. DEFINE specs == IF saving[j].sends THEN saving[j].wants.specs ELSE Before(j).specs
                stamp == Before(j).stamp + 1
    <2>1. specs \in Or(Text) /\ stamp \in Nat
      BY <1>2 DEF Sheet
    <2>2. After(j) = [saving[j].wants EXCEPT !.specs = specs, !.stamp = stamp]
      BY <1>2 DEF After, Sheet
    <2>. HIDE DEF specs, stamp
    <2>3. /\ After(j) \in Sheet
          /\ After(j).code = saving[j].wants.code /\ After(j).unit = saving[j].wants.unit
          /\ After(j).name = saving[j].wants.name
          /\ After(j).specs = specs /\ After(j).stamp = stamp
      BY <1>2, <2>1, <2>2 DEF Sheet
    <2>. QED BY <2>3 DEF specs, stamp
  <1>4. After(j).stamp # 0
    BY <1>2, <1>3 DEF Sheet
  <1>. QED BY <1>2, <1>3, <1>4 DEF IsSheet, Missing

\* What the locks of a job that has checked have kept still, at its save.
LEMMA SaveRow ==
  ASSUME CatalogInv, NEW j \in Job, Save(j), NEW p \in Product, sheet'[p] # sheet[p]
  PROVE  /\ sheet'[p] = After(j) /\ saving[j].kind \in {"edit", "new"} /\ saving'[j] = NoJob
         /\ Before(j) = sheet[p]
         /\ saving[j].kind = "edit" => saving[j].of = p
         /\ saving[j].kind = "new" => ~IsSheet(sheet[p])
  <1>1. saving'[j] = NoJob
    BY FinishSteps DEF Save
  <1>2. CASE SaveEdit(j)
    BY <1>1, <1>2 DEF SaveEdit, Before, CatalogInv, CatalogTypeOK, FormsFollow, Tracks
  <1>3. CASE SaveCategory(j)
    BY <1>3 DEF SaveCategory
  <1>4. ASSUME NEW q \in Product, SaveNew(j, q)
        PROVE  /\ sheet'[p] = After(j) /\ saving[j].kind = "new" /\ ~IsSheet(sheet[p])
               /\ Before(j) = sheet[p]
    BY <1>4 DEF SaveNew, Before, IsSheet, CatalogInv, CatalogTypeOK
  <1>. QED BY <1>1, <1>2, <1>3, <1>4 DEF Save

\* It is kept by a save, whose row or category no other transaction is about.
LEMMA SaveInv ==
  ASSUME CatalogInv, NEW j \in Job, Save(j)
  PROVE  CatalogInv'
  <1>. USE CatalogAssumption
  <1>0. /\ saving[j].stage = "checked" /\ Finish(j, TRUE) /\ UNCHANGED <<moving, entitled>>
        /\ ~CodeTaken(j) /\ \A i \in Job \ {j} : ~HoldsCode(i, CodeLock(j))
        /\ HoldsRow(j, saving[j].of) <=> saving[j].kind = "edit"
    BY DEF Save, CatalogInv, CodesStill, HoldsRow
  <1>1. CASE SaveEdit(j)
    <2>. DEFINE p == saving[j].of
    <2>1. p \in Product /\ saving[j].kind = "edit" /\ Before(j) = sheet[p]
      BY <1>1 DEF SaveEdit, Before, CatalogInv, FormsFollow, Tracks
    <2>2. \A i \in Job \ {j} : ~HoldsRow(i, p)
      BY <1>0, <2>1 DEF CatalogInv, RowsStill, Held
    <2>3. /\ After(j) \in Sheet /\ IsSheet(After(j)) /\ After(j).stamp = sheet[p].stamp + 1
          /\ After(j).code = saving[j].wants.code /\ After(j).code \in Label
      BY <2>1, AfterIsSheet
    <2>4. \A q \in Product \ {p} : sheet[q].code # After(j).code
      BY <1>0, <2>1 DEF CodeTaken
    <2>5. /\ sheet' = [sheet EXCEPT ![p] = After(j)] /\ UNCHANGED categories
          /\ used' \in {used, used \cup {p}}
      BY <1>1 DEF SaveEdit
    <2>. HIDE DEF p
    <2>. QED BY <1>0, <2>1, <2>2, <2>3, <2>4, <2>5, RowWritten
  <1>2. ASSUME NEW p \in Product, SaveNew(j, p) PROVE CatalogInv'
    <2>1. saving[j].kind = "new" /\ saving[j].of = Blank /\ ~IsSheet(sheet[p]) /\ Before(j) = sheet[p]
      BY <1>2 DEF SaveNew, Before, IsSheet, CatalogInv, FormsFollow
    <2>2. \A i \in Job \ {j} : ~HoldsRow(i, p)
      BY <2>1 DEF HoldsRow, CatalogInv, FormsFollow, Tracks
    <2>3. /\ After(j) \in Sheet /\ IsSheet(After(j)) /\ After(j).stamp = sheet[p].stamp + 1
          /\ After(j).code = saving[j].wants.code /\ After(j).code \in Label
      BY <2>1, AfterIsSheet
    <2>4. \A q \in Product \ {p} : sheet[q].code # After(j).code
      BY <1>0, <2>1 DEF CodeTaken
    <2>5. /\ sheet' = [sheet EXCEPT ![p] = After(j)] /\ UNCHANGED categories
          /\ used' \in {used, used \cup {p}}
      BY <1>2 DEF SaveNew
    <2>. QED BY <1>0, <2>1, <2>2, <2>3, <2>4, <2>5, RowWritten
  <1>3. CASE SaveCategory(j)
    <2>. DEFINE c == After(j).code
    <2>1. /\ saving[j].kind = "category" /\ categories' = Append(categories, c)
          /\ UNCHANGED <<sheet, used>>
      BY <1>3 DEF SaveCategory
    <2>2. c = saving[j].wants.code /\ c \in Label
      <3>1. saving[j].wants \in Sheet
        BY DEF CatalogInv, CatalogTypeOK, Saving
      <3>. QED BY <2>1, <3>1 DEF After, Sheet, CatalogInv, FormsFollow
    <2>3. \A i \in 1 .. Len(categories) : categories[i] # c
      BY <1>0, <2>1 DEF CodeTaken
    <2>. HIDE DEF c
    <2>4. /\ categories' \in Seq(Label) /\ Len(categories') = Len(categories) + 1
          /\ \A i \in 1 .. Len(categories) : categories'[i] = categories[i]
          /\ categories'[Len(categories) + 1] = c /\ Len(categories) \in Nat
      BY <2>1, <2>2 DEF CatalogInv, CatalogTypeOK
    <2>5. /\ saving' \in [Job -> Saving] /\ saving'[j] = NoJob
          /\ \A i \in Job \ {j} : saving'[i] = saving[i]
          /\ editor' \in [Person -> Form] /\ \A w \in Person : FormOf(editor'[w])
      BY <1>0, FinishSteps
    <2>6. NoJob.kind = "none" /\ NoJob.stage = "none"
      BY DEF NoJob
    <2>7. CatalogTypeOK' /\ SheetsWritten'
      BY <1>0, <2>1, <2>4, <2>5 DEF CatalogInv, CatalogTypeOK, SheetsWritten
    <2>8. FormsFollow'
      BY <1>0, <2>1, <2>5, <2>6 DEF CatalogInv, FormsFollow, FormOf, Tracks
    <2>9. RowsStill'
      BY <1>0, <2>1, <2>5, <2>6, SameJob DEF CatalogInv, RowsStill, Held, HoldsRow
    <2>10. CodesDistinct'
      <3>1. \A p, q \in Product : IsSheet(sheet'[p]) /\ sheet'[p].code = sheet'[q].code => p = q
        BY <2>1 DEF CatalogInv, CodesDistinct
      <3>2. ASSUME NEW i \in 1 .. Len(categories'), NEW k \in 1 .. Len(categories'),
                   categories'[i] = categories'[k]
            PROVE  i = k
        BY <2>3, <2>4, <3>2 DEF CatalogInv, CodesDistinct
      <3>. QED BY <3>1, <3>2 DEF CodesDistinct
    <2>11. CodesStill'
      <3>1. ASSUME NEW i \in Job, saving'[i].stage = "checked"
            PROVE  /\ i # j /\ saving'[i] = saving[i] /\ CodeLock(i)' = CodeLock(i)
                   /\ ~CodeTaken(i) /\ ~Freezes(i) /\ (Freezes(i)' <=> Freezes(i))
                   /\ After(i)' = After(i) /\ CodeLock(i) # CodeLock(j)
                   /\ \A k \in Job \ {i} : ~HoldsCode(k, CodeLock(i))
        BY <1>0, <2>1, <2>5, <2>6, <3>1, SameJob DEF CatalogInv, CodesStill, HoldsCode
      <3>2. ASSUME NEW i \in Job, saving'[i].stage = "checked" PROVE ~CodeTaken(i)'
        <4>1. CASE saving[i].kind = "category"
          <5>1. After(i).code # c
            <6>1. saving[i].wants \in Sheet
              BY DEF CatalogInv, CatalogTypeOK, Saving
            <6>. QED BY <2>1, <2>2, <3>1, <3>2, <4>1, <6>1 DEF After, Sheet, CodeLock
          <5>2. \A k \in 1 .. Len(categories) : categories[k] # After(i).code
            <6>1. ~CodeTaken(i)
              BY <3>1, <3>2
            <6>. QED BY <4>1, <6>1 DEF CodeTaken
          <5>3. \A k \in 1 .. Len(categories') : categories'[k] # After(i).code
            BY <2>4, <5>1, <5>2
          <5>4. saving'[i].kind = "category" /\ After(i)' = After(i)
            BY <3>1, <3>2, <4>1
          <5>. QED BY <5>3, <5>4 DEF CodeTaken
        <4>2. CASE saving[i].kind # "category"
          <5>1. ~CodeTaken(i) /\ saving'[i] = saving[i] /\ After(i)' = After(i)
            BY <3>1, <3>2
          <5>. QED BY <2>1, <4>2, <5>1 DEF CodeTaken
        <4>. QED BY <4>1, <4>2
      <3>3. ASSUME NEW i \in Job, saving'[i].stage = "checked", NEW k \in Job \ {i}
            PROVE  ~HoldsCode(k, CodeLock(i))'
        BY <2>5, <2>6, <3>1, <3>3 DEF HoldsCode, CodeLock
      <3>4. ASSUME NEW i \in Job, saving'[i].stage = "checked" PROVE ~Freezes(i)'
        BY <3>1, <3>4
      <3>. QED BY <3>2, <3>3, <3>4 DEF CodesStill
    <2>. QED BY <2>7, <2>8, <2>9, <2>10, <2>11 DEF CatalogInv
  <1>. QED BY <1>1, <1>2, <1>3 DEF Save

\* Steps that change nothing keep it.
LEMMA StutterInv == CatalogInv /\ UNCHANGED catalogVars => CatalogInv'
  <1>. SUFFICES ASSUME CatalogInv, UNCHANGED catalogVars PROVE CatalogInv'
    OBVIOUS
  <1>1. /\ UNCHANGED <<sheet, categories, used, moving, entitled, saving>>
        /\ editor' \in [Person -> Form] /\ \A w \in Person : FormOf(editor'[w])
    BY DEF catalogVars, tables, CatalogInv, CatalogTypeOK, FormsFollow, FormOf
  <1>2. CatalogTypeOK' /\ SheetsWritten' /\ CodesDistinct'
    BY <1>1 DEF CatalogInv, CatalogTypeOK, SheetsWritten, CodesDistinct
  <1>3. FormsFollow'
    BY <1>1 DEF CatalogInv, FormsFollow, FormOf, Tracks
  <1>4. RowsStill' /\ CodesStill'
    BY <1>1, SameJob DEF CatalogInv, RowsStill, CodesStill
  <1>. QED BY <1>2, <1>3, <1>4 DEF CatalogInv

\* Every step keeps it.
LEMMA CatalogStep == CatalogInv /\ [CatalogNext]_catalogVars => CatalogInv'
  <1>. SUFFICES ASSUME CatalogInv, CatalogNext PROVE CatalogInv'
    BY StutterInv
  <1>1. CASE OnForms
    BY <1>1, FormStepsInv
  <1>2. ASSUME NEW j \in Job, LockRow(j) \/ LockCode(j) \/ Save(j) \/ Abandon(j)
        PROVE  CatalogInv'
    BY <1>2, LockRowInv, LockCodeInv, SaveInv, RefusedInv DEF Abandon
  <1>3. ASSUME NEW w \in Person, (\E j \in Job : Send(w, j)) \/ ChangeAccess(w)
                 \/ \E j \in Job, c \in Label : SendCategory(w, j, c)
        PROVE  CatalogInv'
    BY <1>3, SendInv, SendCategoryInv, AccessInv
  <1>4. ASSUME NEW d \in Document, EndDocument(d) \/ \E p \in Product : WriteAbout(d, p)
        PROVE  CatalogInv'
    BY <1>4, DocumentsInv
  <1>. QED BY <1>1, <1>2, <1>3, <1>4 DEF CatalogNext, OnForms

\* Only a save writes rows.
LEMMA OnlySaves ==
  ASSUME CatalogInv, [CatalogNext]_catalogVars, NEW p \in Product, sheet'[p] # sheet[p]
  PROVE  \E j \in Job : Save(j)
  <1>1. CASE OnForms
    BY <1>1, FormSteps DEF tables
  <1>2. ASSUME NEW j \in Job, LockRow(j) \/ LockCode(j) \/ Abandon(j) PROVE FALSE
    BY <1>2 DEF LockRow, LockCode, Abandon, Proceeds, Refused, tables
  <1>3. ASSUME NEW w \in Person, (\E j \in Job : Send(w, j)) \/ ChangeAccess(w)
                 \/ \E j \in Job, c \in Label : SendCategory(w, j, c)
        PROVE  FALSE
    BY <1>3 DEF Send, ChangeAccess, SendCategory, tables
  <1>4. ASSUME NEW d \in Document, EndDocument(d) \/ \E q \in Product : WriteAbout(d, q)
        PROVE  FALSE
    BY <1>4 DEF EndDocument, WriteAbout, tables
  <1>5. CASE UNCHANGED catalogVars
    BY <1>5 DEF catalogVars, tables
  <1>. QED BY <1>1, <1>2, <1>3, <1>4, <1>5 DEF CatalogNext, OnForms

\* A step from where it holds writes only what its form changed, with permission,
\* and neither the code nor the unit of a product with history.
LEMMA CatalogSteps ==
  ASSUME CatalogInv, [CatalogNext]_catalogVars
  PROVE  OthersKept /\ HistoryKeepsUnit /\ SpecsByEntitled
  <1>. SUFFICES ASSUME NEW p \in Product, sheet'[p] # sheet[p]
       PROVE  /\ IsSheet(sheet[p]) =>
                   \E j \in Job :
                     /\ saving[j].of = p /\ saving'[j] = NoJob
                     /\ \A f \in Field : sheet'[p][f] # sheet[p][f] =>
                          sheet'[p][f] = saving[j].wants[f] /\ saving[j].wants[f] # saving[j].seen[f]
              /\ p \in used \/ (\E d \in Document : p \in moving[d]) =>
                   sheet'[p].code = sheet[p].code /\ sheet'[p].unit = sheet[p].unit
              /\ sheet'[p].specs # sheet[p].specs =>
                   \E j \in Job : /\ saving[j].could /\ saving[j].wants.specs = sheet'[p].specs
                                  /\ saving'[j] = NoJob
    BY DEF OthersKept, HistoryKeepsUnit, SpecsByEntitled
  <1>1. PICK j \in Job : Save(j)
    BY OnlySaves
  <1>2. /\ sheet'[p] = After(j) /\ saving[j].kind \in {"edit", "new"} /\ saving'[j] = NoJob
        /\ Before(j) = sheet[p] /\ saving[j].stage = "checked"
        /\ saving[j].kind = "edit" => saving[j].of = p
        /\ saving[j].kind = "new" => ~IsSheet(sheet[p])
    BY <1>1, SaveRow DEF Save
  <1>3. /\ After(j).code = saving[j].wants.code
        /\ After(j).unit = saving[j].wants.unit /\ After(j).name = saving[j].wants.name
        /\ After(j).specs = IF saving[j].sends THEN saving[j].wants.specs ELSE Before(j).specs
    BY <1>2, AfterIsSheet
  <1>4. ASSUME saving[j].kind = "edit"
        PROVE  /\ saving[j].of = p /\ saving[j].seen = sheet[p]
               /\ \A d \in Document : p \notin moving[d]
    BY <1>2, <1>4 DEF CatalogInv, RowsStill, Held
  <1>5. ASSUME NEW f \in Field, sheet'[p][f] # sheet[p][f]
        PROVE  sheet'[p][f] = saving[j].wants[f]
    BY <1>2, <1>3, <1>5 DEF Field
  <1>6. IsSheet(sheet[p]) =>
          /\ saving[j].of = p /\ saving'[j] = NoJob
          /\ \A f \in Field : sheet'[p][f] # sheet[p][f] =>
               sheet'[p][f] = saving[j].wants[f] /\ saving[j].wants[f] # saving[j].seen[f]
    BY <1>2, <1>4, <1>5
  <1>7. p \in used \/ (\E d \in Document : p \in moving[d]) =>
          sheet'[p].code = sheet[p].code /\ sheet'[p].unit = sheet[p].unit
    <2>1. CASE saving[j].kind = "new"
      BY <1>2, <2>1 DEF CatalogInv, SheetsWritten
    <2>2. CASE saving[j].kind = "edit"
      BY <1>2, <1>4, <2>2 DEF CatalogInv, CodesStill, Freezes
    <2>. QED BY <1>2, <2>1, <2>2
  <1>8. sheet'[p].specs # sheet[p].specs =>
          saving[j].could /\ saving[j].wants.specs = sheet'[p].specs /\ saving'[j] = NoJob
    BY <1>2, <1>3 DEF CatalogInv, RowsStill, Held
  <1>. QED BY <1>6, <1>7, <1>8

\* The code locks, the row locks and the stamps do what the transactions of the
\* catalogue rely on (ProductWriteService), at every moment.
THEOREM CatalogHolds == CatalogSpec => []CatalogInv
  BY InitCatalogInv, CatalogStep, PTL DEF CatalogSpec

\* Edits of the catalogue never overwrite each other, nor the code and unit a
\* document knows, nor specifications without permission (ProductWriteService).
THEOREM CatalogAlwaysKept == CatalogSpec => CatalogKept
  <1>1. ASSUME CatalogInv, CatalogInv', [CatalogNext]_catalogVars
        PROVE  [OthersKept /\ HistoryKeepsUnit /\ SpecsByEntitled /\ CodesDistinct']_catalogVars
    BY <1>1, CatalogSteps DEF CatalogInv
  <1>. QED BY <1>1, CatalogHolds, PTL DEF CatalogSpec, CatalogKept

-----------------------------------------------------------------------------

\* What an export has read of some of its lists.
Partial(values) == UNION {[D -> values] : D \in SUBSET Lists}

Exports ==
  [step : {"counting", "reading", "answered", "too large"},
   counts : Partial(Nat), rows : Partial(SUBSET Reported)]

ExportTypeOK ==
  /\ stocked \subseteq catalog /\ catalog \subseteq Reported
  /\ export \in {NoExport} \cup Exports
  /\ atRead \in Partial(SUBSET Reported)

\* A list was read whole, or one row beyond the limit.
WholeOrProbe ==
  export # NoExport =>
    /\ DOMAIN atRead = DOMAIN export.rows
    /\ \A list \in DOMAIN atRead :
         export.rows[list] = atRead[list] \/ Cardinality(export.rows[list]) = Probe

ExportInv == ExportTypeOK /\ WholeOrProbe /\ ExportNotCut

LEMMA SumWithin ==
  ASSUME NEW m \in Nat, NEW n \in Nat, m + n <= Limit
  PROVE  m # Limit + 1 /\ n # Limit + 1
  BY LimitAssumption

\* The empty reading, and one list more of a reading.
LEMMA EmptyPartial ==
  ASSUME NEW V
  PROVE  <<>> \in Partial(V) /\ DOMAIN <<>> = {}
  <1>1. <<>> \in [{} -> V]
    OBVIOUS
  <1>2. DOMAIN <<>> = {}
    OBVIOUS
  <1>. QED BY <1>1, <1>2 DEF Partial

LEMMA WithExtends ==
  ASSUME NEW V, NEW f \in Partial(V), NEW list \in Lists, NEW v \in V
  PROVE  With(f, list, v) \in Partial(V)
  <1>1. PICK D \in SUBSET Lists : f \in [D -> V]
    BY DEF Partial
  <1>2. With(f, list, v) \in [D \cup {list} -> V]
    BY <1>1 DEF With
  <1>3. D \cup {list} \in SUBSET Lists
    OBVIOUS
  <1>. QED BY <1>2, <1>3 DEF Partial

LEMMA CountingTyped ==
  ASSUME NEW c \in Partial(Nat), NEW d \in Partial(SUBSET Reported)
  PROVE  [step |-> "counting", counts |-> c, rows |-> d] \in Exports
  BY DEF Exports

\* Other requests write while an export is under way.
LEMMA OthersWrite ==
  ASSUME ExportInv,
         \E p \in Reported : NewProduct(p) \/ FirstBalance(p)
  PROVE  ExportInv'
  <1>1. UNCHANGED <<export, atRead>>
    BY DEF NewProduct, FirstBalance
  <1>2. stocked' \subseteq catalog' /\ catalog' \subseteq Reported
    BY DEF NewProduct, FirstBalance, ExportInv, ExportTypeOK
  <1>. QED BY <1>1, <1>2 DEF ExportInv, ExportTypeOK, WholeOrProbe, ExportNotCut, Answered

LEMMA BeginKeeps ==
  ASSUME ExportInv, BeginExport \/ LeaveExport
  PROVE  ExportInv'
  <1>1. atRead' = <<>> /\ UNCHANGED <<catalog, stocked>>
    BY DEF BeginExport, LeaveExport
  <1>2. export' = NoExport \/ export' = [step |-> "counting", counts |-> <<>>, rows |-> <<>>]
    BY DEF BeginExport, LeaveExport
  <1>3. <<>> \in Partial(Nat) /\ <<>> \in Partial(SUBSET Reported) /\ DOMAIN <<>> = {}
    BY EmptyPartial
  <1>4. export' \in {NoExport} \cup Exports
    <2>1. [step |-> "counting", counts |-> <<>>, rows |-> <<>>] \in Exports
      BY <1>3, CountingTyped, Zenon
    <2>. QED BY <1>2, <2>1
  <1>7. ExportTypeOK'
    BY <1>1, <1>3, <1>4 DEF ExportInv, ExportTypeOK
  <1>5. WholeOrProbe'
    BY <1>1, <1>2, <1>3 DEF WholeOrProbe
  <1>6. ExportNotCut'
    BY <1>2 DEF ExportNotCut, Answered, NoExport
  <1>. QED BY <1>5, <1>6, <1>7 DEF ExportInv

LEMMA CountKeeps ==
  ASSUME ExportInv, NEW list \in Lists, Count(list)
  PROVE  ExportInv'
  <1>. DEFINE n == Cardinality(Rows(list))
  <1>0. catalog \subseteq Reported /\ stocked \subseteq catalog
    BY DEF ExportInv, ExportTypeOK
  <1>1. n \in Nat
    <2>1. IsFiniteSet(Rows(list))
      BY <1>0, LimitAssumption, FS_Subset DEF Rows
    <2>. QED BY <2>1, FS_CardinalityType
  <1>. HIDE DEF n
  <1>2. export # NoExport
    BY DEF Count, NoExport
  <1>3. export' = [export EXCEPT !.counts = With(export.counts, list, n)]
        /\ UNCHANGED <<catalog, stocked, atRead>> /\ export.step = "counting"
    BY DEF Count, n
  <1>4. export \in Exports
    BY <1>2 DEF ExportInv, ExportTypeOK
  <1>5. With(export.counts, list, n) \in Partial(Nat)
    BY <1>1, <1>4, WithExtends DEF Exports
  <1>6. ExportTypeOK'
    BY <1>3, <1>4, <1>5 DEF ExportInv, ExportTypeOK, Exports
  <1>7. export'.rows = export.rows /\ export'.step = "counting"
    BY <1>3, <1>4
  <1>8. WholeOrProbe'
    BY <1>2, <1>3, <1>7 DEF ExportInv, WholeOrProbe
  <1>9. ExportNotCut'
    BY <1>7 DEF ExportNotCut, Answered
  <1>. QED BY <1>6, <1>8, <1>9 DEF ExportInv

LEMMA CheckKeeps ==
  ASSUME ExportInv, CheckCounts
  PROVE  ExportInv'
  <1>1. NoExport.step = "none"
    BY DEF NoExport
  <1>2. export # NoExport
    BY <1>1 DEF CheckCounts
  <1>4. export \in Exports
    BY <1>2 DEF ExportInv, ExportTypeOK
  <1>3. \E s \in {"reading", "too large"} : export' = [export EXCEPT !.step = s]
    BY DEF CheckCounts
  <1>5. export'.rows = export.rows /\ export'.step # "answered" /\ UNCHANGED <<catalog, stocked, atRead>>
    BY <1>3, <1>4 DEF CheckCounts, Exports
  <1>6. ExportTypeOK'
    BY <1>3, <1>4, <1>5 DEF ExportInv, ExportTypeOK, Exports
  <1>8. WholeOrProbe'
    BY <1>2, <1>5 DEF ExportInv, WholeOrProbe
  <1>9. ExportNotCut'
    BY <1>5 DEF ExportNotCut, Answered
  <1>. QED BY <1>6, <1>8, <1>9 DEF ExportInv

\* A list is read whole, or up to the probe.
LEMMA ReadKeeps ==
  ASSUME ExportInv, NEW list \in Lists, NEW found \in SUBSET Reported, ReadRows(list, found)
  PROVE  ExportInv'
  <1>2. export # NoExport
    BY DEF ReadRows, NoExport
  <1>4. export \in Exports
    BY <1>2 DEF ExportInv, ExportTypeOK
  <1>3. /\ export' = [export EXCEPT !.rows = With(export.rows, list, found)]
        /\ atRead' = With(atRead, list, Rows(list))
        /\ UNCHANGED <<catalog, stocked>> /\ export.step = "reading"
    BY DEF ReadRows
  <1>5. Rows(list) \in SUBSET Reported /\ atRead \in Partial(SUBSET Reported)
    BY DEF ExportInv, ExportTypeOK, Rows
  <1>. DEFINE now == With(export.rows, list, found)
              was == With(atRead, list, Rows(list))
  <1>6. /\ now \in Partial(SUBSET Reported) /\ DOMAIN now = DOMAIN export.rows \cup {list}
        /\ now[list] = found
        /\ \A l \in DOMAIN export.rows : l # list => now[l] = export.rows[l]
    <2>1. export.rows \in Partial(SUBSET Reported)
      BY <1>4 DEF Exports
    <2>2. now \in Partial(SUBSET Reported)
      BY <2>1, WithExtends
    <2>. QED BY <2>2 DEF now, With
  <1>7. /\ was \in Partial(SUBSET Reported) /\ DOMAIN was = DOMAIN atRead \cup {list}
        /\ was[list] = Rows(list)
        /\ \A l \in DOMAIN atRead : l # list => was[l] = atRead[l]
    <2>1. was \in Partial(SUBSET Reported)
      BY <1>5, WithExtends
    <2>. QED BY <2>1 DEF was, With
  <1>8. found = Rows(list) \/ Cardinality(found) = Probe
    BY DEF ReadRows
  <1>. HIDE DEF now, was
  <1>9. export'.rows = now /\ export'.step = "reading" /\ atRead' = was
    BY <1>3, <1>4 DEF now, was
  <1>10. ExportTypeOK'
    BY <1>3, <1>4, <1>6, <1>7, <1>9 DEF ExportInv, ExportTypeOK, now, Exports
  <1>11. WholeOrProbe'
    <2>1. DOMAIN was = DOMAIN now
      BY <1>2, <1>6, <1>7 DEF ExportInv, WholeOrProbe
    <2>2. ASSUME NEW l \in DOMAIN was
          PROVE  now[l] = was[l] \/ Cardinality(now[l]) = Probe
      <3>1. CASE l = list
        BY <3>1, <1>6, <1>7, <1>8
      <3>2. CASE l # list
        <4>1. l \in DOMAIN atRead /\ l \in DOMAIN export.rows
          BY <3>2, <1>7, <1>2 DEF ExportInv, WholeOrProbe
        <4>2. now[l] = export.rows[l] /\ was[l] = atRead[l]
          BY <3>2, <4>1, <1>6, <1>7
        <4>. QED BY <4>1, <4>2, <1>2 DEF ExportInv, WholeOrProbe
      <3>. QED BY <3>1, <3>2
    <2>. QED BY <2>1, <2>2, <1>9 DEF WholeOrProbe
  <1>12. ExportNotCut'
    BY <1>9 DEF ExportNotCut, Answered
  <1>. QED BY <1>10, <1>11, <1>12 DEF ExportInv

\* Within the limit no list holds the probe's row, so each was read whole.
LEMMA AnswerKeeps ==
  ASSUME ExportInv, AnswerExport
  PROVE  ExportInv'
  <1>0. NoExport.step = "none"
    BY DEF NoExport
  <1>1. export # NoExport
    BY <1>0 DEF AnswerExport
  <1>2. export \in Exports
    BY <1>1 DEF ExportInv, ExportTypeOK
  <1>3. PICK s \in {"answered", "too large"} : export' = [export EXCEPT !.step = s]
    BY DEF AnswerExport
  <1>4. export'.rows = export.rows /\ export'.step = s /\ UNCHANGED <<catalog, stocked, atRead>>
    BY <1>2, <1>3 DEF AnswerExport, Exports
  <1>5. ExportTypeOK'
    BY <1>2, <1>3, <1>4 DEF ExportInv, ExportTypeOK, Exports
  <1>6. WholeOrProbe'
    BY <1>1, <1>4 DEF ExportInv, WholeOrProbe
  <1>7. ExportNotCut'
    <2>. DEFINE b == export.rows["balances"]
                c == export.rows["bare"]
    <2>1. SUFFICES ASSUME s = "answered"
                   PROVE  export.rows = atRead
      BY <1>4 DEF ExportNotCut, Answered
    <2>2. Cardinality(b) + Cardinality(c) <= Limit
      BY <2>1, <1>2, <1>3 DEF AnswerExport, WithinLimit, Exports
    <2>3. export.rows \in Partial(SUBSET Reported) /\ DOMAIN export.rows = Lists
      BY <1>2 DEF AnswerExport, Both, Exports
    <2>4. export.rows \in [Lists -> SUBSET Reported]
      BY <2>3 DEF Partial
    <2>5. IsFiniteSet(b) /\ IsFiniteSet(c)
      BY <2>4, LimitAssumption, FS_Subset DEF Lists
    <2>6. Cardinality(b) \in Nat /\ Cardinality(c) \in Nat /\ Limit \in Nat
      BY <2>5, FS_CardinalityType, LimitAssumption
    <2>7. Cardinality(b) # Probe /\ Cardinality(c) # Probe
      BY <2>2, <2>6, SumWithin DEF Probe
    <2>8. DOMAIN atRead = Lists /\ \A list \in Lists : export.rows[list] = atRead[list]
      BY <2>3, <2>7, <1>1 DEF ExportInv, WholeOrProbe, Lists
    <2>9. atRead \in [Lists -> SUBSET Reported]
      BY <2>8 DEF ExportInv, ExportTypeOK, Partial
    <2>. DEFINE f == export.rows
    <2>10. f \in [Lists -> SUBSET Reported] /\ \A list \in Lists : f[list] = atRead[list]
      BY <2>4, <2>8
    <2>. HIDE DEF f
    <2>11. f = [list \in Lists |-> f[list]] /\ atRead = [list \in Lists |-> atRead[list]]
      BY <2>9, <2>10
    <2>12. [list \in Lists |-> f[list]] = [list \in Lists |-> atRead[list]]
      BY <2>10
    <2>13. f = atRead
      BY <2>11, <2>12, Zenon
    <2>. QED BY <2>13 DEF f
  <1>. QED BY <1>5, <1>6, <1>7 DEF ExportInv

\* An answered export was cut nowhere, for any number of products, any limit and
\* whatever others write meanwhile (ensureCsvExportWithinLimit after the read).
THEOREM ExportNeverCut == ExportSpec => []ExportNotCut
  <1>1. ExportInit => ExportInv
    BY EmptyPartial DEF ExportInit, ExportInv, ExportTypeOK, WholeOrProbe, ExportNotCut, Answered,
        NoExport
  <1>2. ExportInv /\ [ExportNext]_exportVars => ExportInv'
    <2>. SUFFICES ASSUME ExportInv, [ExportNext]_exportVars PROVE ExportInv'
      OBVIOUS
    <2>1. CASE UNCHANGED exportVars
      BY <2>1 DEF exportVars, ExportInv, ExportTypeOK, WholeOrProbe, ExportNotCut, Answered
    <2>2. CASE ExportNext
      BY <2>2, OthersWrite, BeginKeeps, CountKeeps, CheckKeeps, ReadKeeps, AnswerKeeps
          DEF ExportNext
    <2>. QED BY <2>1, <2>2
  <1>3. ExportInv => ExportNotCut
    BY DEF ExportInv
  <1>. QED BY <1>1, <1>2, <1>3, PTL DEF ExportSpec

-----------------------------------------------------------------------------

Sent ==
  [key : Nat, draft : Draft, opening : Nat, intent : Nat \X Nat, kind : Kind,
   line : Line, seen : Nat, outcome : {"sent", "made", "refused"}, unknown : BOOLEAN]

Filled ==
  [kind : Kind, opening : Nat, line : Line, draft : Draft, edits : Nat, key : Nat,
   held : SUBSET Draft, fetches : BOOLEAN, begun : SUBSET [draft : Draft, edits : Nat],
   waits : Nat, uncertain : BOOLEAN, seen : Nat, done : BOOLEAN]

FormsTypeOK ==
  /\ requests \in Seq(Sent) /\ effects \in Seq(Sent) /\ openings \in Nat
  /\ form \in Filled \cup {Closed}

Renews(k) == FormPolicy[k].editRenews
Drops(k) == FormPolicy[k].refusalRenews
Sticks(k) == FormPolicy[k].sticky

\* A request belongs to an opening, and an open form waits for a request.
OpeningsCounted ==
  /\ \A i \in 1..Len(requests) :
       requests[i].opening <= openings /\ requests[i].intent[1] = requests[i].opening
  /\ form # Closed =>
       /\ form.opening = openings
       /\ form.waits \in 0..Len(requests)
       /\ form.waits # 0 => ~form.done

\* What two requests of one opening have in common: where they have not the same
\* key, the form drew another one on an edit or on a refusal.
Agree(r, s) ==
  r.opening = s.opening =>
    /\ r.kind = s.kind /\ r.line = s.line /\ r.seen = s.seen
    /\ Renews(r.kind) /\ r.intent = s.intent => r.key = s.key
    /\ ~Renews(r.kind) /\ ~Drops(r.kind) => r.key = s.key
    /\ Sticks(r.kind) /\ r.key # s.key => r.outcome = "refused" \/ s.outcome = "refused"

RequestsAgree == \A i, j \in 1..Len(requests) : Agree(requests[i], requests[j])

\* The same of a request and the form that sent it, and of what it waits for.
FormHas(r, i, f) ==
  r.opening = f.opening =>
    /\ r.kind = f.kind /\ r.line = f.line /\ r.seen = f.seen /\ r.intent[2] <= f.edits
    /\ Renews(f.kind) /\ r.intent[2] = f.edits => r.key = f.key
    /\ ~Renews(f.kind) /\ ~Drops(f.kind) => r.key = f.key
    /\ Sticks(f.kind) => r.key = f.key \/ r.outcome = "refused"
    /\ Sticks(f.kind) /\ ~f.done /\ ~f.uncertain /\ i # f.waits => r.outcome = "refused"

FormAgrees ==
  form # Closed => \A i \in 1..Len(requests) : FormHas(requests[i], i, form)

\* What waits for a token was read from this form, and is the first it sends.
FetchesFirst ==
  form # Closed =>
    /\ form.begun # {} => form.fetches
    /\ \A c \in form.begun : c.edits <= form.edits
    /\ form.fetches => \A i \in 1..Len(requests) : requests[i].opening # form.opening

\* A command made is that of a request answered so, and no key made two.
Same(r, s) ==
  /\ r.key = s.key /\ r.opening = s.opening /\ r.intent = s.intent
  /\ r.kind = s.kind /\ r.line = s.line /\ r.seen = s.seen

EffectsOfRequests ==
  \A e \in 1..Len(effects) : \E i \in 1..Len(requests) :
    requests[i].outcome = "made" /\ Same(requests[i], effects[e])

EffectsApart ==
  /\ \A e, d \in 1..Len(effects) : effects[e].key = effects[d].key => e = d
  /\ \A e \in 1..Len(effects) : effects[e].kind = "correction" =>
       \A d \in effects[e].seen + 1 .. e - 1 : ~Corrects(d, effects[e].line)
  /\ \A e \in 1..Len(effects) : effects[e].seen < e

\* Nobody has seen more than there is.
SeenBefore ==
  /\ \A i \in 1..Len(requests) : requests[i].seen <= Len(effects)
  /\ form # Closed => form.seen <= Len(effects)

FormsInv ==
  /\ FormsTypeOK /\ OpeningsCounted /\ RequestsAgree /\ FormAgrees
  /\ EffectsOfRequests /\ EffectsApart /\ FetchesFirst /\ SeenBefore

-----------------------------------------------------------------------------
\* What the fourteen forms have in common: a key is renewed by edits or by
\* refusals; one that refusals renew keeps its attempt, or is the correction of
\* a count; one that keeps its attempt locks its fields.
LEMMA PolicyFacts ==
  ASSUME NEW k \in Kind
  PROVE  /\ k # "none"
         /\ Renews(k) \in BOOLEAN /\ Drops(k) \in BOOLEAN /\ Sticks(k) \in BOOLEAN
         /\ FormPolicy[k].locks \in BOOLEAN
         /\ Renews(k) => ~Drops(k) /\ ~Sticks(k)
         /\ Drops(k) /\ ~Sticks(k) => k = "correction"
         /\ Sticks(k) => FormPolicy[k].locks
         /\ k = "product" => ~Renews(k)
  <1>1. k \in DOMAIN FormPolicy
    BY KindAssumption
  <1>2. k \in {"sale", "transfer", "entry", "closing", "reopen", "lifecycle", "adjustment",
               "correction", "receipt", "product", "valuation", "count", "payment",
               "duplicate"}
    BY <1>1 DEF FormPolicy
  <1>3. CASE k \in {"sale", "transfer", "entry", "closing"}
    <2>1. FormPolicy["sale"] = SaleForm
        /\ FormPolicy["transfer"] = SaleForm
        /\ FormPolicy["entry"] = SaleForm
        /\ FormPolicy["closing"] = SaleForm
      BY DEF FormPolicy, TransferForm, EntryForm, ClosingForm
    <2>2. FormPolicy[k] = SaleForm
      BY <1>3, <2>1
    <2>3. SaleForm = [editRenews |-> TRUE, locks |-> FALSE, sticky |-> FALSE, refusalRenews |-> FALSE]
      BY DEF SaleForm
    <2>. QED BY <1>3, <2>2, <2>3 DEF Renews, Drops, Sticks
  <1>4. CASE k \in {"reopen", "lifecycle"}
    <2>1. FormPolicy["reopen"] = ReopenForm
        /\ FormPolicy["lifecycle"] = ReopenForm
      BY DEF FormPolicy, LifecycleForm
    <2>2. FormPolicy[k] = ReopenForm
      BY <1>4, <2>1
    <2>3. ReopenForm = [editRenews |-> FALSE, locks |-> FALSE, sticky |-> FALSE, refusalRenews |-> FALSE]
      BY DEF ReopenForm
    <2>. QED BY <1>4, <2>2, <2>3 DEF Renews, Drops, Sticks
  <1>5. CASE k \in {"adjustment"}
    <2>1. FormPolicy["adjustment"] = AdjustmentForm
      BY DEF FormPolicy
    <2>2. FormPolicy[k] = AdjustmentForm
      BY <1>5, <2>1
    <2>3. AdjustmentForm = [editRenews |-> FALSE, locks |-> TRUE, sticky |-> FALSE, refusalRenews |-> FALSE]
      BY DEF AdjustmentForm
    <2>. QED BY <1>5, <2>2, <2>3 DEF Renews, Drops, Sticks
  <1>6. CASE k \in {"correction"}
    <2>1. FormPolicy["correction"] = CorrectionForm
      BY DEF FormPolicy
    <2>2. FormPolicy[k] = CorrectionForm
      BY <1>6, <2>1
    <2>3. /\ CorrectionForm.editRenews = FALSE /\ CorrectionForm.locks = TRUE
          /\ CorrectionForm.sticky = FALSE /\ CorrectionForm.refusalRenews = TRUE
      BY DEF AdjustmentForm, CorrectionForm
    <2>. QED BY <1>6, <2>2, <2>3 DEF Renews, Drops, Sticks
  <1>7. CASE k \in {"receipt", "product", "valuation", "count"}
    <2>1. FormPolicy["receipt"] = StockMutation
        /\ FormPolicy["product"] = StockMutation
        /\ FormPolicy["valuation"] = StockMutation
        /\ FormPolicy["count"] = StockMutation
      BY DEF FormPolicy, ReceiptForm, ProductForm, ValuationForm, CountForm
    <2>2. FormPolicy[k] = StockMutation
      BY <1>7, <2>1
    <2>3. StockMutation = [editRenews |-> FALSE, locks |-> TRUE, sticky |-> TRUE, refusalRenews |-> TRUE]
      BY DEF StockMutation
    <2>. QED BY <1>7, <2>2, <2>3 DEF Renews, Drops, Sticks
  <1>8. CASE k \in {"payment", "duplicate"}
    <2>1. FormPolicy["payment"] = PaymentForm
        /\ FormPolicy["duplicate"] = PaymentForm
      BY DEF FormPolicy, DuplicateForm
    <2>2. FormPolicy[k] = PaymentForm
      BY <1>8, <2>1
    <2>3. /\ PaymentForm.editRenews = FALSE /\ PaymentForm.locks = TRUE
          /\ PaymentForm.sticky = TRUE /\ PaymentForm.refusalRenews = FALSE
      BY DEF PaymentForm, StockMutation
    <2>. QED BY <1>8, <2>2, <2>3 DEF Renews, Drops, Sticks
  <1>. QED BY <1>2, <1>3, <1>4, <1>5, <1>6, <1>7, <1>8

\* An answer changes the outcome of one request, a lost connection its mark.
LEMMA OutcomeSet ==
  ASSUME requests \in Seq(Sent), NEW i \in 1..Len(requests), NEW o \in {"made", "refused"},
         requests[i].outcome = "sent", Answers(i, o)
  PROVE  /\ requests' \in Seq(Sent) /\ Len(requests') = Len(requests)
         /\ requests'[i].outcome = o
         /\ \A j \in 1..Len(requests) :
              /\ Same(requests'[j], requests[j])
              /\ j # i => requests'[j].outcome = requests[j].outcome
  <1>1. requests' = [requests EXCEPT ![i] = [requests[i] EXCEPT !.outcome = o]]
    BY DEF Answers
  <1>2. requests[i] \in Sent /\ [requests[i] EXCEPT !.outcome = o] \in Sent
    <2>1. requests[i] \in Sent
      OBVIOUS
    <2>. QED BY <2>1 DEF Sent
  <1>3. \A j \in 1..Len(requests) :
          requests'[j] = IF j = i THEN [requests[i] EXCEPT !.outcome = o] ELSE requests[j]
    BY <1>1
  <1>4. requests' \in Seq(Sent) /\ Len(requests') = Len(requests)
    BY <1>1, <1>2
  <1>5. Same([requests[i] EXCEPT !.outcome = o], requests[i])
        /\ [requests[i] EXCEPT !.outcome = o].outcome = o
    BY <1>2 DEF Same, Sent
  <1>6. \A j \in 1..Len(requests) : Same(requests[j], requests[j])
    BY DEF Same
  <1>. QED BY <1>3, <1>4, <1>5, <1>6

LEMMA MarkSet ==
  ASSUME requests \in Seq(Sent), NEW i \in 1..Len(requests),
         requests' = [requests EXCEPT ![i].unknown = TRUE]
  PROVE  /\ requests' \in Seq(Sent) /\ Len(requests') = Len(requests)
         /\ \A j \in 1..Len(requests) :
              Same(requests'[j], requests[j]) /\ requests'[j].outcome = requests[j].outcome
  <1>1. requests' = [requests EXCEPT ![i] = [requests[i] EXCEPT !.unknown = TRUE]]
    OBVIOUS
  <1>2. requests[i] \in Sent /\ [requests[i] EXCEPT !.unknown = TRUE] \in Sent
    <2>1. requests[i] \in Sent
      OBVIOUS
    <2>. QED BY <2>1 DEF Sent
  <1>3. \A j \in 1..Len(requests) :
          requests'[j] = IF j = i THEN [requests[i] EXCEPT !.unknown = TRUE] ELSE requests[j]
    BY <1>1
  <1>4. requests' \in Seq(Sent) /\ Len(requests') = Len(requests)
    BY <1>1, <1>2
  <1>5. Same([requests[i] EXCEPT !.unknown = TRUE], requests[i])
        /\ [requests[i] EXCEPT !.unknown = TRUE].outcome = requests[i].outcome
    BY <1>2 DEF Same, Sent
  <1>6. \A j \in 1..Len(requests) : Same(requests[j], requests[j])
    BY DEF Same
  <1>. QED BY <1>3, <1>4, <1>5, <1>6

\* Requests that nothing but a first answer changes still agree.
LEMMA StillAgree ==
  ASSUME NEW r, NEW s, NEW p, NEW q, Agree(p, q), Same(r, p), Same(s, q),
         p.outcome = "refused" => r.outcome = "refused",
         q.outcome = "refused" => s.outcome = "refused"
  PROVE  Agree(r, s)
  BY DEF Agree, Same

LEMMA StillHas ==
  ASSUME NEW r, NEW p, NEW i, NEW f, FormHas(p, i, f), Same(r, p),
         p.outcome = "refused" => r.outcome = "refused"
  PROVE  FormHas(r, i, f)
  BY DEF FormHas, Same

\* The part of the invariant that is about requests, when they keep what they ask.
LEMMA AnswersKeep ==
  ASSUME FormsInv, Len(requests') = Len(requests), requests' \in Seq(Sent),
         \A j \in 1..Len(requests) :
           /\ Same(requests'[j], requests[j])
           /\ requests[j].outcome # "sent" => requests'[j].outcome = requests[j].outcome
  PROVE  /\ \A i \in 1..Len(requests') :
              /\ requests'[i].opening <= openings
              /\ requests'[i].intent[1] = requests'[i].opening
         /\ RequestsAgree'
         /\ form # Closed => \A i \in 1..Len(requests) : FormHas(requests'[i], i, form)
         /\ UNCHANGED effects => EffectsOfRequests'
  <1>1. \A i \in 1..Len(requests') :
          requests'[i].opening <= openings /\ requests'[i].intent[1] = requests'[i].opening
    BY DEF FormsInv, OpeningsCounted, Same
  <1>2. RequestsAgree'
    BY StillAgree DEF FormsInv, RequestsAgree
  <1>3. form # Closed => \A i \in 1..Len(requests) : FormHas(requests'[i], i, form)
    BY StillHas DEF FormsInv, FormAgrees
  <1>4. ASSUME UNCHANGED effects PROVE EffectsOfRequests'
    <2>. SUFFICES ASSUME NEW e \in 1..Len(effects)
                  PROVE  \E i \in 1..Len(requests') :
                           requests'[i].outcome = "made" /\ Same(requests'[i], effects[e])
      BY <1>4 DEF EffectsOfRequests
    <2>1. PICK i \in 1..Len(requests) :
            requests[i].outcome = "made" /\ Same(requests[i], effects[e])
      BY DEF FormsInv, EffectsOfRequests
    <2>. QED BY <2>1 DEF Same
  <1>. QED BY <1>1, <1>2, <1>3, <1>4

\* The rest of it, when the form goes on as the opening it is.
LEMMA FormGoesOn ==
  ASSUME FormsInv, requests' \in Seq(Sent), Len(requests') = Len(requests),
         effects' \in Seq(Sent), Len(effects) <= Len(effects'),
         \A j \in 1..Len(requests) : Same(requests'[j], requests[j]),
         \/ form' = Closed
         \/ /\ form # Closed /\ form'.opening = form.opening /\ form'.seen = form.seen
            /\ form'.fetches = form.fetches /\ form'.begun \subseteq form.begun
            /\ form'.edits \in Nat /\ form.edits <= form'.edits
  PROVE  FetchesFirst' /\ SeenBefore'
  <1>1. Len(effects) \in Nat /\ Len(effects') \in Nat
    BY DEF FormsInv, FormsTypeOK
  <1>2. \A j \in 1..Len(requests) :
          /\ requests[j].seen \in Nat /\ requests[j].seen <= Len(effects)
          /\ requests'[j].seen = requests[j].seen /\ requests'[j].opening = requests[j].opening
    <2>1. \A j \in 1..Len(requests) : requests[j] \in Sent
      BY DEF FormsInv, FormsTypeOK
    <2>. QED BY <2>1 DEF FormsInv, SeenBefore, Same, Sent
  <1>3. \A j \in 1..Len(requests') : requests'[j].seen <= Len(effects')
    BY <1>1, <1>2
  <1>4. CASE form' = Closed
    BY <1>3, <1>4 DEF FetchesFirst, SeenBefore
  <1>5. CASE /\ form # Closed /\ form'.opening = form.opening /\ form'.seen = form.seen
             /\ form'.fetches = form.fetches /\ form'.begun \subseteq form.begun
             /\ form'.edits \in Nat /\ form.edits <= form'.edits
    <2>1. form \in Filled
      BY <1>5 DEF FormsInv, FormsTypeOK
    <2>2. /\ form.edits \in Nat /\ form.seen \in Nat
          /\ form.begun \in SUBSET [draft : Draft, edits : Nat]
      BY <2>1 DEF Filled
    <2>3. \A c \in form.begun : c.edits \in Nat /\ c.edits <= form.edits
      BY <1>5, <2>2 DEF FormsInv, FetchesFirst
    <2>4. form'.seen <= Len(effects')
      BY <1>1, <1>5, <2>2 DEF FormsInv, SeenBefore
    <2>5. \A c \in form'.begun : c.edits <= form'.edits
      BY <1>5, <2>2, <2>3
    <2>6. /\ form'.begun # {} => form'.fetches
          /\ form'.fetches => \A j \in 1..Len(requests') : requests'[j].opening # form'.opening
      BY <1>2, <1>5 DEF FormsInv, FetchesFirst
    <2>. QED BY <1>3, <2>4, <2>5, <2>6 DEF FetchesFirst, SeenBefore
  <1>. QED BY <1>4, <1>5

\* A form that does not change goes on.
LEMMA FormStays ==
  ASSUME FormsInv, UNCHANGED form
  PROVE  \/ form' = Closed
         \/ /\ form # Closed /\ form'.opening = form.opening /\ form'.seen = form.seen
            /\ form'.fetches = form.fetches /\ form'.begun \subseteq form.begun
            /\ form'.edits \in Nat /\ form.edits <= form'.edits
  BY DEF FormsInv, FormsTypeOK, Filled

\* The API makes, replays or refuses a command.
LEMMA MakeKeeps ==
  ASSUME FormsInv, NEW i \in 1..Len(requests), Make(i)
  PROVE  FormsInv'
  <1>. DEFINE n == Len(effects)
  <1>1. /\ requests' \in Seq(Sent) /\ Len(requests') = Len(requests)
        /\ requests'[i].outcome = "made"
        /\ \A j \in 1..Len(requests) :
             /\ Same(requests'[j], requests[j])
             /\ j # i => requests'[j].outcome = requests[j].outcome
    BY OutcomeSet DEF FormsInv, FormsTypeOK, Make
  <1>2. /\ \A j \in 1..Len(requests') :
             requests'[j].opening <= openings /\ requests'[j].intent[1] = requests'[j].opening
        /\ RequestsAgree'
        /\ form # Closed => \A j \in 1..Len(requests) : FormHas(requests'[j], j, form)
    BY <1>1, AnswersKeep DEF Make
  <1>3. requests[i] \in Sent /\ effects \in Seq(Sent)
    BY DEF FormsInv, FormsTypeOK
  <1>4. /\ effects' \in Seq(Sent) /\ Len(effects') = n + 1 /\ n \in Nat
        /\ effects'[n + 1] = requests[i]
        /\ \A e \in 1..n : effects'[e] = effects[e]
    BY <1>3 DEF Make
  <1>5. FormsTypeOK'
    BY <1>1, <1>4 DEF Make, FormsInv, FormsTypeOK
  <1>6. OpeningsCounted'
    BY <1>1, <1>2 DEF Make, FormsInv, OpeningsCounted, Same
  <1>7. FormAgrees'
    BY <1>1, <1>2 DEF Make, FormAgrees
  <1>. HIDE DEF n
  <1>8. EffectsOfRequests'
    <2>. SUFFICES ASSUME NEW e \in 1..(n + 1)
                  PROVE  \E j \in 1..Len(requests') :
                           requests'[j].outcome = "made" /\ Same(requests'[j], effects'[e])
      BY <1>4 DEF EffectsOfRequests
    <2>1. CASE e = n + 1
      BY <2>1, <1>1, <1>4
    <2>2. CASE e \in 1..n
      <3>1. PICK j \in 1..Len(requests) :
              requests[j].outcome = "made" /\ Same(requests[j], effects[e])
        BY <2>2 DEF FormsInv, EffectsOfRequests, n
      <3>2. j # i
        BY <3>1 DEF Make
      <3>3. requests'[j].outcome = "made" /\ Same(requests'[j], effects[e])
        BY <3>1, <3>2, <1>1 DEF Same
      <3>. QED BY <3>3, <2>2, <1>1, <1>4
    <2>. QED BY <2>1, <2>2, <1>4
  <1>9. EffectsApart'
    <2>1. \A e \in 1..n : effects[e].key # requests[i].key
      BY DEF Make, Known, n
    <2>2. /\ requests[i].seen \in Nat /\ requests[i].seen < n + 1
          /\ requests[i].kind = "correction" =>
               \A d \in requests[i].seen + 1 .. n :
                 ~(effects[d].kind = "correction" /\ effects[d].line = requests[i].line)
      <3>1. requests[i].seen <= n
        BY DEF FormsInv, SeenBefore, n
      <3>. QED BY <1>3, <1>4, <3>1 DEF Make, Current, Corrects, Sent, n
    <2>3. \A e, d \in 1..(n + 1) : effects'[e].key = effects'[d].key => e = d
      <3>. SUFFICES ASSUME NEW e \in 1..(n + 1), NEW d \in 1..(n + 1),
                           effects'[e].key = effects'[d].key
                    PROVE  e = d
        OBVIOUS
      <3>1. CASE e \in 1..n /\ d \in 1..n
        BY <3>1, <1>4 DEF FormsInv, EffectsApart, n
      <3>2. CASE e = n + 1 /\ d \in 1..n
        BY <3>2, <2>1, <1>4
      <3>3. CASE e \in 1..n /\ d = n + 1
        BY <3>3, <2>1, <1>4
      <3>. QED BY <3>1, <3>2, <3>3, <1>4
    <2>4. \A e \in 1..n :
            /\ effects[e].seen \in Nat /\ effects[e].seen < e
            /\ effects[e].kind = "correction" =>
                 \A d \in effects[e].seen + 1 .. e - 1 :
                   ~(effects[d].kind = "correction" /\ effects[d].line = effects[e].line)
      <3>1. \A e \in 1..n : effects[e] \in Sent
        BY <1>3 DEF n
      <3>2. \A e \in 1..n : effects[e].seen \in Nat
        BY <3>1 DEF Sent
      <3>. QED BY <3>2 DEF FormsInv, EffectsApart, Corrects, n
    <2>5. \A e \in 1..(n + 1) : effects'[e].seen < e
      <3>. SUFFICES ASSUME NEW e \in 1..(n + 1) PROVE effects'[e].seen < e
        OBVIOUS
      <3>1. CASE e \in 1..n
        BY <3>1, <2>4, <1>4
      <3>2. CASE e = n + 1
        BY <3>2, <2>2, <1>4
      <3>. QED BY <3>1, <3>2, <1>4
    <2>6. \A e \in 1..(n + 1) : effects'[e].kind = "correction" =>
            \A d \in effects'[e].seen + 1 .. e - 1 :
              ~(effects'[d].kind = "correction" /\ effects'[d].line = effects'[e].line)
      <3>. SUFFICES ASSUME NEW e \in 1..(n + 1), effects'[e].kind = "correction",
                           NEW d \in effects'[e].seen + 1 .. e - 1
                    PROVE  ~(effects'[d].kind = "correction"
                             /\ effects'[d].line = effects'[e].line)
        OBVIOUS
      <3>1. CASE e \in 1..n
        <4>1. effects'[e] = effects[e] /\ effects[e].seen \in Nat
          BY <3>1, <2>4, <1>4
        <4>2. d \in 1..n
          BY <4>1, <3>1, <1>4
        <4>. QED BY <4>1, <4>2, <3>1, <2>4, <1>4
      <3>2. CASE e = n + 1
        <4>1. effects'[e] = requests[i]
          BY <3>2, <1>4
        <4>2. d \in requests[i].seen + 1 .. n /\ d \in 1..n
          BY <4>1, <3>2, <2>2, <1>4
        <4>. QED BY <4>1, <4>2, <2>2, <1>4
      <3>. QED BY <3>1, <3>2, <1>4
    <2>7. (\A e \in 1..Len(effects) : effects[e].kind = "correction" =>
             \A d \in effects[e].seen + 1 .. e - 1 : ~Corrects(d, effects[e].line))'
      BY <2>6, <1>4 DEF Corrects
    <2>. QED BY <2>3, <2>5, <2>7, <1>4 DEF EffectsApart
  <1>10. FetchesFirst' /\ SeenBefore'
    <2>1. UNCHANGED form /\ Len(effects) <= Len(effects')
      BY <1>4 DEF Make, n
    <2>. QED BY <1>1, <1>4, <2>1, FormStays, FormGoesOn
  <1>. QED BY <1>2, <1>5, <1>6, <1>7, <1>8, <1>9, <1>10 DEF FormsInv

LEMMA AnswerKeepsForms ==
  ASSUME FormsInv, NEW i \in 1..Len(requests), Replay(i) \/ RefuseCommand(i)
  PROVE  FormsInv'
  <1>1. PICK o \in {"made", "refused"} : Answers(i, o)
    BY DEF Replay, RefuseCommand
  <1>2. requests[i].outcome = "sent" /\ UNCHANGED <<form, effects, openings>>
    BY DEF Replay, RefuseCommand
  <1>3. /\ requests' \in Seq(Sent) /\ Len(requests') = Len(requests)
        /\ \A j \in 1..Len(requests) :
             /\ Same(requests'[j], requests[j])
             /\ j # i => requests'[j].outcome = requests[j].outcome
    BY <1>1, <1>2, OutcomeSet DEF FormsInv, FormsTypeOK
  <1>4. /\ \A j \in 1..Len(requests') :
             requests'[j].opening <= openings /\ requests'[j].intent[1] = requests'[j].opening
        /\ RequestsAgree'
        /\ form # Closed => \A j \in 1..Len(requests) : FormHas(requests'[j], j, form)
        /\ EffectsOfRequests'
    BY <1>2, <1>3, AnswersKeep
  <1>5. FormsTypeOK'
    BY <1>2, <1>3 DEF FormsInv, FormsTypeOK
  <1>6. OpeningsCounted'
    BY <1>2, <1>3, <1>4 DEF FormsInv, OpeningsCounted, Same
  <1>7. FormAgrees'
    BY <1>2, <1>3, <1>4 DEF FormAgrees
  <1>8. EffectsApart'
    BY <1>2 DEF FormsInv, EffectsApart, Corrects
  <1>9. FetchesFirst' /\ SeenBefore'
    <2>1. effects' \in Seq(Sent) /\ Len(effects) <= Len(effects')
      BY <1>2 DEF FormsInv, FormsTypeOK
    <2>. QED BY <1>2, <1>3, <2>1, FormStays, FormGoesOn
  <1>. QED BY <1>4, <1>5, <1>6, <1>7, <1>8, <1>9 DEF FormsInv

-----------------------------------------------------------------------------
\* What the form does of its own leaves the requests and the commands alone.
LEMMA FormOnly ==
  ASSUME FormsInv, UNCHANGED <<requests, effects>>
  PROVE  /\ requests' \in Seq(Sent) /\ effects' \in Seq(Sent)
         /\ Len(requests') = Len(requests) /\ Len(effects) <= Len(effects')
         /\ \A j \in 1..Len(requests) : Same(requests'[j], requests[j])
         /\ RequestsAgree' /\ EffectsOfRequests' /\ EffectsApart'
  <1>1. /\ requests' \in Seq(Sent) /\ effects' \in Seq(Sent)
        /\ Len(requests') = Len(requests) /\ Len(effects) <= Len(effects')
    BY DEF FormsInv, FormsTypeOK
  <1>2. \A j \in 1..Len(requests) : Same(requests'[j], requests[j])
    BY DEF Same
  <1>3. RequestsAgree' /\ EffectsOfRequests' /\ EffectsApart'
    BY DEF FormsInv, RequestsAgree, EffectsOfRequests, EffectsApart, Corrects
  <1>. QED BY <1>1, <1>2, <1>3

\* A form of a new opening: no request is of it.
LEMMA NewOpening ==
  ASSUME FormsInv, UNCHANGED <<requests, effects>>, openings' = openings + 1,
         form' \in Filled, form'.opening = openings + 1,
         form'.begun # {} => form'.fetches, \A c \in form'.begun : c.edits <= form'.edits,
         form'.waits \in 0..Len(requests), form'.waits # 0 => ~form'.done,
         form'.seen <= Len(effects)
  PROVE  FormsInv'
  <1>2. openings \in Nat /\ Len(requests) \in Nat /\ requests \in Seq(Sent)
    BY DEF FormsInv, FormsTypeOK
  <1>6. \A i \in 1..Len(requests) :
          /\ requests[i].opening \in Nat /\ requests[i].opening <= openings
          /\ requests[i].intent[1] = requests[i].opening
    <2>1. \A i \in 1..Len(requests) : requests[i] \in Sent
      BY <1>2
    <2>. QED BY <2>1 DEF FormsInv, OpeningsCounted, Sent
  <1>7. FormsTypeOK'
    BY <1>2, FormOnly DEF FormsTypeOK
  <1>8. OpeningsCounted'
    BY <1>2, <1>6 DEF OpeningsCounted
  <1>9. FormAgrees'
    BY <1>2, <1>6 DEF FormAgrees, FormHas
  <1>10. FetchesFirst' /\ SeenBefore'
    BY <1>2, <1>6 DEF FetchesFirst, SeenBefore, FormsInv
  <1>. QED BY <1>7, <1>8, <1>9, <1>10, FormOnly DEF FormsInv

LEMMA OpenKeeps ==
  ASSUME FormsInv, NEW k \in Kind, NEW d \in Draft, NEW l \in Line, NEW fetches \in BOOLEAN,
         OpenForm(k, d, l, fetches)
  PROVE  FormsInv'
  <1>1. UNCHANGED <<requests, effects>> /\ openings' = openings + 1
    BY DEF OpenForm
  <1>2. openings \in Nat /\ Len(effects) \in Nat /\ Len(requests) \in Nat /\ FreshKey \in Nat
    BY DEF FormsInv, FormsTypeOK, FreshKey
  <1>3. form' = [kind |-> k, opening |-> openings + 1, line |-> l, draft |-> d, edits |-> 0,
                 key |-> FreshKey, held |-> {}, fetches |-> fetches, begun |-> {},
                 waits |-> 0, uncertain |-> FALSE, seen |-> Len(effects), done |-> FALSE]
    BY DEF OpenForm
  <1>4. form' \in Filled
    BY <1>2, <1>3 DEF Filled
  <1>5. /\ form'.opening = openings + 1 /\ form'.begun = {} /\ form'.waits = 0
        /\ form'.seen = Len(effects)
    BY <1>3
  <1>. QED BY <1>1, <1>2, <1>4, <1>5, NewOpening

LEMMA PickKeeps ==
  ASSUME FormsInv, form # Closed, NEW l \in Line, NEW seen \in form.seen .. Len(effects),
         PickLine(l, seen)
  PROVE  FormsInv'
  <1>1. /\ UNCHANGED <<requests, effects>> /\ openings' = openings + 1 /\ ~form.done
        /\ form' = [form EXCEPT !.line = l, !.seen = seen, !.opening = openings + 1]
    BY DEF PickLine
  <1>2. /\ form \in Filled /\ openings \in Nat /\ Len(effects) \in Nat
        /\ Len(requests) \in Nat
    BY DEF FormsInv, FormsTypeOK
  <1>3. seen \in Nat /\ seen <= Len(effects)
    <2>1. form.seen \in Nat
      BY <1>2 DEF Filled
    <2>. QED BY <1>2, <2>1
  <1>4. form' \in Filled
    <2>1. openings + 1 \in Nat
      BY <1>2
    <2>. QED BY <1>1, <1>2, <1>3, <2>1 DEF Filled
  <1>5. /\ form'.opening = openings + 1 /\ form'.begun = form.begun /\ form'.waits = form.waits
        /\ form'.seen = seen /\ form'.fetches = form.fetches /\ form'.edits = form.edits
        /\ form'.done = form.done
    BY <1>1, <1>2 DEF Filled
  <1>6. /\ form.begun # {} => form.fetches
        /\ \A c \in form.begun : c.edits <= form.edits
        /\ form.waits \in 0..Len(requests)
    BY DEF FormsInv, FetchesFirst, OpeningsCounted
  <1>. QED BY <1>1, <1>3, <1>4, <1>5, <1>6, NewOpening

\* An edit; what it sets the draft to is of no consequence here.
LEMMA EditKeeps ==
  ASSUME FormsInv, NEW d \in Draft, EditForm(d) \/ CategoryArrives(d)
  PROVE  FormsInv'
  <1>1. UNCHANGED <<requests, effects, openings>> /\ form # Closed
    BY DEF EditForm, CategoryArrives
  <1>2. form \in Filled /\ requests \in Seq(Sent) /\ FreshKey \in Nat
    BY <1>1 DEF FormsInv, FormsTypeOK, FreshKey
  <1>3. PICK key \in Nat : /\ form' = Changed(form, d, key)
                           /\ ~Renews(form.kind) => key = form.key
    <2>1. CASE EditForm(d)
      BY <2>1, <1>2 DEF EditForm, Renews, Filled
    <2>2. CASE CategoryArrives(d)
      BY <2>2, <1>2 DEF CategoryArrives, Filled
    <2>. QED BY <2>1, <2>2
  <1>4. form' \in Filled
    <2>1. form.edits + 1 \in Nat
      BY <1>2 DEF Filled
    <2>2. form' = [form EXCEPT !.draft = d, !.edits = form.edits + 1, !.key = key]
      BY <1>3 DEF Changed
    <2>. QED BY <1>2, <2>1, <2>2 DEF Filled
  <1>5. /\ form'.kind = form.kind /\ form'.opening = form.opening /\ form'.seen = form.seen
        /\ form'.edits = form.edits + 1 /\ form'.key = key /\ form'.waits = form.waits
        /\ form'.uncertain = form.uncertain /\ form'.done = form.done
        /\ form'.line = form.line /\ form'.fetches = form.fetches /\ form'.begun = form.begun
    BY <1>2, <1>3 DEF Changed, Filled
  <1>6. form.kind \in Kind /\ form.edits \in Nat
    BY <1>2 DEF Filled
  <1>7. \A i \in 1..Len(requests) : FormHas(requests[i], i, form')
    <2>. SUFFICES ASSUME NEW i \in 1..Len(requests) PROVE FormHas(requests[i], i, form')
      OBVIOUS
    <2>1. FormHas(requests[i], i, form)
      BY <1>1 DEF FormsInv, FormAgrees
    <2>2. requests[i].intent[2] \in Nat
      <3>1. requests[i] \in Sent
        BY <1>2
      <3>. QED BY <3>1 DEF Sent
    <2>. QED BY <2>1, <2>2, <1>3, <1>5, <1>6, PolicyFacts DEF FormHas
  <1>8. FormsTypeOK'
    BY <1>1, <1>4, FormOnly DEF FormsInv, FormsTypeOK
  <1>9. Closed.kind = "none" /\ form' # Closed
    BY <1>5, <1>6, PolicyFacts DEF Closed
  <1>10. OpeningsCounted'
    BY <1>1, <1>5 DEF FormsInv, OpeningsCounted
  <1>11. FormAgrees'
    BY <1>1, <1>7 DEF FormAgrees
  <1>12. FetchesFirst' /\ SeenBefore'
    <2>1. form'.edits \in Nat /\ form.edits <= form'.edits
      BY <1>5, <1>6
    <2>. QED BY <1>1, <1>5, <2>1, FormOnly, FormGoesOn
  <1>. QED BY <1>1, <1>8, <1>10, <1>11, <1>12, FormOnly DEF FormsInv

\* What is to be sent waits for a token.
LEMMA FetchKeeps ==
  ASSUME FormsInv, FetchToken
  PROVE  FormsInv'
  <1>1. /\ form # Closed /\ UNCHANGED <<requests, effects, openings>> /\ form.fetches
        /\ form' = [form EXCEPT !.begun = {Content(form)}]
    BY DEF FetchToken, Ready
  <1>2. form \in Filled /\ Content(form) \in [draft : Draft, edits : Nat]
    <2>1. form \in Filled
      BY <1>1 DEF FormsInv, FormsTypeOK
    <2>2. Payload(form) \in Draft
      BY <2>1 DEF Payload, Filled
    <2>. QED BY <2>1, <2>2 DEF Content, Filled
  <1>3. /\ form' \in Filled /\ form'.kind = form.kind /\ form'.opening = form.opening
        /\ form'.seen = form.seen /\ form'.line = form.line /\ form'.edits = form.edits
        /\ form'.key = form.key /\ form'.waits = form.waits /\ form'.done = form.done
        /\ form'.uncertain = form.uncertain /\ form'.fetches = form.fetches
        /\ form'.begun = {Content(form)}
    BY <1>1, <1>2 DEF Filled
  <1>4. FormsTypeOK'
    BY <1>1, <1>3 DEF FormsInv, FormsTypeOK
  <1>5. OpeningsCounted' /\ FormAgrees'
    BY <1>1, <1>3 DEF FormsInv, OpeningsCounted, FormAgrees, FormHas
  <1>6. FetchesFirst'
    <2>1. Content(form).edits = form.edits /\ form.edits \in Nat
      BY <1>2 DEF Content, Filled
    <2>. QED BY <1>1, <1>3, <2>1 DEF FormsInv, FetchesFirst
  <1>7. SeenBefore'
    BY <1>1, <1>3 DEF FormsInv, SeenBefore
  <1>. QED BY <1>1, <1>4, <1>5, <1>6, <1>7, FormOnly DEF FormsInv

\* A failed attempt: where the key is given up, nothing is pending.
LEMMA FailedFields ==
  ASSUME NEW f \in Filled, NEW u \in BOOLEAN, requests \in Seq(Sent)
  PROVE  /\ Failed(f, u) \in Filled
         /\ Failed(f, u).kind = f.kind /\ Failed(f, u).opening = f.opening
         /\ Failed(f, u).seen = f.seen /\ Failed(f, u).edits = f.edits
         /\ Failed(f, u).done = f.done /\ Failed(f, u).waits = 0
         /\ Failed(f, u).line = f.line /\ Failed(f, u).fetches = f.fetches
         /\ Failed(f, u).begun = {}
         /\ Failed(f, u).key # f.key => Drops(f.kind)
         /\ Sticks(f.kind) /\ (Failed(f, u).key # f.key \/ ~Failed(f, u).uncertain)
              => ~u /\ ~f.uncertain
  <1>1. f.kind \in Kind /\ f.uncertain \in BOOLEAN /\ f.key \in Nat /\ FreshKey \in Nat
    BY DEF Filled, FreshKey
  <1>. DEFINE policy == FormPolicy[f.kind]
              still == u \/ (policy.sticky /\ f.uncertain)
              held == IF still THEN f.held ELSE {}
              key == IF policy.refusalRenews /\ ~still THEN FreshKey ELSE f.key
              shut == policy.locks /\ still
  <1>2. Failed(f, u) = [f EXCEPT !.waits = 0, !.begun = {}, !.uncertain = shut, !.held = held,
                                 !.key = key]
    BY DEF Failed
  <1>3. /\ policy.sticky \in BOOLEAN /\ policy.locks \in BOOLEAN
        /\ policy.refusalRenews \in BOOLEAN
        /\ policy.sticky => policy.locks
    BY <1>1, PolicyFacts DEF Drops, Sticks
  <1>4. still \in BOOLEAN /\ shut \in BOOLEAN
    BY <1>1, <1>3
  <1>5. held \in SUBSET Draft /\ key \in Nat
    BY <1>1 DEF Filled
  <1>6. /\ key # f.key => policy.refusalRenews /\ ~still
        /\ policy.sticky /\ ~shut => ~still
        /\ policy.sticky /\ ~still => ~u /\ ~f.uncertain
    <2>1. key # f.key => policy.refusalRenews /\ ~still
      <3>. HIDE DEF still, policy
      <3>. QED OBVIOUS
    <2>2. policy.sticky /\ ~shut => ~still
      BY <1>3
    <2>3. policy.sticky /\ ~still => ~u /\ ~f.uncertain
      BY <1>1, <1>3
    <2>. QED BY <2>1, <2>2, <2>3
  <1>. HIDE DEF held, key, shut, still
  <1>7. /\ Failed(f, u) \in Filled
        /\ Failed(f, u).kind = f.kind /\ Failed(f, u).opening = f.opening
        /\ Failed(f, u).seen = f.seen /\ Failed(f, u).edits = f.edits
        /\ Failed(f, u).done = f.done /\ Failed(f, u).waits = 0
        /\ Failed(f, u).line = f.line /\ Failed(f, u).fetches = f.fetches
        /\ Failed(f, u).begun = {}
        /\ Failed(f, u).key = key /\ Failed(f, u).uncertain = shut
    <2>1. [f EXCEPT !.waits = 0, !.begun = {}, !.uncertain = shut, !.held = held, !.key = key]
            \in Filled
      BY <1>4, <1>5 DEF Filled
    <2>. QED BY <1>2, <2>1 DEF Filled
  <1>. QED BY <1>6, <1>7 DEF Drops, Sticks

\* The form goes on after a refusal or without an answer.
LEMMA FailAgrees ==
  ASSUME FormsInv, form # Closed, ~form.done, NEW u \in BOOLEAN,
         NEW f \in Filled, form' = Failed(f, u),
         f = form \/ f = Attempt(form),
         ~u /\ form.waits # 0 => requests[form.waits].outcome = "refused"
  PROVE  /\ form' \in Filled /\ form'.opening = form.opening /\ form'.waits = 0
         /\ form'.seen = form.seen /\ form'.fetches = form.fetches
         /\ form'.begun \subseteq form.begun /\ form'.edits = form.edits
         /\ \A i \in 1..Len(requests) : FormHas(requests[i], i, form')
  <1>1. form \in Filled /\ requests \in Seq(Sent)
    BY DEF FormsInv, FormsTypeOK
  <1>2. /\ f.kind = form.kind /\ f.opening = form.opening /\ f.seen = form.seen
        /\ f.edits = form.edits /\ f.done = form.done /\ f.key = form.key
        /\ f.uncertain = form.uncertain /\ f.line = form.line /\ f.fetches = form.fetches
    BY <1>1 DEF Attempt, Filled
  <1>3. /\ form' \in Filled
        /\ form'.kind = form.kind /\ form'.opening = form.opening
        /\ form'.seen = form.seen /\ form'.edits = form.edits
        /\ form'.done = form.done /\ form'.waits = 0
        /\ form'.line = form.line /\ form'.fetches = form.fetches /\ form'.begun = {}
        /\ form'.key # form.key => Drops(form.kind)
        /\ Sticks(form.kind) /\ (form'.key # form.key \/ ~form'.uncertain)
             => ~u /\ ~form.uncertain
    BY <1>1, <1>2, FailedFields
  <1>4. form.kind \in Kind
    BY <1>1 DEF Filled
  <1>5. ASSUME NEW i \in 1..Len(requests)
        PROVE  FormHas(requests[i], i, form')
    <2>1. FormHas(requests[i], i, form)
      BY DEF FormsInv, FormAgrees
    <2>2. i = form.waits /\ ~u => requests[i].outcome = "refused"
      BY <1>1
    <2>. QED BY <1>3, <1>4, <2>1, <2>2, PolicyFacts DEF FormHas
  <1>. QED BY <1>3, <1>5

LEMMA AttemptFilled ==
  ASSUME form \in Filled
  PROVE  Attempt(form) \in Filled
  <1>1. Payload(form) \in Draft
    BY DEF Payload, Filled
  <1>. DEFINE held == IF FormPolicy[form.kind].sticky THEN {Payload(form)} ELSE {}
  <1>2. held \in SUBSET Draft
    BY <1>1
  <1>3. Attempt(form) = [form EXCEPT !.held = held]
    BY DEF Attempt
  <1>. HIDE DEF held
  <1>. QED BY <1>2, <1>3 DEF Filled

\* The form that the requests agree with is the one on the screen.
LEMMA FormSettles ==
  ASSUME FormsInv, UNCHANGED <<effects, openings>>, form # Closed,
         requests' \in Seq(Sent), Len(requests') = Len(requests),
         \A j \in 1..Len(requests) :
           Same(requests'[j], requests[j]) /\ requests'[j].outcome = requests[j].outcome,
         form' \in Filled, form'.opening = form.opening, form'.waits = 0,
         form'.seen = form.seen, form'.fetches = form.fetches,
         form'.begun \subseteq form.begun, form'.edits = form.edits,
         \A i \in 1..Len(requests) : FormHas(requests[i], i, form')
  PROVE  FormsInv'
  <1>1. /\ \A j \in 1..Len(requests') :
             requests'[j].opening <= openings /\ requests'[j].intent[1] = requests'[j].opening
        /\ RequestsAgree' /\ EffectsOfRequests'
    BY AnswersKeep
  <1>2. FormsTypeOK'
    BY DEF FormsInv, FormsTypeOK
  <1>3. OpeningsCounted'
    <2>1. Len(requests') \in Nat
      OBVIOUS
    <2>. QED BY <1>1, <2>1 DEF FormsInv, OpeningsCounted
  <1>4. FormAgrees'
    BY StillHas DEF FormAgrees
  <1>5. EffectsApart'
    BY DEF FormsInv, EffectsApart, Corrects
  <1>6. FetchesFirst' /\ SeenBefore'
    <2>1. form.edits \in Nat /\ effects' \in Seq(Sent) /\ Len(effects) <= Len(effects')
      BY DEF FormsInv, FormsTypeOK, Filled
    <2>. QED BY <2>1, FormGoesOn
  <1>. QED BY <1>1, <1>2, <1>3, <1>4, <1>5, <1>6 DEF FormsInv

LEMMA CsrfKeeps ==
  ASSUME FormsInv, NEW u \in BOOLEAN, CsrfFails(u)
  PROVE  FormsInv'
  <1>1. /\ form # Closed /\ ~form.done /\ form.waits = 0
        /\ UNCHANGED <<requests, effects, openings>>
    BY DEF CsrfFails, Ready
  <1>2. form \in Filled /\ Attempt(form) \in Filled
    BY <1>1, AttemptFilled DEF FormsInv, FormsTypeOK
  <1>3. /\ form' \in Filled /\ form'.opening = form.opening /\ form'.waits = 0
        /\ form'.seen = form.seen /\ form'.fetches = form.fetches
        /\ form'.begun \subseteq form.begun /\ form'.edits = form.edits
        /\ \A i \in 1..Len(requests) : FormHas(requests[i], i, form')
    BY <1>1, <1>2, FailAgrees DEF CsrfFails
  <1>4. \A j \in 1..Len(requests) : Same(requests[j], requests[j])
    BY DEF Same
  <1>5. requests \in Seq(Sent)
    BY DEF FormsInv, FormsTypeOK
  <1>. QED BY <1>1, <1>3, <1>4, <1>5, FormSettles

LEMMA ReceiveKeeps ==
  ASSUME FormsInv, NEW i \in 1..Len(requests), Receive(i)
  PROVE  FormsInv'
  <1>1. /\ form # Closed /\ form.waits = i /\ i # 0
        /\ UNCHANGED <<requests, effects, openings>>
    BY DEF Receive, Waiting
  <1>2. form \in Filled /\ requests \in Seq(Sent) /\ ~form.done
    BY <1>1 DEF FormsInv, FormsTypeOK, OpeningsCounted
  <1>3. /\ form' \in Filled /\ form'.opening = form.opening /\ form'.waits = 0
        /\ form'.seen = form.seen /\ form'.fetches = form.fetches
        /\ form'.begun \subseteq form.begun /\ form'.edits = form.edits
        /\ \A j \in 1..Len(requests) : FormHas(requests[j], j, form')
    <2>1. CASE /\ requests[i].outcome = "made"
               /\ form' = [form EXCEPT !.waits = 0, !.done = TRUE, !.uncertain = FALSE]
      <3>1. /\ form' \in Filled
            /\ form'.kind = form.kind /\ form'.opening = form.opening
            /\ form'.seen = form.seen /\ form'.edits = form.edits
            /\ form'.done = TRUE /\ form'.waits = 0 /\ form'.key = form.key
            /\ form'.line = form.line /\ form'.fetches = form.fetches
            /\ form'.begun = form.begun
        BY <1>2, <2>1 DEF Filled
      <3>2. \A j \in 1..Len(requests) : FormHas(requests[j], j, form)
        BY <1>1 DEF FormsInv, FormAgrees
      <3>. QED BY <3>1, <3>2 DEF FormHas
    <2>2. CASE requests[i].outcome = "refused" /\ form' = Failed(form, FALSE)
      BY <1>1, <1>2, <2>2, FailAgrees
    <2>. QED BY <2>1, <2>2 DEF Receive
  <1>4. \A j \in 1..Len(requests) : Same(requests[j], requests[j])
    BY DEF Same
  <1>. QED BY <1>1, <1>2, <1>3, <1>4, FormSettles

LEMMA GiveUpKeeps ==
  ASSUME FormsInv, NEW i \in 1..Len(requests), GiveUp(i)
  PROVE  FormsInv'
  <1>1. /\ form # Closed /\ form.waits = i /\ i # 0
        /\ UNCHANGED <<effects, openings>> /\ form' = Failed(form, TRUE)
        /\ requests' = [requests EXCEPT ![i].unknown = TRUE]
    BY DEF GiveUp, Waiting
  <1>2. form \in Filled /\ requests \in Seq(Sent) /\ ~form.done
    BY <1>1 DEF FormsInv, FormsTypeOK, OpeningsCounted
  <1>3. /\ requests' \in Seq(Sent) /\ Len(requests') = Len(requests)
        /\ \A j \in 1..Len(requests) :
             Same(requests'[j], requests[j]) /\ requests'[j].outcome = requests[j].outcome
    BY <1>1, <1>2, MarkSet
  <1>4. /\ form' \in Filled /\ form'.opening = form.opening /\ form'.waits = 0
        /\ form'.seen = form.seen /\ form'.fetches = form.fetches
        /\ form'.begun \subseteq form.begun /\ form'.edits = form.edits
        /\ \A j \in 1..Len(requests) : FormHas(requests[j], j, form')
    BY <1>1, <1>2, FailAgrees
  <1>. QED BY <1>1, <1>3, <1>4, FormSettles

\* Submitting: the new request has the key of the form, and the others have it
\* too, or were refused, or asked for something else.
LEMMA SubmitKeeps ==
  ASSUME FormsInv, Submit
  PROVE  FormsInv'
  <1>. DEFINE n == Len(requests)
              content == IF form.begun = {} THEN Content(form)
                         ELSE CHOOSE c \in form.begun : TRUE
              r == [key |-> form.key, draft |-> content.draft, opening |-> form.opening,
                    intent |-> <<form.opening, content.edits>>, kind |-> form.kind,
                    line |-> form.line, seen |-> form.seen, outcome |-> "sent",
                    unknown |-> FALSE]
  <1>1. /\ form # Closed /\ ~form.done /\ form.waits = 0
        /\ UNCHANGED <<effects, openings>>
        /\ requests' = Append(requests, r)
        /\ form' = [Attempt(form) EXCEPT !.waits = n + 1, !.fetches = FALSE, !.begun = {}]
    BY DEF Submit, Ready
  <1>2. /\ form \in Filled /\ requests \in Seq(Sent) /\ n \in Nat
        /\ Attempt(form) \in Filled
    BY <1>1, AttemptFilled DEF FormsInv, FormsTypeOK
  <1>3. /\ content \in [draft : Draft, edits : Nat] /\ content.edits <= form.edits
        /\ content.edits # form.edits =>
             \A i \in 1..n : requests[i].opening # form.opening
    <2>1. form.edits \in Nat /\ form.begun \in SUBSET [draft : Draft, edits : Nat]
      BY <1>2 DEF Filled
    <2>2. CASE form.begun = {}
      <3>1. Payload(form) \in Draft
        BY <1>2 DEF Payload, Filled
      <3>2. content = [draft |-> Payload(form), edits |-> form.edits]
        BY <2>2 DEF Content
      <3>. QED BY <2>1, <3>1, <3>2
    <2>3. CASE form.begun # {}
      <3>1. content \in form.begun
        BY <2>3
      <3>. HIDE DEF content
      <3>. QED BY <1>1, <2>1, <2>3, <3>1 DEF FormsInv, FetchesFirst
    <2>. QED BY <2>2, <2>3
  <1>. HIDE DEF content
  <1>4. r \in Sent
    <2>1. content.draft \in Draft /\ content.edits \in Nat
      BY <1>3
    <2>. QED BY <1>2, <2>1 DEF Sent, Filled
  <1>5. /\ r.key = form.key /\ r.opening = form.opening /\ r.kind = form.kind
        /\ r.intent = <<form.opening, content.edits>> /\ r.seen = form.seen
        /\ r.line = form.line
    OBVIOUS
  <1>. HIDE DEF r
  <1>6. /\ requests' \in Seq(Sent) /\ Len(requests') = n + 1 /\ requests'[n + 1] = r
        /\ \A i \in 1..n : requests'[i] = requests[i]
    BY <1>1, <1>2, <1>4
  <1>7. /\ Attempt(form).kind = form.kind /\ Attempt(form).opening = form.opening
        /\ Attempt(form).seen = form.seen /\ Attempt(form).edits = form.edits
        /\ Attempt(form).done = form.done /\ Attempt(form).key = form.key
        /\ Attempt(form).uncertain = form.uncertain /\ Attempt(form).line = form.line
    BY <1>2 DEF Attempt, Filled
  <1>8. /\ form' \in Filled
        /\ form'.kind = form.kind /\ form'.opening = form.opening
        /\ form'.seen = form.seen /\ form'.edits = form.edits
        /\ form'.done = form.done /\ form'.waits = n + 1 /\ form'.key = form.key
        /\ form'.uncertain = form.uncertain /\ form'.line = form.line
        /\ form'.fetches = FALSE /\ form'.begun = {}
    <2>. HIDE DEF n
    <2>1. n + 1 \in Nat
      BY <1>2
    <2>. QED BY <1>1, <1>2, <1>7, <2>1 DEF Filled
  <1>9. form.kind \in Kind /\ form.edits \in Nat /\ form.opening \in Nat
    BY <1>2 DEF Filled
  <1>10. \A i \in 1..n : /\ FormHas(requests[i], i, form)
                        /\ requests[i].intent[1] = requests[i].opening
                        /\ requests[i].intent \in Nat \X Nat
    <2>1. \A i \in 1..n : requests[i] \in Sent
      BY <1>2
    <2>. QED BY <1>1, <2>1 DEF FormsInv, FormAgrees, OpeningsCounted, Sent
  <1>. HIDE DEF n
  <1>11. \A i \in 1..n : Agree(requests[i], r) /\ Agree(r, requests[i])
    <2>. SUFFICES ASSUME NEW i \in 1..n
                  PROVE  Agree(requests[i], r) /\ Agree(r, requests[i])
      OBVIOUS
    <2>1. requests[i].intent = r.intent => requests[i].intent[2] = content.edits
      BY <1>5
    <2>2. CASE content.edits = form.edits
      BY <1>5, <1>10, <2>1, <2>2 DEF Agree, FormHas
    <2>3. CASE content.edits # form.edits
      BY <1>5, <1>3, <2>3 DEF Agree
    <2>. QED BY <2>2, <2>3
  <1>12. Agree(r, r)
    BY DEF Agree
  <1>13. RequestsAgree'
    <2>. SUFFICES ASSUME NEW i \in 1..(n + 1), NEW j \in 1..(n + 1)
                  PROVE  Agree(requests'[i], requests'[j])
      BY <1>6 DEF RequestsAgree
    <2>1. CASE i \in 1..n /\ j \in 1..n
      BY <2>1, <1>6 DEF FormsInv, RequestsAgree, n
    <2>2. CASE i = n + 1 \/ j = n + 1
      BY <2>2, <1>2, <1>6, <1>11, <1>12
    <2>. QED BY <2>1, <2>2, <1>2
  <1>14. FormAgrees'
    <2>. SUFFICES ASSUME NEW i \in 1..(n + 1) PROVE FormHas(requests'[i], i, form')
      BY <1>6 DEF FormAgrees
    <2>1. CASE i \in 1..n
      <3>1. form.waits # i
        BY <1>1, <2>1
      <3>. QED BY <2>1, <3>1, <1>6, <1>8, <1>10 DEF FormHas
    <2>2. CASE i = n + 1
      <3>1. r.intent[2] = content.edits /\ content.edits <= form.edits
        BY <1>5, <1>3
      <3>. QED BY <2>2, <3>1, <1>5, <1>6, <1>8, <1>9 DEF FormHas
    <2>. QED BY <2>1, <2>2, <1>2
  <1>15. OpeningsCounted'
    <2>1. form.opening = openings
      BY <1>1 DEF FormsInv, OpeningsCounted
    <2>2. r.intent[1] = form.opening
      BY <1>5
    <2>3. \A i \in 1..(n + 1) : requests'[i].opening <= openings
                              /\ requests'[i].intent[1] = requests'[i].opening
      <3>. SUFFICES ASSUME NEW i \in 1..(n + 1)
                    PROVE  requests'[i].opening <= openings
                           /\ requests'[i].intent[1] = requests'[i].opening
        OBVIOUS
      <3>1. CASE i \in 1..n
        BY <3>1, <1>6 DEF FormsInv, OpeningsCounted, n
      <3>2. CASE i = n + 1
        BY <3>2, <2>1, <2>2, <1>5, <1>6, <1>9
      <3>. QED BY <3>1, <3>2, <1>2
    <2>. QED BY <2>1, <2>3, <1>1, <1>2, <1>5, <1>6, <1>8 DEF OpeningsCounted
  <1>16. EffectsOfRequests'
    <2>. SUFFICES ASSUME NEW e \in 1..Len(effects)
                  PROVE  \E i \in 1..(n + 1) :
                           requests'[i].outcome = "made" /\ Same(requests'[i], effects[e])
      BY <1>1, <1>6 DEF EffectsOfRequests
    <2>1. PICK i \in 1..n : requests[i].outcome = "made" /\ Same(requests[i], effects[e])
      BY DEF FormsInv, EffectsOfRequests, n
    <2>2. i \in 1..(n + 1)
      BY <1>2
    <2>. QED BY <2>1, <2>2, <1>6
  <1>17. EffectsApart' /\ FormsTypeOK'
    BY <1>1, <1>6, <1>8 DEF FormsInv, FormsTypeOK, EffectsApart, Corrects
  <1>18. FetchesFirst'
    BY <1>8 DEF FetchesFirst
  <1>19. SeenBefore'
    <2>1. form.seen <= Len(effects) /\ \A i \in 1..n : requests[i].seen <= Len(effects)
      BY <1>1 DEF FormsInv, SeenBefore, n
    <2>2. \A i \in 1..(n + 1) : requests'[i].seen <= Len(effects)
      BY <2>1, <1>2, <1>5, <1>6
    <2>. QED BY <2>1, <2>2, <1>1, <1>6, <1>8 DEF SeenBefore
  <1>. QED BY <1>13, <1>14, <1>15, <1>16, <1>17, <1>18, <1>19 DEF FormsInv

LEMMA LeaveKeeps ==
  ASSUME FormsInv, LeaveForm
  PROVE  FormsInv'
  <1>1. form' = Closed /\ UNCHANGED <<requests, effects, openings>>
    BY DEF LeaveForm
  <1>2. FetchesFirst' /\ SeenBefore'
    BY <1>1, FormOnly, FormGoesOn
  <1>. QED BY <1>1, <1>2, FormOnly DEF FormsInv, FormsTypeOK, OpeningsCounted, FormAgrees

LEMMA FormsInvInit == FormsInit => FormsInv
  BY DEF FormsInit, FormsInv, FormsTypeOK, OpeningsCounted, RequestsAgree, FormAgrees,
         EffectsOfRequests, EffectsApart, FetchesFirst, SeenBefore

LEMMA FormsInvNext == FormsInv /\ [FormsNext]_formVars => FormsInv'
  <1>. SUFFICES ASSUME FormsInv, [FormsNext]_formVars PROVE FormsInv'
    OBVIOUS
  <1>1. CASE UNCHANGED formVars
    BY <1>1 DEF formVars, FormsInv, FormsTypeOK, OpeningsCounted, RequestsAgree, FormAgrees,
                EffectsOfRequests, EffectsApart, FetchesFirst, SeenBefore, Corrects
  <1>2. CASE FormsNext
    <2>1. ASSUME NEW k \in Kind, NEW d \in Draft, NEW l \in Line, NEW fetches \in MayFetch(k),
                 OpenForm(k, d, l, fetches)
          PROVE  FormsInv'
      BY <2>1, OpenKeeps DEF MayFetch
    <2>. QED BY <1>2, <2>1, PickKeeps, LeaveKeeps, EditKeeps, FetchKeeps, SubmitKeeps, CsrfKeeps,
                MakeKeeps, AnswerKeepsForms, ReceiveKeeps, GiveUpKeeps DEF FormsNext
  <1>. QED BY <1>1, <1>2

\* Two commands of one opening are of forms that renew keys on edits, and of
\* different intents.
LEMMA InvImpliesActsOnce == FormsInv => FormsActOnce
  <1>. SUFFICES ASSUME FormsInv PROVE FormsActOnce
    OBVIOUS
  <1>1. \A e \in 1..Len(effects) : effects[e].kind \in Kind /\ effects[e].intent \in Nat \X Nat
    <2>1. \A e \in 1..Len(effects) : effects[e] \in Sent
      BY DEF FormsInv, FormsTypeOK
    <2>. QED BY <2>1 DEF Sent
  <1>2. ASSUME NEW e \in 1..Len(effects), NEW d \in 1..Len(effects),
               effects[e].opening = effects[d].opening,
               Renews(effects[e].kind) => effects[e].intent = effects[d].intent
        PROVE  e = d
    <2>1. PICK i \in 1..Len(requests) :
            requests[i].outcome = "made" /\ Same(requests[i], effects[e])
      BY DEF FormsInv, EffectsOfRequests
    <2>2. PICK j \in 1..Len(requests) :
            requests[j].outcome = "made" /\ Same(requests[j], effects[d])
      BY DEF FormsInv, EffectsOfRequests
    <2>3. Agree(requests[i], requests[j])
      BY DEF FormsInv, RequestsAgree
    <2>4. /\ effects[e].kind = effects[d].kind /\ effects[e].seen = effects[d].seen
          /\ effects[e].line = effects[d].line
          /\ \/ effects[e].key = effects[d].key
             \/ Drops(effects[e].kind) /\ ~Sticks(effects[e].kind)
      BY <1>2, <2>1, <2>2, <2>3 DEF Agree, Same
    <2>5. CASE effects[e].key = effects[d].key
      BY <2>5 DEF FormsInv, EffectsApart
    <2>6. CASE Drops(effects[e].kind) /\ ~Sticks(effects[e].kind)
      <3>1. effects[e].kind = "correction" /\ effects[d].kind = "correction"
        BY <1>1, <2>4, <2>6, PolicyFacts
      <3>2. Corrects(e, effects[d].line) /\ Corrects(d, effects[e].line)
        BY <2>4, <3>1 DEF Corrects
      <3>3. /\ effects[e].seen \in Nat /\ effects[d].seen \in Nat
            /\ e \in Nat /\ d \in Nat
        <4>1. effects[e] \in Sent /\ effects[d] \in Sent /\ Len(effects) \in Nat
          BY DEF FormsInv, FormsTypeOK
        <4>. QED BY <4>1 DEF Sent
      <3>4. /\ effects[e].seen < e /\ effects[d].seen < d
            /\ e \notin effects[d].seen + 1 .. d - 1
            /\ d \notin effects[e].seen + 1 .. e - 1
        BY <3>1, <3>2 DEF FormsInv, EffectsApart
      <3>. QED BY <2>4, <3>3, <3>4
    <2>. QED BY <2>4, <2>5, <2>6
  <1>3. OneEffectPerIntent
    <2>. SUFFICES ASSUME NEW e \in 1..Len(effects), NEW d \in 1..Len(effects),
                         effects[e].intent = effects[d].intent
                  PROVE  e = d
      BY DEF OneEffectPerIntent
    <2>1. \A c \in 1..Len(effects) : effects[c].intent[1] = effects[c].opening
      BY DEF FormsInv, EffectsOfRequests, OpeningsCounted, Same
    <2>. QED BY <1>2, <2>1
  <1>4. KeptFormsActOnce
    BY <1>2 DEF KeptFormsActOnce, Renews
  <1>5. UnlockedMeansNothingPending
    <2>. SUFFICES ASSUME Ready(form), Sticks(form.kind), ~form.uncertain,
                         NEW i \in 1..Len(requests), requests[i].opening = form.opening
                  PROVE  requests[i].outcome = "refused"
      BY DEF UnlockedMeansNothingPending, Sticks
    <2>. QED BY DEF Ready, FormsInv, FormAgrees, FormHas
  <1>. QED BY <1>3, <1>4, <1>5 DEF FormsActOnce

\* A form acts once however often it is sent, whatever is lost, delayed, refused
\* or edited, and whatever the fourteen forms make of their keys.
THEOREM FormsActOnceHolds == FormsSpec => []FormsActOnce
  BY FormsInvInit, FormsInvNext, InvImpliesActsOnce, PTL DEF FormsSpec

-----------------------------------------------------------------------------

Questions == [filter : Filter, page : Nat \ {0}, reload : Nat]

Views ==
  [screen : DOMAIN ViewPolicy, asked : Questions, rows : Questions \cup {Nothing},
   heading : Questions \cup {Nothing}, error : Questions \cup {Nothing},
   timer : Questions \cup {Nothing}, companion : BOOLEAN]

ViewTyped ==
  /\ view \in Views
  /\ reads \subseteq [question : Questions, live : BOOLEAN, guarded : BOOLEAN]

\* What a screen still listens to was asked for what it asks now; only the
\* adjustment page reads apart from its effect.
ListensToTheQuestion ==
  /\ view.timer \in {Nothing, view.asked}
  /\ \A r \in reads :
       /\ r.live /\ r.guarded => r.question = view.asked
       /\ ~r.guarded => "refetch" \in Does(view).own
  /\ view.companion => "companion" \in Does(view).own

\* The question is answered, or its answer is under way, or an idle handler
\* emptied the page.
AnsweredOrAsked ==
  Does(view).own \cap {"refetch", "companion"} = {} =>
    \/ view.asked \in {view.rows, view.error}
    \/ Does(view).own \cap {"tab", "clear"} # {} /\ view.rows = Nothing
    \/ view.timer # Nothing
    \/ \E r \in reads : r.live

RowsOfTheQuestion ==
  Does(view).hides = "asked" /\ "refetch" \notin Does(view).own =>
    \/ view.rows = Nothing
    \/ /\ view.rows.filter = view.asked.filter
       /\ Does(view).turns = "asked" => view.rows = view.asked

\* Where there is a heading, it tells of the rows below it; without rows it
\* tells of the question, or that failed, or its answer is under way.
HeadingStands ==
  Does(view).heads =>
    /\ view.rows # Nothing => view.heading = view.rows
    /\ \/ view.asked \in {view.heading, view.error}
       \/ view.timer # Nothing
       \/ \E r \in reads : r.live

Showing ==
  /\ ViewTyped /\ ListensToTheQuestion /\ AnsweredOrAsked
  /\ RowsOfTheQuestion /\ HeadingStands

ViewsInv == (view = NoView /\ reads = {}) \/ Showing

-----------------------------------------------------------------------------
Owned == {{}, {"clear"}, {"tab"}, {"refetch"}, {"companion", "matches"}}

Coherent(p) ==
  /\ p.own \in Owned
  /\ p.heads => p.hides = "asked" /\ p.turns = "asked" /\ p.own \in {{}, {"clear"}}

\* What each screen has of its own, that a screen with a heading blanks as it
\* asks, and that no screen is called "none".
LEMMA OwnHandlers ==
  ASSUME NEW s \in DOMAIN ViewPolicy
  PROVE  Coherent(ViewPolicy[s]) /\ s # "none"
  <1>1. /\ s \in {"sales", "movements", "finances", "closings", "inventory", "catalog", "sale",
                  "closing", "product", "analytics", "home", "reports", "counts", "picker",
                  "valuations", "receipts", "users", "count", "pending", "access", "status",
                  "form", "integrations", "transfer", "adjustment", "receipt"}
    BY DEF ViewPolicy
  <1>2. Coherent(List) /\ Coherent(Catalog) /\ Coherent(Detail)
    BY DEF List, Catalog, Detail, Coherent, Owned
  <1>3. Coherent(ProductView) /\ Coherent(Home)
    BY DEF ProductView, Home, Detail, List, Coherent, Owned
  <1>4. Coherent(Analytics) /\ Coherent(Reports) /\ Coherent(Counts)
    BY DEF Analytics, Reports, Counts, Unheaded, List, Coherent, Owned
  <1>5. Coherent(ProductPicker) /\ Coherent(PendingValuations) /\ Coherent(ReceiptHistory)
    BY DEF ProductPicker, PendingValuations, ReceiptHistory, Unheaded, List, Coherent, Owned
  <1>6. Coherent(Users) /\ Coherent(Picked)
    BY DEF Users, Picked, Unheaded, List, Coherent, Owned
  <1>7. Coherent(AdjustmentPage) /\ Coherent(ReceiptEditor)
    BY DEF AdjustmentPage, ReceiptEditor, Picked, Unheaded, List, Coherent, Owned
  <1>8. Coherent(Standing) /\ Coherent(CountDetail) /\ Coherent(UserAccess)
    BY DEF Standing, CountDetail, UserAccess, ProductView, Detail, List, Coherent, Owned
  <1>9. Coherent(ProductFormView) /\ Coherent(Integrations)
    BY DEF ProductFormView, Integrations, Standing, ProductView, Detail, List, Coherent, Owned
  <1>10. CASE s \in {"sales", "movements", "finances", "closings", "inventory", "sale",
                     "closing"}
    <2>1. ViewPolicy[s] = List \/ ViewPolicy[s] = Detail
      BY <1>10 DEF ViewPolicy, SalesView, MovementView, FinancesList, ClosingsList,
                   InventoryView, SaleDetail, ClosingView
    <2>. QED BY <1>2, <1>10, <2>1
  <1>11. CASE s \in {"catalog", "product", "analytics", "home", "reports", "counts"}
    <2>1. ViewPolicy[s] \in {Catalog, ProductView, Analytics, Home, Reports, Counts}
      BY <1>11 DEF ViewPolicy
    <2>. QED BY <1>2, <1>3, <1>4, <1>11, <2>1
  <1>12. CASE s \in {"picker", "valuations", "receipts", "users", "count", "pending",
                     "access", "status"}
    <2>1. ViewPolicy[s] \in {ProductPicker, PendingValuations, ReceiptHistory, Users,
                             CountDetail, Standing, UserAccess}
      BY <1>12 DEF ViewPolicy, OperationalPending, ApiStatus
    <2>. QED BY <1>5, <1>6, <1>8, <1>12, <2>1
  <1>13. CASE s \in {"form", "integrations", "transfer", "adjustment", "receipt"}
    <2>1. ViewPolicy[s] \in {ProductFormView, Integrations, Picked, AdjustmentPage,
                             ReceiptEditor}
      BY <1>13 DEF ViewPolicy, TransferDialog
    <2>. QED BY <1>6, <1>7, <1>9, <1>13, <2>1
  <1>. QED BY <1>1, <1>10, <1>11, <1>12, <1>13

LEMMA NothingIsNoQuestion == Nothing \notin Questions
  BY DEF Nothing, Questions

LEMMA ShowsWhenMounted == ViewsInv /\ Mounted => Showing
  BY DEF ViewsInv, Mounted

LEMMA ReadsOnlyMounted == ViewsInv /\ reads # {} => Showing
  BY DEF ViewsInv

LEMMA DoesFacts ==
  ASSUME ViewTyped
  PROVE  /\ view.screen \in DOMAIN ViewPolicy /\ Coherent(Does(view))
         /\ Does(view).own \in Owned
         /\ view.asked \in Questions /\ view.rows \in Questions \cup {Nothing}
         /\ view.error \in Questions \cup {Nothing} /\ view.timer \in Questions \cup {Nothing}
         /\ view.heading \in Questions \cup {Nothing} /\ view.companion \in BOOLEAN
  BY OwnHandlers DEF ViewTyped, Views, Does, Coherent

LEMMA ReadTyped ==
  ASSUME NEW q \in Questions, NEW g \in BOOLEAN
  PROVE  /\ ReadOf(q, g) \in [question : Questions, live : BOOLEAN, guarded : BOOLEAN]
         /\ ReadOf(q, g).question = q /\ ReadOf(q, g).live /\ ReadOf(q, g).guarded = g
  BY DEF ReadOf

LEMMA BlankEither ==
  ASSUME NEW m, NEW now, NEW value
  PROVE  /\ BlankAt(m, now, value) \in {Nothing, value}
         /\ m = now => BlankAt(m, now, value) = Nothing
         /\ m # now => BlankAt(m, now, value) = value
  BY DEF BlankAt

\* Cleaned up, the effect hears nothing any more.
LEMMA Silenced ==
  ASSUME ViewTyped, ListensToTheQuestion, NEW r \in Silence(reads)
  PROVE  /\ r \in [question : Questions, live : BOOLEAN, guarded : BOOLEAN]
         /\ ~(r.live /\ r.guarded)
         /\ ~r.guarded => "refetch" \in Does(view).own
  <1>1. PICK u \in reads : r = [u EXCEPT !.live = u.live /\ ~u.guarded]
    BY DEF Silence
  <1>2. u \in [question : Questions, live : BOOLEAN, guarded : BOOLEAN]
    BY DEF ViewTyped
  <1>3. (u.live /\ ~u.guarded) \in BOOLEAN
    OBVIOUS
  <1>4. r.question = u.question /\ r.live = (u.live /\ ~u.guarded) /\ r.guarded = u.guarded
    BY <1>1, <1>2
  <1>. QED BY <1>1, <1>2, <1>3, <1>4 DEF ListensToTheQuestion

LEMMA RestartShows ==
  ASSUME Showing, NEW q \in Questions, NEW hides, Restart(q, hides),
         q.filter = view.asked.filter \/ hides = Does(view).hides,
         hides \in {Does(view).hides, Does(view).turns}
  PROVE  Showing'
  <1>. DEFINE p == Does(view)
  <1>0. ViewTyped /\ ListensToTheQuestion /\ RowsOfTheQuestion /\ HeadingStands
    BY DEF Showing
  <1>1. PICK listed \in {BlankAt(hides, "asked", view.rows)},
             error \in {BlankAt(p.forgives, "asked", view.error)},
             timer \in {IF p.timed THEN q ELSE Nothing} :
          view' = [view EXCEPT !.asked = q, !.rows = listed, !.error = error, !.timer = timer]
    BY <1>0 DEF Restart, ViewTyped, Views
  <1>2. reads' = Silence(reads) \cup (IF p.timed THEN {} ELSE {ReadOf(q, TRUE)})
    BY DEF Restart
  <1>3. /\ listed \in Questions \cup {Nothing} /\ error \in Questions \cup {Nothing}
        /\ timer \in {Nothing, q} /\ listed \in {Nothing, view.rows}
        /\ hides = "asked" => listed = Nothing
    BY <1>0, <1>1, DoesFacts, BlankEither
  <1>4. /\ view' \in Views /\ view'.screen = view.screen /\ view'.asked = q
        /\ view'.rows = listed /\ view'.error = error /\ view'.timer = timer
        /\ view'.companion = view.companion /\ view'.heading = view.heading
    BY <1>0, <1>1, <1>3 DEF ViewTyped, Views
  <1>5. Does(view') = p
    BY <1>4 DEF Does
  <1>6. ReadOf(q, TRUE) \in [question : Questions, live : BOOLEAN, guarded : BOOLEAN]
        /\ ReadOf(q, TRUE).question = q /\ ReadOf(q, TRUE).live /\ ReadOf(q, TRUE).guarded = TRUE
    BY ReadTyped
  <1>7. \A r \in reads' : r = ReadOf(q, TRUE) \/ r \in Silence(reads)
    BY <1>2
  <1>8. ViewTyped'
    BY <1>0, <1>4, <1>6, <1>7, Silenced DEF ViewTyped
  <1>9. ListensToTheQuestion'
    <2>1. \A r \in reads' :
            /\ r.live /\ r.guarded => r.question = view'.asked
            /\ ~r.guarded => "refetch" \in Does(view').own
      BY <1>0, <1>4, <1>5, <1>6, <1>7, Silenced
    <2>2. view'.timer \in {Nothing, view'.asked}
      BY <1>3, <1>4
    <2>3. view'.companion => "companion" \in Does(view').own
      BY <1>0, <1>4, <1>5 DEF ListensToTheQuestion
    <2>. QED BY <2>1, <2>2, <2>3 DEF ListensToTheQuestion
  <1>10. AnsweredOrAsked' /\ HeadingStands'
    <2>0. view'.rows # Nothing /\ p.heads => view'.heading = view'.rows
      BY <1>0, <1>3, <1>4 DEF HeadingStands
    <2>1. CASE p.timed
      <3>1. view'.timer = q /\ q # Nothing
        BY <1>1, <1>4, <2>1, NothingIsNoQuestion
      <3>. QED BY <1>5, <2>0, <3>1 DEF AnsweredOrAsked, HeadingStands
    <2>2. CASE ~p.timed
      <3>1. ReadOf(q, TRUE) \in reads'
        BY <1>2, <2>2
      <3>. QED BY <1>5, <1>6, <2>0, <3>1 DEF AnsweredOrAsked, HeadingStands
    <2>. QED BY <2>1, <2>2
  <1>11. RowsOfTheQuestion'
    <2>. SUFFICES ASSUME p.hides = "asked", "refetch" \notin p.own, listed # Nothing
                  PROVE  listed.filter = q.filter /\ p.turns # "asked"
      BY <1>4, <1>5 DEF RowsOfTheQuestion
    <2>1. hides # "asked" /\ listed = view.rows
      BY <1>3
    <2>. QED BY <1>0, <2>1 DEF RowsOfTheQuestion
  <1>. QED BY <1>8, <1>9, <1>10, <1>11 DEF Showing

LEMMA MountShows ==
  ASSUME ViewsInv, NEW s \in Screen, Mount(s)
  PROVE  Showing'
  <1>. DEFINE first == [filter |-> Unfiltered, page |-> 1, reload |-> 0]
              p == ViewPolicy[s]
  <1>1. first \in Questions /\ s \in DOMAIN ViewPolicy
    BY QuestionAssumption, ScreenAssumption DEF Questions, Unfiltered
  <1>2. PICK timer \in {IF p.timed THEN first ELSE Nothing},
             companion \in {"companion" \in p.own} :
          view' = [screen |-> s, asked |-> first, rows |-> Nothing, error |-> Nothing,
                   heading |-> Nothing, timer |-> timer, companion |-> companion]
    BY DEF Mount
  <1>3. reads' = IF p.timed THEN {} ELSE {ReadOf(first, TRUE)}
    BY DEF Mount
  <1>. HIDE DEF first
  <1>4. timer \in {Nothing, first} /\ companion \in BOOLEAN
    BY <1>2
  <1>5. /\ view' \in Views /\ view'.screen = s /\ view'.asked = first
        /\ view'.rows = Nothing /\ view'.error = Nothing /\ view'.timer = timer
        /\ view'.companion = companion
    BY <1>1, <1>2, <1>4 DEF Views
  <1>6. Does(view') = p
    BY <1>5 DEF Does
  <1>7. ReadOf(first, TRUE) \in [question : Questions, live : BOOLEAN, guarded : BOOLEAN]
        /\ ReadOf(first, TRUE).question = first /\ ReadOf(first, TRUE).live
        /\ ReadOf(first, TRUE).guarded = TRUE
    BY <1>1, ReadTyped
  <1>8. \A r \in reads' : r = ReadOf(first, TRUE)
    BY <1>3
  <1>9. ViewTyped' /\ ListensToTheQuestion'
    BY <1>2, <1>4, <1>5, <1>6, <1>7, <1>8 DEF ViewTyped, ListensToTheQuestion
  <1>10. AnsweredOrAsked' /\ HeadingStands'
    <2>1. CASE p.timed
      <3>1. view'.timer = first /\ first # Nothing
        BY <1>1, <1>2, <1>5, <2>1, NothingIsNoQuestion
      <3>. QED BY <1>5, <3>1 DEF AnsweredOrAsked, HeadingStands
    <2>2. CASE ~p.timed
      <3>1. ReadOf(first, TRUE) \in reads'
        BY <1>3, <2>2
      <3>. QED BY <1>5, <1>7, <3>1 DEF AnsweredOrAsked, HeadingStands
    <2>. QED BY <2>1, <2>2
  <1>11. RowsOfTheQuestion'
    BY <1>5 DEF RowsOfTheQuestion
  <1>. QED BY <1>9, <1>10, <1>11 DEF Showing

LEMMA AskShows ==
  ASSUME ViewsInv, NEW f \in Filter, Ask(f)
  PROVE  Showing'
  <1>1. Showing /\ view.asked \in Questions
    BY ShowsWhenMounted, DoesFacts DEF Ask, Showing
  <1>2. [view.asked EXCEPT !.filter = f, !.page = 1] \in Questions
    <2>1. PICK one \in Nat \ {0} : one = 1
      OBVIOUS
    <2>2. [view.asked EXCEPT !.filter = f, !.page = one] \in Questions
      BY <1>1 DEF Questions
    <2>. QED BY <2>1, <2>2
  <1>. QED BY <1>1, <1>2, RestartShows DEF Ask

LEMMA TurnShows ==
  ASSUME ViewsInv, NEW p \in Page, Turn(p)
  PROVE  Showing'
  <1>1. Showing /\ view.asked \in Questions
    BY ShowsWhenMounted, DoesFacts DEF Turn, Showing
  <1>. DEFINE q == [view.asked EXCEPT !.page = p]
  <1>2. q \in Questions /\ q.filter = view.asked.filter /\ Restart(q, Does(view).turns)
    BY <1>1, QuestionAssumption DEF Questions, Turn
  <1>. HIDE DEF q
  <1>. QED BY <1>1, <1>2, RestartShows

LEMMA AgainShows ==
  ASSUME ViewsInv, Again
  PROVE  Showing'
  <1>1. Showing /\ view.asked \in Questions
    BY ShowsWhenMounted, DoesFacts DEF Again, Showing
  <1>2. [view.asked EXCEPT !.reload = @ + 1] \in Questions
    BY <1>1 DEF Questions
  <1>. QED BY <1>1, <1>2, RestartShows DEF Again

LEMMA FireShows ==
  ASSUME ViewsInv, Fire
  PROVE  Showing'
  <1>. DEFINE p == Does(view)
  <1>0. /\ Showing /\ ViewTyped /\ ListensToTheQuestion /\ RowsOfTheQuestion
        /\ HeadingStands /\ view.timer = view.asked
    BY ShowsWhenMounted DEF Fire, Showing, ListensToTheQuestion
  <1>1. PICK listed \in {BlankAt(p.hides, "sent", view.rows)},
             error \in {BlankAt(p.forgives, "sent", view.error)} :
          view' = [view EXCEPT !.timer = Nothing, !.rows = listed, !.error = error]
    BY DEF Fire
  <1>2. reads' = reads \cup {ReadOf(view.asked, TRUE)}
    BY <1>0 DEF Fire
  <1>3. /\ listed \in {Nothing, view.rows} /\ error \in {Nothing, view.error}
        /\ view.asked \in Questions
        /\ listed \in Questions \cup {Nothing} /\ error \in Questions \cup {Nothing}
    BY <1>0, <1>1, DoesFacts, BlankEither
  <1>4. /\ view' \in Views /\ view'.screen = view.screen /\ view'.asked = view.asked
        /\ view'.rows = listed /\ view'.error = error /\ view'.timer = Nothing
        /\ view'.companion = view.companion /\ view'.heading = view.heading
    BY <1>0, <1>1, <1>3 DEF ViewTyped, Views
  <1>5. Does(view') = p
    BY <1>4 DEF Does
  <1>6. ReadOf(view.asked, TRUE) \in [question : Questions, live : BOOLEAN, guarded : BOOLEAN]
        /\ ReadOf(view.asked, TRUE).question = view.asked /\ ReadOf(view.asked, TRUE).live
        /\ ReadOf(view.asked, TRUE).guarded = TRUE
    BY <1>3, ReadTyped
  <1>7. ViewTyped' /\ ListensToTheQuestion'
    BY <1>0, <1>2, <1>4, <1>5, <1>6 DEF ViewTyped, ListensToTheQuestion
  <1>8. AnsweredOrAsked'
    BY <1>2, <1>6 DEF AnsweredOrAsked
  <1>9. RowsOfTheQuestion'
    BY <1>0, <1>3, <1>4, <1>5 DEF RowsOfTheQuestion
  <1>10. HeadingStands'
    BY <1>0, <1>2, <1>3, <1>4, <1>5, <1>6 DEF HeadingStands
  <1>. QED BY <1>7, <1>8, <1>9, <1>10 DEF Showing

LEMMA AnswerShows ==
  ASSUME ViewsInv, NEW r \in reads, AnswerRead(r)
  PROVE  Showing'
  <1>. DEFINE p == Does(view)
  <1>0. /\ Showing /\ ViewTyped /\ ListensToTheQuestion /\ RowsOfTheQuestion /\ AnsweredOrAsked
        /\ HeadingStands /\ Coherent(p) /\ reads' = reads \ {r}
        /\ r \in [question : Questions, live : BOOLEAN, guarded : BOOLEAN]
    BY ReadsOnlyMounted, DoesFacts DEF AnswerRead, Showing, ViewTyped
  <1>1. CASE r.live
    <2>1. PICK error \in {BlankAt(p.forgives, "answered", view.error)},
               head \in {IF p.heads THEN r.question ELSE view.heading} :
            view' = [view EXCEPT !.rows = r.question, !.heading = head, !.error = error]
      BY <1>1 DEF AnswerRead
    <2>2. error \in Questions \cup {Nothing} /\ head \in Questions \cup {Nothing}
      BY <1>0, <2>1, DoesFacts, BlankEither
    <2>3. /\ view' \in Views /\ view'.screen = view.screen /\ view'.asked = view.asked
          /\ view'.rows = r.question /\ view'.timer = view.timer
          /\ view'.companion = view.companion
          /\ p.heads => view'.heading = r.question
      BY <1>0, <2>1, <2>2 DEF ViewTyped, Views
    <2>4. Does(view') = p
      BY <2>3 DEF Does
    <2>5. "refetch" \notin p.own => r.question = view.asked
      BY <1>0, <1>1 DEF ListensToTheQuestion
    <2>6. ViewTyped' /\ ListensToTheQuestion'
      BY <1>0, <2>3, <2>4 DEF ViewTyped, ListensToTheQuestion
    <2>7. AnsweredOrAsked' /\ RowsOfTheQuestion'
      BY <2>3, <2>4, <2>5 DEF AnsweredOrAsked, RowsOfTheQuestion
    <2>8. HeadingStands'
      BY <1>0, <2>3, <2>4, <2>5 DEF HeadingStands, Coherent
    <2>. QED BY <2>6, <2>7, <2>8 DEF Showing
  <1>2. CASE ~r.live
    <2>1. view' = view
      BY <1>2 DEF AnswerRead
    <2>2. ViewTyped' /\ ListensToTheQuestion' /\ RowsOfTheQuestion'
      BY <1>0, <2>1 DEF ViewTyped, ListensToTheQuestion, RowsOfTheQuestion, Does
    <2>3. AnsweredOrAsked' /\ HeadingStands'
      BY <1>0, <1>2, <2>1 DEF AnsweredOrAsked, HeadingStands, Does
    <2>. QED BY <2>2, <2>3 DEF Showing
  <1>. QED BY <1>1, <1>2

LEMMA FailShows ==
  ASSUME ViewsInv, NEW r \in reads, FailRead(r)
  PROVE  Showing'
  <1>. DEFINE p == Does(view)
  <1>0. /\ Showing /\ ViewTyped /\ ListensToTheQuestion /\ RowsOfTheQuestion /\ AnsweredOrAsked
        /\ HeadingStands /\ Coherent(p) /\ reads' = reads \ {r}
        /\ r \in [question : Questions, live : BOOLEAN, guarded : BOOLEAN]
    BY ReadsOnlyMounted, DoesFacts DEF FailRead, Showing, ViewTyped
  <1>1. CASE r.live /\ r.guarded
    <2>1. view' = [view EXCEPT !.error = r.question] /\ r.question = view.asked
      BY <1>0, <1>1 DEF FailRead, ListensToTheQuestion
    <2>2. /\ view' \in Views /\ view'.screen = view.screen /\ view'.asked = view.asked
          /\ view'.rows = view.rows /\ view'.timer = view.timer
          /\ view'.companion = view.companion /\ view'.error = view.asked
          /\ view'.heading = view.heading
      BY <1>0, <2>1 DEF ViewTyped, Views
    <2>3. Does(view') = p
      BY <2>2 DEF Does
    <2>4. ViewTyped' /\ ListensToTheQuestion'
      BY <1>0, <2>2, <2>3 DEF ViewTyped, ListensToTheQuestion
    <2>5. AnsweredOrAsked' /\ RowsOfTheQuestion' /\ HeadingStands'
      BY <1>0, <2>2, <2>3 DEF AnsweredOrAsked, RowsOfTheQuestion, HeadingStands
    <2>. QED BY <2>4, <2>5 DEF Showing
  <1>2. CASE ~(r.live /\ r.guarded)
    <2>1. view' = view
      BY <1>2 DEF FailRead
    <2>2. ViewTyped' /\ ListensToTheQuestion' /\ RowsOfTheQuestion'
      BY <1>0, <2>1 DEF ViewTyped, ListensToTheQuestion, RowsOfTheQuestion, Does
    <2>3. AnsweredOrAsked'
      BY <1>0, <1>2, <2>1 DEF AnsweredOrAsked, ListensToTheQuestion, Does
    <2>4. HeadingStands'
      BY <1>0, <1>2, <2>1 DEF HeadingStands, ListensToTheQuestion, Coherent, Does
    <2>. QED BY <2>2, <2>3, <2>4 DEF Showing
  <1>. QED BY <1>1, <1>2

LEMMA IdleShows ==
  ASSUME ViewsInv, IdleHandler
  PROVE  Showing'
  <1>0. /\ Showing /\ ViewTyped /\ ListensToTheQuestion /\ RowsOfTheQuestion
        /\ HeadingStands /\ Coherent(Does(view))
    BY ShowsWhenMounted, DoesFacts DEF IdleHandler, Showing
  <1>1. view' = [view EXCEPT !.rows = Nothing, !.error = Nothing] /\ reads' = reads
        /\ Does(view).own \cap {"tab", "clear"} # {}
    BY DEF IdleHandler
  <1>2. /\ view' \in Views /\ view'.screen = view.screen /\ view'.asked = view.asked
        /\ view'.rows = Nothing /\ view'.timer = view.timer /\ view'.companion = view.companion
        /\ view'.heading = view.heading
    BY <1>0, <1>1 DEF ViewTyped, Views
  <1>3. Does(view') = Does(view)
    BY <1>2 DEF Does
  <1>4. ViewTyped' /\ ListensToTheQuestion'
    BY <1>0, <1>1, <1>2, <1>3 DEF ViewTyped, ListensToTheQuestion
  <1>5. AnsweredOrAsked' /\ RowsOfTheQuestion'
    BY <1>1, <1>2, <1>3 DEF AnsweredOrAsked, RowsOfTheQuestion
  <1>6. HeadingStands'
    <2>. SUFFICES ASSUME Does(view).heads PROVE view.heading = view.asked
      BY <1>1, <1>2, <1>3 DEF HeadingStands
    <2>1. view.rows # Nothing
      BY <1>0 DEF IdleHandler, Listed, Coherent
    <2>. QED BY <1>0, <2>1 DEF HeadingStands, RowsOfTheQuestion, Coherent
  <1>. QED BY <1>4, <1>5, <1>6 DEF Showing

LEMMA RefetchShows ==
  ASSUME ViewsInv, Refetch
  PROVE  Showing'
  <1>0. Showing /\ ViewTyped /\ ListensToTheQuestion /\ RowsOfTheQuestion
        /\ Coherent(Does(view)) /\ view.asked \in Questions
    BY ShowsWhenMounted, DoesFacts DEF Refetch, Showing
  <1>. DEFINE n == ReadOf(view.asked, FALSE)
  <1>1. view' = view /\ reads' = reads \cup {n} /\ "refetch" \in Does(view).own
    BY DEF Refetch
  <1>2. /\ n \in [question : Questions, live : BOOLEAN, guarded : BOOLEAN]
        /\ n.guarded = FALSE
    BY <1>0, ReadTyped
  <1>. HIDE DEF n
  <1>3. Does(view') = Does(view)
    BY <1>1
  <1>4. ViewTyped' /\ ListensToTheQuestion'
    BY <1>0, <1>1, <1>2, <1>3 DEF ViewTyped, ListensToTheQuestion
  <1>5. AnsweredOrAsked' /\ RowsOfTheQuestion'
    BY <1>0, <1>1, <1>3 DEF AnsweredOrAsked, RowsOfTheQuestion
  <1>6. HeadingStands'
    BY <1>0, <1>1, <1>3 DEF HeadingStands, Coherent
  <1>. QED BY <1>4, <1>5, <1>6 DEF Showing

LEMMA CompanionShows ==
  ASSUME ViewsInv, Companion
  PROVE  Showing'
  <1>0. Showing /\ ViewTyped /\ ListensToTheQuestion /\ RowsOfTheQuestion
        /\ Coherent(Does(view)) /\ view.asked \in Questions /\ "companion" \in Does(view).own
    BY ShowsWhenMounted, DoesFacts DEF Companion, Showing, ListensToTheQuestion
  <1>1. PICK error \in {Nothing, view.asked} :
          view' = [view EXCEPT !.companion = FALSE, !.error = error] /\ reads' = reads
    BY DEF Companion
  <1>2. /\ view' \in Views /\ view'.screen = view.screen /\ view'.asked = view.asked
        /\ view'.rows = view.rows /\ view'.timer = view.timer /\ view'.companion = FALSE
    BY <1>0, <1>1 DEF ViewTyped, Views
  <1>3. Does(view') = Does(view)
    BY <1>2 DEF Does
  <1>4. ViewTyped' /\ ListensToTheQuestion'
    BY <1>0, <1>1, <1>2, <1>3 DEF ViewTyped, ListensToTheQuestion
  <1>5. AnsweredOrAsked' /\ RowsOfTheQuestion'
    BY <1>0, <1>1, <1>2, <1>3 DEF AnsweredOrAsked, RowsOfTheQuestion
  <1>6. HeadingStands'
    BY <1>0, <1>1, <1>3 DEF HeadingStands, Coherent
  <1>. QED BY <1>4, <1>5, <1>6 DEF Showing

LEMMA ViewsStep == ViewsInv /\ [ViewsNext]_viewVars => ViewsInv'
  <1>. SUFFICES ASSUME ViewsInv, [ViewsNext]_viewVars PROVE ViewsInv'
    OBVIOUS
  <1>1. ASSUME NEW s \in Screen, Mount(s) PROVE Showing'
    BY <1>1, MountShows
  <1>2. CASE LeaveView
    BY <1>2 DEF LeaveView, ViewsInv, NoView
  <1>3. ASSUME NEW f \in Filter, Ask(f) PROVE Showing'
    BY <1>3, AskShows
  <1>4. ASSUME NEW p \in Page, Turn(p) PROVE Showing'
    BY <1>4, TurnShows
  <1>5. CASE Again
    BY <1>5, AgainShows DEF ViewsInv
  <1>6. CASE Fire
    BY <1>6, FireShows DEF ViewsInv
  <1>7. ASSUME NEW r \in reads, AnswerRead(r) PROVE Showing'
    BY <1>7, AnswerShows
  <1>8. ASSUME NEW r \in reads, FailRead(r) PROVE Showing'
    BY <1>8, FailShows
  <1>9. CASE IdleHandler
    BY <1>9, IdleShows DEF ViewsInv
  <1>10. CASE Refetch
    BY <1>10, RefetchShows DEF ViewsInv
  <1>11. CASE Companion
    BY <1>11, CompanionShows DEF ViewsInv
  <1>12. CASE UNCHANGED viewVars
    BY <1>12 DEF viewVars, ViewsInv, Showing, ViewTyped, ListensToTheQuestion,
                 AnsweredOrAsked, RowsOfTheQuestion, HeadingStands, Does, NoView
  <1>13. Showing' => ViewsInv'
    BY DEF ViewsInv
  <1>. QED BY <1>1, <1>2, <1>3, <1>4, <1>5, <1>6, <1>7, <1>8, <1>9, <1>10, <1>11, <1>12, <1>13
       DEF ViewsNext

LEMMA InvAnswers == ViewsInv => ScreensAnswer
  <1>. SUFFICES ASSUME ViewsInv, Mounted PROVE ScreensAnswer
    BY DEF ScreensAnswer, SettledOnTheQuestion, NoRowsOfAnotherQuestion, HeadingOfTheRows,
              PreviewOfThePicked
  <1>. DEFINE p == Does(view)
  <1>0. /\ ViewTyped /\ ListensToTheQuestion /\ AnsweredOrAsked /\ RowsOfTheQuestion
        /\ HeadingStands /\ Coherent(p) /\ p.own \in Owned /\ view.asked # Nothing
    BY ShowsWhenMounted, DoesFacts, NothingIsNoQuestion DEF Showing
  <1>1. Shown # Nothing => Shown = view.rows
    BY DEF Shown
  <1>2. SettledOnTheQuestion
    <2>. SUFFICES ASSUME Quiet
                  PROVE  /\ p.own = {} => view.asked \in {Shown, view.error}
                         /\ p.own \cap {"tab", "clear"} # {} =>
                              Shown \in {view.asked, Nothing} \/ view.error = view.asked
      BY DEF SettledOnTheQuestion
    <2>1. p.own \in {{}, {"clear"}, {"tab"}} =>
            /\ p.own \cap {"refetch", "companion"} = {} /\ "matches" \notin p.own
      OBVIOUS
    <2>2. "matches" \notin p.own => Shown = view.rows
      BY DEF Shown
    <2>3. p.own = {} \/ p.own \cap {"tab", "clear"} # {} =>
            p.own \in {{}, {"clear"}, {"tab"}}
      BY <1>0 DEF Owned
    <2>. QED BY <1>0, <2>1, <2>2, <2>3 DEF AnsweredOrAsked, Quiet
  <1>3. NoRowsOfAnotherQuestion
    BY <1>0, <1>1 DEF NoRowsOfAnotherQuestion, RowsOfTheQuestion
  <1>4. PreviewOfThePicked
    BY <1>1 DEF PreviewOfThePicked, Shown
  <1>5. HeadingOfTheRows
    BY <1>0, <1>1 DEF HeadingOfTheRows, HeadingStands, Quiet
  <1>. QED BY <1>2, <1>3, <1>4, <1>5 DEF ScreensAnswer

\* However filters, pages, retries, timers and answers interleave: a screen with
\* nothing under way shows the answer to what is asked, or its failure, the body
\* of a screen that blanks its rows never shows those of another question, and a
\* heading tells of the rows below it, and settled of the question unless it failed.
THEOREM ScreensAlwaysAnswer == ViewsSpec => []ScreensAnswer
  <1>1. ViewsInit => ViewsInv
    BY DEF ViewsInit, ViewsInv
  <1>. QED BY <1>1, ViewsStep, InvAnswers, PTL DEF ViewsSpec

-----------------------------------------------------------------------------

CommandSent ==
  [command : DOMAIN CommandTable, offered : BOOLEAN,
   stage : {"guard", "checks", "commit", "answer", "done", "forbidden"},
   at : Nat \ {0}, wrote : BOOLEAN]

Loaded ==
  /\ screen.name \in DOMAIN ScreenTable
  /\ screen.stage \in {"linked", "loading", "ready", "refused"}
  /\ screen.reads \subseteq Opened.reads
  /\ screen.learnt \subseteq Told(screen.name)
  /\ screen = [name |-> screen.name, stage |-> screen.stage, reads |-> screen.reads,
               learnt |-> screen.learnt]

\* What the session told is held still, or was withdrawn; a screen was entered
\* with what leads to it.
BeliefsHold ==
  /\ believed \subseteq granted \cup withdrawn
  /\ screen.stage \in {"loading", "refused"} /\ withdrawn = {} =>
       Holds(believed, Opened.linked \cup Opened.admits)

\* The permissions a refusal may not be about: held at every moment since the
\* command was sent or, none withdrawn, those the session told.
Kept == always \cup IF withdrawn = {} THEN believed ELSE {}

Reached(stages) == request.stage \in stages \/ request.wrote

OfferedRightly ==
  request.offered =>
    /\ request.command \in DOMAIN Opened.offers
    /\ Holds(Knows, Opened.offers[request.command] \cup Opened.admits)

GuardSoFar ==
  request.stage = "guard" =>
    /\ \A i \in 1..Len(AskedRoute.guard) : i < request.at => AskedRoute.guard[i] \notin Kept
    /\ request.at = 1 \/ request.at <= Len(AskedRoute.guard)
    /\ ~request.wrote

GuardPassed ==
  Reached({"checks", "commit", "answer", "done"}) =>
    AskedRoute.guard = <<>> \/ \E i \in 1..Len(AskedRoute.guard) : AskedRoute.guard[i] \in once

ChecksSoFar ==
  request.stage = "checks" =>
    /\ \A i \in 1..Len(AskedRoute.checks) :
         i < request.at => AskedRoute.checks[i] \cap once # {}
    /\ ~request.wrote

ChecksPassed ==
  Reached({"commit", "answer", "done"}) =>
    \A i \in 1..Len(AskedRoute.checks) : AskedRoute.checks[i] \cap once # {}

RefusalFounded ==
  request.stage = "forbidden" =>
    \E clause \in Stated(AskedRoute) \cup Restated(AskedRoute) :
      clause \cap Kept = {} /\ (request.wrote => clause \in Restated(AskedRoute))

\* How far a command has come, and what that says of the permissions since.
CommandFollows ==
  /\ request \in CommandSent
  /\ granted \subseteq once /\ always \subseteq granted
  /\ OfferedRightly /\ GuardSoFar /\ GuardPassed /\ ChecksSoFar /\ ChecksPassed
  /\ RefusalFounded

RoutesInv ==
  /\ Loaded /\ BeliefsHold /\ ScreensOpen
  /\ request = NoCommand \/ CommandFollows

-----------------------------------------------------------------------------
LEMMA RouteTyped ==
  ASSUME NEW c \in DOMAIN CommandTable
  PROVE  /\ CommandTable[c].guard \in Seq(STRING) /\ Len(CommandTable[c].guard) \in Nat
         /\ CommandTable[c].checks \in Seq(SUBSET STRING) /\ Len(CommandTable[c].checks) \in Nat
         /\ \A i \in 1..Len(CommandTable[c].checks) : CommandTable[c].checks[i] # {}
         /\ CommandTable[c].again \in Seq(SUBSET STRING) /\ Len(CommandTable[c].again) \in Nat
         /\ Restated(CommandTable[c]) \subseteq {{"inventory.read"}}
  <1>1. /\ CommandTable[c].again \in Seq(SUBSET STRING)
        /\ CommandTable[c].guard \in Seq(STRING) /\ CommandTable[c].checks \in Seq(SUBSET STRING)
        /\ \A i \in 1..Len(CommandTable[c].checks) : CommandTable[c].checks[i] # {}
        /\ Restated(CommandTable[c]) \subseteq {{"inventory.read"}}
    BY TableAssumption
  <1>. QED BY <1>1

LEMMA HoldsMore ==
  ASSUME NEW few, NEW many, few \subseteq many, NEW clauses, Holds(few, clauses)
  PROVE  Holds(many, clauses)
  BY DEF Holds

LEMMA NoneIsNone == request \in CommandSent => request # NoCommand
  <1>. SUFFICES ASSUME request \in CommandSent, request = NoCommand PROVE FALSE
    OBVIOUS
  <1>1. request.stage \in {"guard", "checks", "commit", "answer", "done", "forbidden"}
    BY DEF CommandSent
  <1>2. request.stage = "none"
    BY DEF NoCommand
  <1>. QED BY <1>1, <1>2

\* A change of permissions, or of what the screen shows, breaks nothing that was
\* said of a command sent before.
LEMMA StillFollows ==
  ASSUME CommandFollows, UNCHANGED <<request, believed>>, screen'.name = screen.name,
         screen'.learnt = screen.learnt,
         granted' \subseteq once', always' \subseteq granted',
         once \subseteq once', always' \subseteq always, withdrawn \subseteq withdrawn'
  PROVE  CommandFollows'
  <1>1. AskedRoute' = AskedRoute /\ Opened' = Opened /\ request' = request /\ Knows' = Knows
    BY DEF AskedRoute, Opened, Knows
  <1>2. Kept' \subseteq Kept
    BY DEF Kept
  <1>3. OfferedRightly'
    BY <1>1 DEF CommandFollows, OfferedRightly
  <1>4. GuardSoFar' /\ RefusalFounded'
    BY <1>1, <1>2 DEF CommandFollows, GuardSoFar, RefusalFounded
  <1>5. GuardPassed' /\ ChecksSoFar' /\ ChecksPassed'
    BY <1>1 DEF CommandFollows, GuardPassed, ChecksSoFar, ChecksPassed, Reached
  <1>. QED BY <1>1, <1>3, <1>4, <1>5 DEF CommandFollows

Permissions == <<screen, granted, believed, withdrawn, once, always>>

LEMMA PermissionsRest ==
  ASSUME UNCHANGED Permissions, request'.command = request.command
  PROVE  /\ Kept' = Kept /\ Opened' = Opened /\ AskedRoute' = AskedRoute /\ Knows' = Knows
         /\ once' = once /\ granted' = granted /\ always' = always /\ believed' = believed
         /\ screen' = screen /\ withdrawn' = withdrawn
  BY DEF Permissions, Kept, Opened, AskedRoute, Knows

LEMMA CommandTyped ==
  ASSUME request \in CommandSent
  PROVE  /\ request.command \in DOMAIN CommandTable /\ AskedRoute = CommandTable[request.command]
         /\ request.at \in Nat \ {0} /\ request.wrote \in BOOLEAN
         /\ Len(AskedRoute.guard) \in Nat /\ Len(AskedRoute.checks) \in Nat
         /\ Len(AskedRoute.again) \in Nat
         /\ \A i \in 1..Len(AskedRoute.checks) : AskedRoute.checks[i] # {}
  BY RouteTyped DEF CommandSent, AskedRoute

\* None withdrawn, what the session told is granted.
LEMMA KeptIsGranted == BeliefsHold /\ CommandFollows => Kept \subseteq granted
  BY DEF BeliefsHold, CommandFollows, Kept

LEMMA Refuses ==
  ASSUME CommandFollows, UNCHANGED Permissions,
         request' = [request EXCEPT !.stage = "forbidden"],
         NEW clause \in Stated(AskedRoute) \cup Restated(AskedRoute), clause \cap Kept = {},
         request.wrote => clause \in Restated(AskedRoute)
  PROVE  CommandFollows'
  <1>1. /\ request' \in CommandSent /\ request'.stage = "forbidden" /\ request'.wrote = request.wrote
        /\ request'.command = request.command /\ request'.offered = request.offered
    BY DEF CommandFollows, CommandSent
  <1>2. /\ Kept' = Kept /\ Opened' = Opened /\ AskedRoute' = AskedRoute /\ once' = once
        /\ Knows' = Knows
        /\ granted' = granted /\ always' = always /\ believed' = believed
    BY <1>1, PermissionsRest
  <1>3. RefusalFounded'
    BY <1>1, <1>2 DEF RefusalFounded
  <1>4. OfferedRightly' /\ GuardSoFar' /\ GuardPassed' /\ ChecksSoFar' /\ ChecksPassed'
    BY <1>1, <1>2 DEF CommandFollows, OfferedRightly, GuardSoFar, GuardPassed, ChecksSoFar,
                      ChecksPassed, Reached
  <1>. QED BY <1>1, <1>2, <1>3, <1>4 DEF CommandFollows

\* The guard and the checks read one permission, or clause, after another.
LEMMA GuardFollows ==
  ASSUME BeliefsHold, CommandFollows, Guard
  PROVE  CommandFollows'
  <1>. DEFINE r == AskedRoute
  <1>0. request \in CommandSent /\ request.stage = "guard" /\ ~request.wrote /\ UNCHANGED Permissions
    BY DEF CommandFollows, Guard, GuardSoFar, At, Becomes, Permissions
  <1>1. Len(r.guard) \in Nat /\ request.at \in Nat \ {0}
    BY <1>0, CommandTyped
  <1>3. request.at = 1 \/ request.at <= Len(r.guard)
    BY <1>0 DEF CommandFollows, GuardSoFar
  <1>4. always \subseteq granted /\ granted \subseteq once /\ OfferedRightly
    BY DEF CommandFollows
  <1>5. CASE r.guard = <<>> \/ r.guard[request.at] \in granted
    <2>0. request' = [request EXCEPT !.stage = "checks", !.at = 1]
      BY <1>5 DEF Guard, Becomes
    <2>1. PICK one \in Nat \ {0} : one = 1
      OBVIOUS
    <2>2. /\ request' \in CommandSent /\ request'.stage = "checks" /\ request'.at = 1
          /\ request'.command = request.command /\ request'.wrote = request.wrote
          /\ request'.offered = request.offered
      <3>1. request' = [request EXCEPT !.stage = "checks", !.at = one]
        BY <2>0, <2>1
      <3>. QED BY <1>0, <2>1, <3>1 DEF CommandSent
    <2>3. r.guard = <<>> \/ \E i \in 1..Len(r.guard) : r.guard[i] \in once
      <3>1. CASE r.guard # <<>>
        <4>1. request.at \in 1..Len(r.guard)
          BY <1>1, <1>3, <3>1, <1>0, CommandTyped, RouteTyped
        <4>. QED BY <1>4, <1>5, <3>1, <4>1
      <3>. QED BY <3>1
    <2>4. /\ Kept' = Kept /\ Opened' = Opened /\ AskedRoute' = AskedRoute /\ once' = once
          /\ Knows' = Knows
          /\ granted' = granted /\ always' = always /\ believed' = believed
      BY <1>0, <2>2, PermissionsRest
    <2>5. GuardPassed'
      BY <2>3, <2>4 DEF GuardPassed
    <2>6. OfferedRightly' /\ GuardSoFar' /\ ChecksSoFar' /\ ChecksPassed' /\ RefusalFounded'
      BY <1>0, <1>4, <2>2, <2>4
         DEF OfferedRightly, GuardSoFar, ChecksSoFar, ChecksPassed, RefusalFounded, Reached
    <2>. QED BY <1>4, <2>2, <2>4, <2>5, <2>6 DEF CommandFollows
  <1>6. CASE ~(r.guard = <<>> \/ r.guard[request.at] \in granted)
    <2>1. request.at \in 1..Len(r.guard)
      BY <1>1, <1>3, <1>6, <1>0, CommandTyped, RouteTyped
    <2>2. r.guard[request.at] \notin Kept
      BY <1>6, KeptIsGranted
    <2>3. \A i \in 1..Len(r.guard) : i <= request.at => r.guard[i] \notin Kept
      BY <1>0, <1>1, <2>2 DEF CommandFollows, GuardSoFar
    <2>4. CASE request.at < Len(r.guard)
      <3>1. request' = [request EXCEPT !.at = request.at + 1]
        BY <1>6, <2>4 DEF Guard, Becomes
      <3>2. /\ request' \in CommandSent /\ request'.stage = "guard" /\ request'.at = request.at + 1
            /\ request'.command = request.command /\ request'.wrote = request.wrote
            /\ request'.offered = request.offered
        <4>1. request.at + 1 \in Nat \ {0}
          BY <1>1
        <4>. QED BY <1>0, <3>1, <4>1 DEF CommandSent
      <3>3. /\ Kept' = Kept /\ Opened' = Opened /\ AskedRoute' = AskedRoute /\ once' = once
            /\ Knows' = Knows
            /\ granted' = granted /\ always' = always /\ believed' = believed
        BY <1>0, <3>2, PermissionsRest
      <3>4. GuardSoFar'
        <4>1. \A i \in 1..Len(r.guard) : i < request.at + 1 => i <= request.at
          BY <1>1
        <4>2. request.at + 1 <= Len(r.guard)
          BY <1>1, <2>4
        <4>. QED BY <1>0, <2>3, <3>2, <3>3, <4>1, <4>2 DEF GuardSoFar
      <3>5. OfferedRightly' /\ GuardPassed' /\ ChecksSoFar' /\ ChecksPassed' /\ RefusalFounded'
        BY <1>0, <1>4, <3>2, <3>3
           DEF OfferedRightly, GuardPassed, ChecksSoFar, ChecksPassed, RefusalFounded, Reached
      <3>. QED BY <1>4, <3>2, <3>3, <3>4, <3>5 DEF CommandFollows
    <2>5. CASE ~(request.at < Len(r.guard))
      <3>1. request' = [request EXCEPT !.stage = "forbidden"]
        BY <1>6, <2>5 DEF Guard, Becomes
      <3>. DEFINE codes == {r.guard[i] : i \in 1..Len(r.guard)}
      <3>2. codes \in Stated(r)
        BY <2>1 DEF Stated, Clauses
      <3>3. codes \cap Kept = {}
        BY <1>1, <2>3, <2>5
      <3>. QED BY <1>0, <3>1, <3>2, <3>3, Refuses
    <2>. QED BY <2>4, <2>5
  <1>. QED BY <1>5, <1>6

LEMMA CheckFollows ==
  ASSUME BeliefsHold, CommandFollows, CheckClauses
  PROVE  CommandFollows'
  <1>. DEFINE r == AskedRoute
  <1>0. request \in CommandSent /\ request.stage = "checks" /\ ~request.wrote /\ UNCHANGED Permissions
    BY DEF CommandFollows, CheckClauses, ChecksSoFar, At, Becomes, Permissions
  <1>1. Len(r.checks) \in Nat /\ request.at \in Nat \ {0}
    BY <1>0, CommandTyped
  <1>2. always \subseteq granted /\ granted \subseteq once /\ OfferedRightly /\ GuardPassed
    BY DEF CommandFollows
  <1>3. \A i \in 1..Len(r.checks) : i < request.at => r.checks[i] \cap once # {}
    BY <1>0 DEF CommandFollows, ChecksSoFar
  <1>4. CASE request.at > Len(r.checks)
    <2>1. request' = [request EXCEPT !.stage = "commit"]
      BY <1>4 DEF CheckClauses, Clause, Becomes
    <2>2. /\ request' \in CommandSent /\ request'.stage = "commit"
          /\ request'.command = request.command /\ request'.wrote = request.wrote
          /\ request'.offered = request.offered
      BY <1>0, <2>1 DEF CommandSent
    <2>3. /\ Kept' = Kept /\ Opened' = Opened /\ AskedRoute' = AskedRoute /\ once' = once
          /\ Knows' = Knows
          /\ granted' = granted /\ always' = always /\ believed' = believed
      BY <1>0, <2>2, PermissionsRest
    <2>4. ChecksPassed'
      BY <1>1, <1>3, <1>4, <2>3 DEF ChecksPassed
    <2>5. OfferedRightly' /\ GuardSoFar' /\ GuardPassed' /\ ChecksSoFar' /\ RefusalFounded'
      BY <1>0, <1>2, <2>2, <2>3
         DEF OfferedRightly, GuardSoFar, GuardPassed, ChecksSoFar, RefusalFounded, Reached
    <2>. QED BY <1>2, <2>2, <2>3, <2>4, <2>5 DEF CommandFollows
  <1>5. CASE ~(request.at > Len(r.checks)) /\ r.checks[request.at] \cap granted # {}
    <2>1. request' = [request EXCEPT !.at = request.at + 1]
      BY <1>5 DEF CheckClauses, Clause, Becomes
    <2>2. /\ request' \in CommandSent /\ request'.stage = "checks" /\ request'.at = request.at + 1
          /\ request'.command = request.command /\ request'.wrote = request.wrote
          /\ request'.offered = request.offered
      <3>1. request.at + 1 \in Nat \ {0}
        BY <1>1
      <3>. QED BY <1>0, <2>1, <3>1 DEF CommandSent
    <2>3. /\ Kept' = Kept /\ Opened' = Opened /\ AskedRoute' = AskedRoute /\ once' = once
          /\ Knows' = Knows
          /\ granted' = granted /\ always' = always /\ believed' = believed
      BY <1>0, <2>2, PermissionsRest
    <2>4. ChecksSoFar'
      <3>1. \A i \in 1..Len(r.checks) :
              i < request.at + 1 => i < request.at \/ i = request.at
        BY <1>1
      <3>2. r.checks[request.at] \cap once # {}
        BY <1>2, <1>5
      <3>. QED BY <1>0, <1>3, <2>2, <2>3, <3>1, <3>2 DEF ChecksSoFar
    <2>5. OfferedRightly' /\ GuardSoFar' /\ GuardPassed' /\ ChecksPassed' /\ RefusalFounded'
      BY <1>0, <1>2, <2>2, <2>3
         DEF OfferedRightly, GuardSoFar, GuardPassed, ChecksPassed, RefusalFounded, Reached
    <2>. QED BY <1>2, <2>2, <2>3, <2>4, <2>5 DEF CommandFollows
  <1>6. CASE ~(request.at > Len(r.checks)) /\ r.checks[request.at] \cap granted = {}
    <2>1. request' = [request EXCEPT !.stage = "forbidden"]
      BY <1>6 DEF CheckClauses, Clause, Becomes
    <2>2. request.at \in 1..Len(r.checks)
      BY <1>1, <1>6
    <2>3. r.checks[request.at] \in Stated(r)
      BY <1>0, <2>2, CommandTyped DEF Stated, Clauses
    <2>4. r.checks[request.at] \cap Kept = {}
      BY <1>6, KeptIsGranted
    <2>. QED BY <1>0, <2>1, <2>3, <2>4, Refuses
  <1>. QED BY <1>4, <1>5, <1>6

LEMMA CommitFollows ==
  ASSUME CommandFollows, CommitCommand
  PROVE  CommandFollows'
  <1>0. request \in CommandSent /\ request.stage = "commit" /\ UNCHANGED Permissions
    BY DEF CommandFollows, CommitCommand, At, Becomes, Permissions
  <1>1. PICK one \in Nat \ {0} : one = 1
    OBVIOUS
  <1>2. /\ request' \in CommandSent /\ request'.stage = "answer"
        /\ request'.command = request.command /\ request'.offered = request.offered
    <2>1. request' = [request EXCEPT !.stage = "answer", !.at = 1, !.wrote = TRUE]
      BY DEF CommitCommand, Becomes
    <2>2. request' = [request EXCEPT !.stage = "answer", !.at = one, !.wrote = TRUE]
      BY <1>1, <2>1
    <2>. QED BY <1>0, <2>2 DEF CommandSent
  <1>3. /\ Kept' = Kept /\ Opened' = Opened /\ AskedRoute' = AskedRoute /\ once' = once
        /\ Knows' = Knows
        /\ granted' = granted /\ always' = always /\ believed' = believed
    BY <1>0, <1>2, PermissionsRest
  <1>4. OfferedRightly' /\ GuardSoFar' /\ GuardPassed' /\ ChecksSoFar' /\ ChecksPassed'
        /\ RefusalFounded'
    BY <1>0, <1>2, <1>3
       DEF CommandFollows, OfferedRightly, GuardSoFar, GuardPassed, ChecksSoFar, ChecksPassed,
           RefusalFounded, Reached
  <1>. QED BY <1>2, <1>3, <1>4 DEF CommandFollows

LEMMA AnswerFollows ==
  ASSUME BeliefsHold, CommandFollows, AnswerCommand
  PROVE  CommandFollows'
  <1>. DEFINE r == AskedRoute
  <1>0. request \in CommandSent /\ request.stage = "answer" /\ UNCHANGED Permissions
    BY DEF CommandFollows, AnswerCommand, At, Becomes, Permissions
  <1>1. Len(r.again) \in Nat /\ request.at \in Nat \ {0}
    BY <1>0, CommandTyped
  <1>2. CASE \/ request' = [request EXCEPT !.stage = "done"]
             \/ request' = [request EXCEPT !.at = request.at + 1]
    <2>1. request.at + 1 \in Nat \ {0}
      BY <1>1
    <2>2. /\ request' \in CommandSent /\ request'.stage \in {"answer", "done"}
          /\ request'.command = request.command /\ request'.offered = request.offered
      BY <1>0, <1>2, <2>1 DEF CommandSent
    <2>3. /\ Kept' = Kept /\ Opened' = Opened /\ AskedRoute' = AskedRoute /\ once' = once
          /\ Knows' = Knows
          /\ granted' = granted /\ always' = always /\ believed' = believed
      BY <1>0, <2>2, PermissionsRest
    <2>4. OfferedRightly' /\ GuardSoFar' /\ GuardPassed' /\ ChecksSoFar' /\ ChecksPassed'
          /\ RefusalFounded'
      BY <1>0, <2>2, <2>3
         DEF CommandFollows, OfferedRightly, GuardSoFar, GuardPassed, ChecksSoFar, ChecksPassed,
             RefusalFounded, Reached
    <2>. QED BY <2>2, <2>3, <2>4 DEF CommandFollows
  <1>3. CASE ~(request.at > Len(r.again)) /\ r.again[request.at] \cap granted = {}
    <2>1. request' = [request EXCEPT !.stage = "forbidden"]
      BY <1>3 DEF AnswerCommand, Clause, Becomes
    <2>2. request.at \in 1..Len(r.again)
      BY <1>1, <1>3
    <2>3. r.again[request.at] \in Restated(r)
      BY <2>2 DEF Restated
    <2>4. r.again[request.at] \cap Kept = {}
      BY <1>3, KeptIsGranted
    <2>. QED BY <1>0, <2>1, <2>3, <2>4, Refuses
  <1>. QED BY <1>2, <1>3 DEF AnswerCommand, Clause, Becomes

-----------------------------------------------------------------------------
\* Nothing but a command under way depends on the permissions since.
LEMMA CommandStill ==
  ASSUME RoutesInv, UNCHANGED <<request, believed>>, screen'.name = screen.name,
         screen'.learnt = screen.learnt,
         request # NoCommand => granted' \subseteq once' /\ always' \subseteq granted'
                                /\ once \subseteq once' /\ always' \subseteq always,
         withdrawn \subseteq withdrawn'
  PROVE  request' = NoCommand \/ CommandFollows'
  <1>1. CASE request = NoCommand
    BY <1>1
  <1>2. CASE request # NoCommand
    BY <1>2, StillFollows DEF RoutesInv
  <1>. QED BY <1>1, <1>2

LEMMA ChangeRoutes ==
  ASSUME RoutesInv, NEW code, Change(code)
  PROVE  RoutesInv'
  <1>1. UNCHANGED <<screen, believed, request>>
    BY DEF Change
  <1>2. Opened' = Opened /\ Loaded'
    BY <1>1 DEF Opened, RoutesInv, Loaded
  <1>3. CASE code \in granted
    <2>1. /\ granted' = granted \ {code} /\ withdrawn' = withdrawn \cup {code}
          /\ always' = always \ {code} /\ once' = once
      BY <1>3 DEF Change
    <2>2. BeliefsHold'
      BY <1>1, <1>2, <2>1 DEF RoutesInv, BeliefsHold
    <2>3. ScreensOpen'
      BY <1>1, <2>1 DEF ScreensOpen
    <2>4. request # NoCommand => granted \subseteq once /\ always \subseteq granted
      BY DEF RoutesInv, CommandFollows
    <2>5. request' = NoCommand \/ CommandFollows'
      BY <1>1, <2>1, <2>4, CommandStill
    <2>. QED BY <1>2, <2>2, <2>3, <2>5 DEF RoutesInv
  <1>4. CASE code \notin granted
    <2>1. /\ granted' = granted \cup {code} /\ withdrawn' = withdrawn /\ always' = always
          /\ once' = IF request = NoCommand THEN once ELSE once \cup {code}
      BY <1>4 DEF Change
    <2>2. BeliefsHold'
      BY <1>1, <1>2, <2>1 DEF RoutesInv, BeliefsHold
    <2>3. ScreensOpen'
      BY <1>1, <2>1 DEF RoutesInv, ScreensOpen
    <2>4. request # NoCommand => granted \subseteq once /\ always \subseteq granted
      BY DEF RoutesInv, CommandFollows
    <2>5. request' = NoCommand \/ CommandFollows'
      BY <1>1, <2>1, <2>4, CommandStill
    <2>. QED BY <1>2, <2>2, <2>3, <2>5 DEF RoutesInv
  <1>. QED BY <1>3, <1>4

LEMMA RefreshRoutes ==
  ASSUME RoutesInv, RefreshSession
  PROVE  RoutesInv'
  <1>1. /\ UNCHANGED <<screen, granted, request>> /\ request = NoCommand
        /\ screen.stage # "refused" /\ believed' = granted
        /\ withdrawn' = IF screen.stage = "loading" THEN withdrawn ELSE {}
    BY DEF RefreshSession
  <1>2. Opened' = Opened /\ Loaded'
    BY <1>1 DEF Opened, RoutesInv, Loaded
  <1>3. BeliefsHold'
    <2>1. screen.stage = "loading" /\ withdrawn = {} =>
            Holds(granted, Opened.linked \cup Opened.admits)
      BY HoldsMore DEF RoutesInv, BeliefsHold
    <2>. QED BY <1>1, <1>2, <2>1 DEF BeliefsHold
  <1>4. ScreensOpen'
    BY <1>1 DEF ScreensOpen
  <1>. QED BY <1>1, <1>2, <1>3, <1>4 DEF RoutesInv

LEMMA EnterRoutes ==
  ASSUME RoutesInv, Enter
  PROVE  RoutesInv'
  <1>1. /\ UNCHANGED <<granted, believed, request, withdrawn, once, always>>
        /\ Holds(believed, Opened.linked \cup Opened.admits)
        /\ screen' = [screen EXCEPT !.stage = IF screen.reads = {} THEN "ready" ELSE "loading"]
    BY DEF Enter
  <1>2. /\ screen'.name = screen.name /\ screen'.reads = screen.reads
        /\ screen'.learnt = screen.learnt
        /\ screen'.stage \in {"ready", "loading"} /\ Loaded' /\ Opened' = Opened
    BY <1>1 DEF Opened, RoutesInv, Loaded
  <1>3. BeliefsHold' /\ ScreensOpen'
    BY <1>1, <1>2 DEF RoutesInv, BeliefsHold, ScreensOpen
  <1>4. request' = NoCommand \/ CommandFollows'
    BY <1>1, <1>2, CommandStill DEF RoutesInv, CommandFollows
  <1>. QED BY <1>2, <1>3, <1>4 DEF RoutesInv

\* A screen is refused for what its reads ask, and a link leads to it for.
LEMMA LoadRoutes ==
  ASSUME RoutesInv, NEW r \in screen.reads, Load(r)
  PROVE  RoutesInv'
  <1>0. /\ screen.name \in DOMAIN ScreenTable /\ r \in ScreenTable[screen.name].reads
        /\ screen.reads \subseteq Opened.reads
    BY DEF RoutesInv, Loaded, Opened
  <1>1. UNCHANGED <<granted, believed, request, withdrawn, once, always>>
        /\ screen.stage = "loading" /\ request = NoCommand
    BY DEF Load
  <1>2. PICK stage \in {"refused", "ready", "loading"},
             learnt \in {screen.learnt \cup (r.tells \cap granted)} :
          /\ screen' = [screen EXCEPT !.reads = screen.reads \ {r}, !.learnt = learnt,
                                      !.stage = stage]
          /\ stage = "refused" => ~Allows(r)
    <2>1. screen' = [screen EXCEPT !.reads = screen.reads \ {r},
                       !.learnt = screen.learnt \cup (r.tells \cap granted),
                       !.stage = IF ~Allows(r) THEN "refused"
                                 ELSE IF screen.reads \ {r} = {} THEN "ready" ELSE "loading"]
      BY <1>1 DEF Load
    <2>. QED BY <2>1
  <1>3. /\ screen'.name = screen.name /\ screen'.reads = screen.reads \ {r}
        /\ screen'.stage = stage /\ screen'.learnt = learnt
        /\ screen' = [name |-> screen'.name, stage |-> screen'.stage, reads |-> screen'.reads,
                      learnt |-> screen'.learnt]
    BY <1>2 DEF RoutesInv, Loaded
  <1>4. Opened' = Opened
    BY <1>3 DEF Opened
  <1>5. Loaded'
    <2>1. r.tells \subseteq Told(screen.name)
      BY <1>0 DEF Told
    <2>2. learnt \subseteq Told(screen.name)
      BY <1>2, <2>1 DEF RoutesInv, Loaded
    <2>3. Told(screen'.name) = Told(screen.name)
      BY <1>3
    <2>. QED BY <1>0, <1>3, <1>4, <2>2, <2>3 DEF Loaded
  <1>6. BeliefsHold'
    BY <1>1, <1>3, <1>4 DEF RoutesInv, BeliefsHold
  <1>7. ScreensOpen'
    <2>. SUFFICES ASSUME stage = "refused", withdrawn = {}
                  PROVE  \/ "inventory.read" \notin believed
                         \/ screen.name = "analytics" /\ "sales.read" \notin believed
      BY <1>1, <1>3 DEF ScreensOpen
    <2>1. PICK clause \in Stated(r) : clause \cap granted = {}
      BY <1>2 DEF Allows, Holds, Stated
    <2>2. clause \cap believed = {} /\ Holds(believed, Opened.linked \cup Opened.admits)
      BY <1>1, <2>1 DEF RoutesInv, BeliefsHold
    <2>3. \/ \E d \in Opened.linked \cup Opened.admits : d \subseteq clause
          \/ clause = {"inventory.read"}
          \/ screen.name = "analytics" /\ clause = {"sales.read"}
      BY <1>0, TableAssumption DEF LinkedAsRead, Opened
    <2>. QED BY <2>2, <2>3 DEF Holds
  <1>8. request' = NoCommand
    BY <1>1
  <1>. QED BY <1>5, <1>6, <1>7, <1>8 DEF RoutesInv

LEMMA SendRoutes ==
  ASSUME RoutesInv, NEW c \in DOMAIN Opened.offers, SendCommand(c)
  PROVE  RoutesInv'
  <1>1. /\ UNCHANGED <<screen, granted, believed, withdrawn>>
        /\ request' = [command |-> c, offered |-> Offered(c), stage |-> "guard",
                       at |-> 1, wrote |-> FALSE]
        /\ once' = granted /\ always' = granted
    BY DEF SendCommand
  <1>2. Opened' = Opened /\ Loaded' /\ BeliefsHold' /\ ScreensOpen'
    BY <1>1 DEF RoutesInv, Loaded, BeliefsHold, ScreensOpen, Opened
  <1>3. c \in DOMAIN CommandTable
    BY TableAssumption DEF RoutesInv, Loaded, Opened
  <1>4. /\ request' \in CommandSent /\ request'.command = c /\ request'.stage = "guard"
        /\ request'.at = 1 /\ ~request'.wrote
        /\ request'.offered => Offered(c)
    <2>1. Offered(c) \in BOOLEAN
      BY DEF Offered, Holds
    <2>2. PICK one \in Nat \ {0} : one = 1
      OBVIOUS
    <2>. QED BY <1>1, <1>3, <2>1, <2>2 DEF CommandSent
  <1>5. OfferedRightly'
    BY <1>1, <1>2, <1>4 DEF OfferedRightly, Offered, Knows
  <1>6. GuardSoFar'
    <2>1. \A i \in 1..Len(AskedRoute'.guard) : ~(i < 1)
      BY <1>3, <1>4, RouteTyped DEF AskedRoute
    <2>. QED BY <1>4, <2>1 DEF GuardSoFar
  <1>7. GuardPassed' /\ ChecksSoFar' /\ ChecksPassed' /\ RefusalFounded'
    BY <1>4 DEF GuardPassed, ChecksSoFar, ChecksPassed, RefusalFounded, Reached
  <1>. QED BY <1>1, <1>2, <1>4, <1>5, <1>6, <1>7 DEF RoutesInv, CommandFollows

\* What a request does on its way leaves screens and permissions alone.
LEMMA RequestRoutes ==
  ASSUME RoutesInv, Guard \/ CheckClauses \/ CommitCommand \/ AnswerCommand
  PROVE  RoutesInv'
  <1>1. UNCHANGED <<screen, granted, believed, withdrawn>>
    BY DEF Guard, CheckClauses, CommitCommand, AnswerCommand, Becomes
  <1>2. Loaded' /\ BeliefsHold' /\ ScreensOpen'
    BY <1>1 DEF RoutesInv, Loaded, BeliefsHold, ScreensOpen, Opened
  <1>3. CommandFollows
    BY DEF RoutesInv, NoCommand, Guard, CheckClauses, CommitCommand, AnswerCommand, At
  <1>4. CommandFollows'
    BY <1>3, GuardFollows, CheckFollows, CommitFollows, AnswerFollows DEF RoutesInv
  <1>. QED BY <1>2, <1>4 DEF RoutesInv

LEMMA RoutesStep == RoutesInv /\ [RoutesNext]_routeVars => RoutesInv'
  <1>. SUFFICES ASSUME RoutesInv, [RoutesNext]_routeVars PROVE RoutesInv'
    OBVIOUS
  <1>1. CASE UNCHANGED routeVars
    BY <1>1 DEF routeVars, RoutesInv, Loaded, BeliefsHold, ScreensOpen, CommandFollows, Opened,
                OfferedRightly, GuardSoFar, GuardPassed, ChecksSoFar, ChecksPassed,
                RefusalFounded, Reached, AskedRoute, Kept, Knows
  <1>. QED BY <1>1, ChangeRoutes, RefreshRoutes, EnterRoutes, LoadRoutes, SendRoutes,
              RequestRoutes DEF RoutesNext

LEMMA RoutesBegin == RoutesInit => RoutesInv
  <1>. SUFFICES ASSUME RoutesInit PROVE RoutesInv
    OBVIOUS
  <1>1. PICK s \in DOMAIN ScreenTable :
          screen = [name |-> s, stage |-> "linked", reads |-> ScreenTable[s].reads,
                    learnt |-> {}]
    BY DEF RoutesInit
  <1>2. Loaded
    BY <1>1 DEF Loaded, Opened
  <1>3. BeliefsHold /\ ScreensOpen
    BY <1>1 DEF RoutesInit, BeliefsHold, ScreensOpen
  <1>. QED BY <1>2, <1>3 DEF RoutesInit, RoutesInv

\* What a command wrote, or why it was refused, follows from the tables.
LEMMA CommandsDecide ==
  ASSUME RoutesInv
  PROVE  WritesAllowed /\ OffersHonoured /\ DocumentedSuffices /\ ForbiddenWroteNothing
  <1>. DEFINE r == AskedRoute
  <1>1. CASE request = NoCommand
    BY <1>1 DEF WritesAllowed, OffersHonoured, DocumentedSuffices, ForbiddenWroteNothing
  <1>2. CASE CommandFollows
    <2>0. /\ request \in CommandSent /\ request.command \in DOMAIN CommandTable
          /\ r = CommandTable[request.command] /\ Len(r.guard) \in Nat /\ Len(r.checks) \in Nat
          /\ r.guard = CommandTable[request.command].guard
      BY <1>2, CommandTyped DEF CommandFollows
    <2>1. WritesAllowed
      <3>. SUFFICES ASSUME request.wrote, NEW d \in r.documented PROVE d \cap once # {}
        BY DEF WritesAllowed, Holds
      <3>1. PICK clause \in Stated(r) : clause \subseteq d
        BY <2>0, TableAssumption DEF DocumentedIsAsked
      <3>2. CASE clause = {r.guard[i] : i \in 1..Len(r.guard)}
        <4>1. r.guard # <<>>
          <5>1. PICK i \in 1..Len(r.guard) : TRUE
            BY <3>1, <3>2 DEF Stated
          <5>. QED BY <5>1
        <4>2. \E i \in 1..Len(r.guard) : r.guard[i] \in once
          BY <1>2, <4>1 DEF CommandFollows, GuardPassed, Reached
        <4>. QED BY <3>1, <3>2, <4>2
      <3>3. CASE \E i \in 1..Len(r.checks) : clause = r.checks[i]
        BY <1>2, <3>1, <3>3 DEF CommandFollows, ChecksPassed, Reached
      <3>. QED BY <3>1, <3>2, <3>3 DEF Stated, Clauses
    <2>. SUFFICES ASSUME request.stage = "forbidden"
                  PROVE  OffersHonoured /\ DocumentedSuffices /\ ForbiddenWroteNothing
      BY <2>1 DEF OffersHonoured, DocumentedSuffices, ForbiddenWroteNothing, At
    <2>2. PICK clause \in Stated(r) \cup Restated(r) :
            clause \cap Kept = {} /\ (request.wrote => clause \in Restated(r))
      BY <1>2 DEF CommandFollows, RefusalFounded
    <2>3. clause \cap always = {} /\ (withdrawn = {} => clause \cap believed = {})
      BY <2>2 DEF Kept
    <2>4. OffersHonoured
      <3>. SUFFICES ASSUME request.offered, withdrawn = {}
                    PROVE  \/ request.command = "CountCancelOpen"
                              /\ "inventory.audit.create" \notin believed
                           \/ request.command \in {"UserRoles", "UserPermissions"}
                              /\ "users.roles.manage" \notin believed
                           \/ {"inventory.read"} \in Clauses(r) /\ "inventory.read" \notin believed
                           \/ request.command \in Specified
                              /\ "products.specifications.manage" \notin believed
                           \/ request.command = "AlexaAuthorize"
        BY DEF OffersHonoured
      <3>1. /\ screen.name \in DOMAIN ScreenTable
            /\ request.command \in DOMAIN ScreenTable[screen.name].offers
            /\ Holds(Knows, ScreenTable[screen.name].offers[request.command]
                              \cup ScreenTable[screen.name].admits)
            /\ screen.learnt \subseteq Told(screen.name)
        BY <1>2 DEF CommandFollows, OfferedRightly, Opened, RoutesInv, Loaded
      <3>2. ~\E d \in ScreenTable[screen.name].offers[request.command]
                        \cup ScreenTable[screen.name].admits :
               d \subseteq clause \ Told(screen.name)
        BY <2>3, <3>1 DEF Holds, Knows
      <3>3. Excepted(request.command, clause)
        BY <2>0, <3>1, <3>2, TableAssumption DEF OfferedAsAsked
      <3>. QED BY <2>0, <2>3, <3>3 DEF Excepted
    <2>5. DocumentedSuffices
      <3>. SUFFICES ASSUME request.command \notin Understated
                    PROVE  ~Holds(always, r.documented)
        BY DEF DocumentedSuffices
      <3>1. PICK d \in r.documented : d \subseteq clause
        BY <2>0, TableAssumption DEF DocumentedIsAsked
      <3>. QED BY <2>3, <3>1 DEF Holds
    <2>6. ForbiddenWroteNothing
      <3>. SUFFICES ASSUME request.wrote PROVE r.again # <<>> /\ "inventory.read" \notin always
        BY DEF ForbiddenWroteNothing
      <3>1. clause \in Restated(r) /\ Restated(r) \subseteq {{"inventory.read"}}
        BY <2>0, <2>2, RouteTyped
      <3>2. r.again # <<>>
        <4>1. PICK i \in 1..Len(r.again) : TRUE
          BY <3>1 DEF Restated
        <4>. QED BY <4>1
      <3>. QED BY <2>3, <3>1, <3>2
    <2>. QED BY <2>4, <2>5, <2>6
  <1>. QED BY <1>1, <1>2 DEF RoutesInv

\* However permissions change while screens are open and commands under way,
\* and whatever the tables say within what the screens and routes of the code
\* agree on: commands write for who may, and screens offer what is honoured.
THEOREM PermissionsAlwaysDecide == RoutesSpec => []PermissionsDecide
  <1>1. RoutesInv => PermissionsDecide
    BY CommandsDecide DEF RoutesInv, PermissionsDecide
  <1>. QED BY <1>1, RoutesBegin, RoutesStep, PTL DEF RoutesSpec

-----------------------------------------------------------------------------

\* What a browser may hold of a session: its number, or nothing.
Maybe == Nat \cup {Nobody}

States ==
  [kind : {"loading", "anonymous", "authenticated"}, person : User \cup {Nobody},
   token : Maybe]

Jobs ==
  [kind : {"none", "login", "logout", "command", "change"}, found : States,
   had : Maybe, same : BOOLEAN, token : Maybe, again : BOOLEAN]

Asked ==
  [tab : Tab, reader : {"refresh", "job"},
   kind : {"session", "csrf", "login", "logout", "command", "change"},
   cookie : Maybe, token : Maybe, person : User \cup {Nobody}, heard : BOOLEAN,
   answer : {"none", "ok", "unauthorized", "forbidden", "lost"}, sets : SUBSET Maybe]

BrowserTypeOK ==
  /\ tab \in [Tab -> States] /\ job \in [Tab -> Jobs]
  /\ owner \in Seq(User) /\ wire \subseteq Asked /\ starts \in Nat

\* Nobody holds a session before it begins, so an ended one stays ended.
Begun == 1..Len(owner) \cup {Nobody}

SessionsBegun ==
  /\ alive \subseteq 1..Len(owner) /\ cookie \in Begun
  /\ \A q \in wire : q.cookie \in Begun /\ q.sets \subseteq Begun

\* What an answer says of the sessions that are alive now.
Says(kind, c, token, answer, live) ==
  /\ answer = "unauthorized" /\ kind \notin {"login", "change"} => c \notin live
  /\ answer = "ok" /\ kind = "logout" => c \notin live
  /\ answer = "forbidden" => kind \notin Reads /\ token # c
  /\ answer = "ok" /\ kind \notin Reads \cup {"login"} => token = c
  /\ answer = "ok" /\ kind # "login" => c # Nobody

Truthful(q, live) == Says(q.kind, q.cookie, q.token, q.answer, live)

AnswersTruthful == \A q \in wire : Truthful(q, alive)

\* A function of the provider awaits one request at a time, of its own kind or
\* for a token; what it asks again is asked with the token of the session it
\* began with, or its requests met several.
Awaits(j, q) ==
  /\ j.kind # "none"
  /\ j.kind = "login" => q.kind \in {"login", "session"}
  /\ j.kind # "login" => q.kind \in {"csrf", j.kind}
  /\ q.kind = "logout" /\ j.again /\ j.same => q.token = j.had

OfJob(q) == q.heard /\ q.reader = "job"

JobsAwait ==
  /\ \A q \in wire : OfJob(q) => Awaits(job[q.tab], q)
  /\ \A q, r \in wire : OfJob(q) /\ OfJob(r) /\ q.tab = r.tab => q = r
  /\ \A q \in wire : q.reader = "refresh" => q.kind = "session"
  /\ \A q \in wire : q.kind = "login" => q.person \in User

BrowserInv == BrowserTypeOK /\ SessionsBegun /\ AnswersTruthful /\ JobsAwait

-----------------------------------------------------------------------------
\* The sessions begun and alive after a step of the API.
Serves ==
  /\ owner' \in Seq(User) /\ Len(owner') >= Len(owner)
  /\ alive' \subseteq 1..Len(owner')
  /\ \A s \in alive' : s \in 1..Len(owner) => s \in alive

LEMMA BegunGrows ==
  ASSUME owner \in Seq(User), Serves, NEW s \in Begun
  PROVE  s \in Begun' /\ (s \in alive' => s \in alive) /\ s \in Maybe
  BY BoundAssumption DEF Begun, Serves, Maybe

LEMMA TruthStays ==
  ASSUME owner \in Seq(User), Serves, NEW q \in Asked, q.cookie \in Begun, Truthful(q, alive)
  PROVE  Truthful(q, alive')
  <1>1. q.cookie \in alive' => q.cookie \in alive
    BY BegunGrows
  <1>. QED BY <1>1 DEF Truthful, Says

LEMMA NobodyIsNone ==
  ASSUME NEW n \in Nat, NEW S \in SUBSET (1..n)
  PROVE  Nobody \notin S /\ \A s \in S : s # Nobody
  <1>1. \A s \in S : s \in Nat
    OBVIOUS
  <1>. QED BY <1>1, BoundAssumption

\* The API answers a request, truthfully, or the network loses it.
LEMMA ReplyKeeps ==
  ASSUME BrowserInv, NEW q \in wire, NEW a \in {"ok", "unauthorized", "forbidden", "lost"},
         NEW s, s \subseteq Begun', Reply(q, a, s), UNCHANGED <<browser, starts>>, Serves,
         Says(q.kind, q.cookie, q.token, a, alive')
  PROVE  BrowserInv'
  <1>. DEFINE p == [q EXCEPT !.answer = a, !.sets = s]
  <1>0. /\ owner \in Seq(User) /\ wire \subseteq Asked /\ q \in Asked
        /\ q.cookie \in Begun /\ UNCHANGED <<tab, job, cookie>>
    BY DEF BrowserInv, BrowserTypeOK, SessionsBegun, browser
  <1>1. s \subseteq Maybe
    <2>1. Len(owner') \in Nat
      BY DEF Serves
    <2>. QED BY <2>1 DEF Begun, Maybe
  <1>2. /\ p \in Asked /\ p.answer = a /\ p.sets = s
        /\ p.tab = q.tab /\ p.reader = q.reader /\ p.kind = q.kind /\ p.heard = q.heard
        /\ p.cookie = q.cookie /\ p.token = q.token /\ p.person = q.person
    BY <1>0, <1>1 DEF Asked
  <1>3. \A r \in wire' : (r \in wire /\ r # q) \/ r = p
    BY DEF Reply
  <1>. HIDE DEF p
  <1>4. Truthful(p, alive')
    BY <1>2 DEF Truthful
  <1>5. BrowserTypeOK'
    BY <1>0, <1>2, <1>3 DEF BrowserInv, BrowserTypeOK, Serves
  <1>6. SessionsBegun'
    <2>1. \A r \in wire' : r.cookie \in Begun' /\ r.sets \subseteq Begun'
      BY <1>0, <1>2, <1>3, BegunGrows DEF BrowserInv, SessionsBegun
    <2>2. cookie' \in Begun'
      BY <1>0, BegunGrows DEF BrowserInv, SessionsBegun
    <2>. QED BY <2>1, <2>2 DEF SessionsBegun, Serves
  <1>7. AnswersTruthful'
    <2>1. \A r \in wire : Truthful(r, alive')
      BY <1>0, TruthStays DEF BrowserInv, SessionsBegun, AnswersTruthful
    <2>. QED BY <2>1, <1>3, <1>4 DEF AnswersTruthful
  <1>8. JobsAwait'
    <2>1. \A r \in wire' : OfJob(r) => Awaits(job[r.tab], r)
      BY <1>2, <1>3 DEF BrowserInv, JobsAwait, OfJob, Awaits
    <2>2. \A r, u \in wire' : OfJob(r) /\ OfJob(u) /\ r.tab = u.tab => r = u
      BY <1>2, <1>3 DEF BrowserInv, JobsAwait, OfJob
    <2>3. \A r \in wire' : r.reader = "refresh" => r.kind = "session"
      BY <1>2, <1>3 DEF BrowserInv, JobsAwait
    <2>4. \A r \in wire' : r.kind = "login" => r.person \in User
      BY <1>2, <1>3 DEF BrowserInv, JobsAwait
    <2>. QED BY <1>0, <2>1, <2>2, <2>3, <2>4 DEF JobsAwait
  <1>. QED BY <1>5, <1>6, <1>7, <1>8 DEF BrowserInv

LEMMA ServeKeeps ==
  ASSUME BrowserInv, NEW q \in wire, Serve(q)
  PROVE  BrowserInv'
  <1>0. /\ owner \in Seq(User) /\ q \in Asked /\ q.cookie \in Begun
        /\ alive \subseteq 1..Len(owner) /\ Len(owner) \in Nat
    BY DEF BrowserInv, BrowserTypeOK, SessionsBegun
  <1>1. UNCHANGED <<browser, starts>>
    BY DEF Serve
  <1>2. ASSUME UNCHANGED server PROVE Serves /\ Begun' = Begun /\ alive' = alive
    BY <1>0, <1>2 DEF server, Serves, Begun
  <1>3. q.cookie \in alive => q.cookie # Nobody
    BY <1>0, NobodyIsNone
  <1>4. Nobody \in Begun /\ Nobody \notin alive
    BY <1>0, NobodyIsNone DEF Begun
  <1>5. CASE SignIn(q)
    <2>1. CASE /\ owner' = Append(owner, q.person)
               /\ alive' = alive \cup {Len(owner')}
               /\ Reply(q, "ok", {Len(owner')})
      <3>1. q.person \in User
        BY <1>5 DEF SignIn, BrowserInv, JobsAwait
      <3>2. owner' \in Seq(User) /\ Len(owner') = Len(owner) + 1
        BY <1>0, <2>1, <3>1
      <3>3. Serves
        <4>1. \A s \in alive' : s \in 1..Len(owner) \/ s = Len(owner) + 1
          BY <1>0, <2>1, <3>2
        <4>2. alive' \subseteq 1..Len(owner')
          BY <1>0, <3>2, <4>1
        <4>3. \A s \in alive' : s \in 1..Len(owner) => s \in alive
          BY <1>0, <2>1, <3>2
        <4>. QED BY <1>0, <3>2, <4>2, <4>3 DEF Serves
      <3>4. {Len(owner')} \subseteq Begun'
        BY <1>0, <3>2 DEF Begun
      <3>5. Says(q.kind, q.cookie, q.token, "ok", alive')
        BY <1>5 DEF SignIn, Says
      <3>. QED BY <1>1, <2>1, <3>3, <3>4, <3>5, ReplyKeeps
    <2>2. CASE Reply(q, "unauthorized", {}) /\ UNCHANGED server
      <3>1. Says(q.kind, q.cookie, q.token, "unauthorized", alive')
        BY <1>5 DEF SignIn, Says
      <3>. QED BY <1>1, <1>2, <2>2, <3>1, ReplyKeeps
    <2>. QED BY <1>5, <2>1, <2>2 DEF SignIn
  <1>6. CASE RefuseRequest(q)
    <2>0. UNCHANGED server
      BY <1>6 DEF RefuseRequest
    <2>1. CASE q.cookie \notin alive /\ \E s \in {{}, {Nobody}} : Reply(q, "unauthorized", s)
      <3>1. PICK s \in {{}, {Nobody}} : Reply(q, "unauthorized", s)
        BY <2>1
      <3>2. Says(q.kind, q.cookie, q.token, "unauthorized", alive')
        BY <1>2, <2>0, <2>1 DEF Says
      <3>3. s \subseteq Begun'
        BY <1>2, <1>4, <2>0
      <3>. QED BY <1>1, <1>2, <2>0, <3>1, <3>2, <3>3, ReplyKeeps
    <2>2. CASE ~Verified(q) /\ Reply(q, "forbidden", {q.cookie})
      <3>1. Says(q.kind, q.cookie, q.token, "forbidden", alive')
        BY <2>2 DEF Says, Verified
      <3>2. {q.cookie} \subseteq Begun'
        BY <1>0, <1>2, <2>0
      <3>. QED BY <1>1, <1>2, <2>0, <2>2, <3>1, <3>2, ReplyKeeps
    <2>. QED BY <1>4, <1>6, <2>1, <2>2 DEF RefuseRequest
  <1>7. CASE Use(q)
    <2>1. UNCHANGED server /\ Reply(q, "ok", {q.cookie}) /\ Passes(q) /\ q.kind \in Harmless
      BY <1>7 DEF Use
    <2>2. Says(q.kind, q.cookie, q.token, "ok", alive')
      BY <1>3, <2>1 DEF Says, Passes, Verified, Harmless, Reads
    <2>3. {q.cookie} \subseteq Begun'
      BY <1>0, <1>2, <2>1
    <2>. QED BY <1>1, <1>2, <2>1, <2>2, <2>3, ReplyKeeps
  <1>8. CASE SignOut(q)
    <2>1. /\ Reply(q, "ok", {Nobody}) /\ Passes(q) /\ q.kind = "logout"
          /\ alive' = alive \ {q.cookie} /\ UNCHANGED owner
      BY <1>8 DEF SignOut
    <2>2. Says(q.kind, q.cookie, q.token, "ok", alive')
      BY <1>3, <2>1 DEF Says, Passes, Verified, Reads
    <2>3. Serves
      <3>1. owner' = owner /\ alive' \subseteq alive
        BY <2>1
      <3>. QED BY <1>0, <3>1 DEF Serves
    <2>4. {Nobody} \subseteq Begun'
      BY DEF Begun
    <2>. QED BY <1>1, <2>1, <2>2, <2>3, <2>4, ReplyKeeps
  <1>9. CASE ChangePassword(q)
    <2>0. Passes(q) /\ q.kind = "change" /\ UNCHANGED owner
      BY <1>9 DEF ChangePassword
    <2>1. CASE /\ Reply(q, "ok", {Nobody})
               /\ alive' = {s \in alive : owner[s] # owner[q.cookie]}
      <3>1. Says(q.kind, q.cookie, q.token, "ok", alive')
        BY <1>3, <2>0 DEF Says, Passes, Verified, Reads
      <3>2. Serves
        <4>1. owner' = owner /\ alive' \subseteq alive
          BY <2>0, <2>1
        <4>. QED BY <1>0, <4>1 DEF Serves
      <3>3. {Nobody} \subseteq Begun'
        BY DEF Begun
      <3>. QED BY <1>1, <2>1, <3>1, <3>2, <3>3, ReplyKeeps
    <2>2. CASE Reply(q, "unauthorized", {q.cookie}) /\ UNCHANGED alive
      <3>0. UNCHANGED server
        BY <2>0, <2>2 DEF server
      <3>1. Says(q.kind, q.cookie, q.token, "unauthorized", alive')
        BY <2>0 DEF Says
      <3>2. {q.cookie} \subseteq Begun'
        BY <1>0, <1>2, <3>0
      <3>. QED BY <1>1, <1>2, <2>2, <3>0, <3>1, <3>2, ReplyKeeps
    <2>. QED BY <1>9, <2>1, <2>2 DEF ChangePassword
  <1>. QED BY <1>5, <1>6, <1>7, <1>8, <1>9 DEF Serve

LEMMA LoseKeeps ==
  ASSUME BrowserInv, NEW q \in wire, Lose(q)
  PROVE  BrowserInv'
  <1>0. owner \in Seq(User) /\ alive \subseteq 1..Len(owner) /\ Len(owner) \in Nat
    BY DEF BrowserInv, BrowserTypeOK, SessionsBegun
  <1>1. UNCHANGED <<browser, starts>> /\ UNCHANGED server /\ Reply(q, "lost", {})
    BY DEF Lose
  <1>2. Serves /\ Says(q.kind, q.cookie, q.token, "lost", alive')
    BY <1>0, <1>1 DEF server, Serves, Says
  <1>. QED BY <1>1, <1>2, ReplyKeeps

LEMMA ExpireKeeps ==
  ASSUME BrowserInv, NEW s \in alive, Expire(s)
  PROVE  BrowserInv'
  <1>1. UNCHANGED <<tab, job, cookie, owner, wire, starts>> /\ alive' = alive \ {s}
    BY DEF Expire, browser
  <1>2. owner \in Seq(User) /\ alive \subseteq 1..Len(owner) /\ Len(owner) \in Nat
    BY DEF BrowserInv, BrowserTypeOK, SessionsBegun
  <1>3. Serves
    BY <1>1, <1>2 DEF Serves
  <1>4. BrowserTypeOK' /\ SessionsBegun' /\ JobsAwait'
    BY <1>1 DEF BrowserInv, BrowserTypeOK, SessionsBegun, JobsAwait, Begun
  <1>5. AnswersTruthful'
    BY <1>1, <1>2, <1>3, TruthStays
       DEF BrowserInv, BrowserTypeOK, SessionsBegun, AnswersTruthful
  <1>. QED BY <1>4, <1>5 DEF BrowserInv

-----------------------------------------------------------------------------
\* What holds of every request under way.
Sound(r) ==
  /\ r.cookie \in Begun /\ r.sets \subseteq Begun /\ Truthful(r, alive)
  /\ r.reader = "refresh" => r.kind = "session"
  /\ r.kind = "login" => r.person \in User

LEMMA WireSound ==
  ASSUME BrowserInv, NEW r \in wire
  PROVE  r \in Asked /\ Sound(r)
  BY DEF BrowserInv, BrowserTypeOK, SessionsBegun, AnswersTruthful, JobsAwait, Sound

LEMMA NewSound ==
  ASSUME NEW t \in Tab, NEW reader \in {"refresh", "job"},
         NEW kind \in {"session", "csrf", "login", "logout", "command", "change"},
         NEW c \in Begun, c \in Maybe, NEW token \in Maybe, NEW p \in User \cup {Nobody},
         reader = "refresh" => kind = "session", kind = "login" => p \in User,
         NEW r, r = NewRequest(t, reader, kind, c, token, p)
  PROVE  /\ r \in Asked /\ Sound(r)
         /\ r.tab = t /\ r.reader = reader /\ r.kind = kind /\ r.token = token /\ r.heard
  <1>1. r \in Asked
    BY DEF NewRequest, Asked
  <1>2. /\ r.tab = t /\ r.reader = reader /\ r.kind = kind /\ r.token = token /\ r.heard
        /\ r.cookie = c /\ r.person = p /\ r.answer = "none" /\ r.sets = {}
    BY DEF NewRequest
  <1>. QED BY <1>1, <1>2 DEF Sound, Truthful, Says

LEMMA BegunMaybe ==
  ASSUME BrowserInv, NEW c \in Begun
  PROVE  c \in Maybe
  <1>1. Len(owner) \in Nat
    BY DEF BrowserInv, BrowserTypeOK
  <1>. QED BY <1>1 DEF Begun, Maybe

\* A step of a browser keeps the invariant when its requests and jobs do.
LEMMA BrowserMoves ==
  ASSUME BrowserInv, UNCHANGED server, cookie' \in Begun, starts' \in Nat,
         tab' \in [Tab -> States], job' \in [Tab -> Jobs],
         \A r \in wire' : r \in Asked /\ Sound(r),
         \A r \in wire' : OfJob(r) => Awaits(job'[r.tab], r),
         \A r, u \in wire' : OfJob(r) /\ OfJob(u) /\ r.tab = u.tab => r = u
  PROVE  BrowserInv'
  <1>1. owner' = owner /\ alive' = alive /\ Begun' = Begun
    BY DEF server, Begun
  <1>2. BrowserTypeOK'
    BY <1>1 DEF BrowserInv, BrowserTypeOK
  <1>3. SessionsBegun'
    BY <1>1 DEF BrowserInv, SessionsBegun, Sound
  <1>4. AnswersTruthful'
    BY <1>1 DEF AnswersTruthful, Sound
  <1>5. JobsAwait'
    BY DEF JobsAwait, Sound
  <1>. QED BY <1>2, <1>3, <1>4, <1>5 DEF BrowserInv

LEMMA JobsStay ==
  ASSUME BrowserInv, UNCHANGED job, \A r \in wire' : r \in wire \/ ~OfJob(r)
  PROVE  /\ \A r \in wire' : OfJob(r) => Awaits(job'[r.tab], r)
         /\ \A r, u \in wire' : OfJob(r) /\ OfJob(u) /\ r.tab = u.tab => r = u
  BY DEF BrowserInv, JobsAwait

LEMMA JobMoves ==
  ASSUME BrowserInv, NEW t \in Tab, NEW j \in Jobs, job' = [job EXCEPT ![t] = j],
         NEW n, OfJob(n) => n.tab = t /\ Awaits(j, n),
         \A r \in wire' : r = n \/ ~OfJob(r) \/ (r \in wire /\ r.tab # t)
  PROVE  /\ job' \in [Tab -> Jobs]
         /\ \A r \in wire' : OfJob(r) => Awaits(job'[r.tab], r)
         /\ \A r, u \in wire' : OfJob(r) /\ OfJob(u) /\ r.tab = u.tab => r = u
  <1>1. job \in [Tab -> Jobs] /\ \A r \in wire : r \in Asked
    BY DEF BrowserInv, BrowserTypeOK
  <1>2. job' \in [Tab -> Jobs] /\ job'[t] = j
    BY <1>1
  <1>3. \A r \in wire : r.tab # t => job'[r.tab] = job[r.tab]
    <2>. SUFFICES ASSUME NEW r \in wire, r.tab # t PROVE job'[r.tab] = job[r.tab]
      OBVIOUS
    <2>1. r.tab \in Tab
      BY <1>1 DEF Asked
    <2>. QED BY <1>1, <2>1
  <1>4. \A r \in wire' : OfJob(r) => Awaits(job'[r.tab], r)
    BY <1>2, <1>3 DEF BrowserInv, JobsAwait
  <1>5. \A r, u \in wire' : OfJob(r) /\ OfJob(u) /\ r.tab = u.tab => r = u
    BY DEF BrowserInv, JobsAwait
  <1>. QED BY <1>2, <1>4, <1>5

LEMMA FreeTyped == Free \in Jobs /\ Loading \in States /\ Anonymous \in States
  BY DEF Free, Jobs, Anonymous, Loading, States, Maybe

LEMMA FocusKeeps ==
  ASSUME BrowserInv, NEW t \in Tab, Focus(t)
  PROVE  BrowserInv'
  <1>. DEFINE n == NewRequest(t, "refresh", "session", cookie, Nobody, Nobody)
  <1>1. /\ UNCHANGED <<tab, job, cookie, server>> /\ starts' = starts + 1
        /\ wire' = wire \cup {n}
    BY DEF Focus, Starts, browser
  <1>2. cookie \in Begun /\ cookie \in Maybe /\ Nobody \in Maybe
    BY BegunMaybe DEF BrowserInv, SessionsBegun, Maybe
  <1>3. n \in Asked /\ Sound(n) /\ n.reader = "refresh"
    BY <1>2, NewSound
  <1>. HIDE DEF n
  <1>4. \A r \in wire' : r \in Asked /\ Sound(r)
    BY <1>1, <1>3, WireSound
  <1>5. \A r \in wire' : r \in wire \/ ~OfJob(r)
    BY <1>1, <1>3 DEF OfJob
  <1>6. /\ tab' \in [Tab -> States] /\ job' \in [Tab -> Jobs] /\ starts' \in Nat
    BY <1>1 DEF BrowserInv, BrowserTypeOK
  <1>7. UNCHANGED job /\ cookie' \in Begun /\ UNCHANGED server
    BY <1>1, <1>2
  <1>. QED BY <1>4, <1>5, <1>6, <1>7, JobsStay, BrowserMoves

LEMMA ReloadKeeps ==
  ASSUME BrowserInv, NEW t \in Tab, Reload(t)
  PROVE  BrowserInv'
  <1>. DEFINE n == NewRequest(t, "refresh", "session", cookie, Nobody, Nobody)
              forgot(q) == [q EXCEPT !.heard = q.heard /\ q.tab # t]
  <1>1. /\ UNCHANGED <<cookie, server>> /\ starts' = starts + 1
        /\ tab' = [tab EXCEPT ![t] = Loading] /\ job' = [job EXCEPT ![t] = Free]
        /\ \A r \in wire' : r = n \/ \E q \in wire : r = forgot(q)
    BY DEF Reload, Starts
  <1>2. cookie \in Begun /\ cookie \in Maybe /\ Nobody \in Maybe
    BY BegunMaybe DEF BrowserInv, SessionsBegun, Maybe
  <1>3. n \in Asked /\ Sound(n) /\ n.reader = "refresh"
    BY <1>2, NewSound
  <1>4. ASSUME NEW q \in wire
        PROVE  /\ forgot(q) \in Asked /\ Sound(forgot(q))
               /\ OfJob(forgot(q)) => forgot(q) = q /\ q.tab # t
    <2>1. q \in Asked /\ Sound(q)
      BY WireSound
    <2>2. (q.heard /\ q.tab # t) \in BOOLEAN
      OBVIOUS
    <2>3. /\ forgot(q) \in Asked /\ forgot(q).heard = (q.heard /\ q.tab # t)
          /\ forgot(q).tab = q.tab /\ forgot(q).reader = q.reader /\ forgot(q).kind = q.kind
          /\ forgot(q).cookie = q.cookie /\ forgot(q).token = q.token
          /\ forgot(q).person = q.person /\ forgot(q).answer = q.answer
          /\ forgot(q).sets = q.sets
      BY <2>1, <2>2 DEF Asked
    <2>4. Sound(forgot(q))
      <3>. HIDE DEF forgot
      <3>. QED BY <2>1, <2>3 DEF Sound, Truthful
    <2>5. ASSUME OfJob(forgot(q)) PROVE forgot(q) = q /\ q.tab # t
      <3>1. q.heard /\ q.tab # t
        BY <2>3, <2>5 DEF OfJob
      <3>2. q.heard = TRUE
        BY <2>1, <3>1 DEF Asked
      <3>. QED BY <2>1, <3>1, <3>2 DEF Asked
    <2>. QED BY <2>3, <2>4, <2>5
  <1>. HIDE DEF n, forgot
  <1>5. \A r \in wire' : r \in Asked /\ Sound(r)
    BY <1>1, <1>3, <1>4
  <1>6. \A r \in wire' : r = n \/ ~OfJob(r) \/ (r \in wire /\ r.tab # t)
    BY <1>1, <1>4
  <1>7. ~OfJob(n)
    BY <1>3 DEF OfJob
  <1>8. /\ job' \in [Tab -> Jobs]
        /\ \A r \in wire' : OfJob(r) => Awaits(job'[r.tab], r)
        /\ \A r, u \in wire' : OfJob(r) /\ OfJob(u) /\ r.tab = u.tab => r = u
    BY <1>1, <1>6, <1>7, FreeTyped, JobMoves
  <1>9. tab' \in [Tab -> States] /\ starts' \in Nat
    BY <1>1, FreeTyped DEF BrowserInv, BrowserTypeOK
  <1>. QED BY <1>1, <1>2, <1>5, <1>8, <1>9, BrowserMoves

\* A function of the provider begins, or goes on when its answer is there: what
\* it awaited, if anything, is gone, and it awaits a request of its own.
LEMMA JobGoesOn ==
  ASSUME BrowserInv, NEW t \in Tab, NEW j \in Jobs, job' = [job EXCEPT ![t] = j],
         UNCHANGED server, cookie' \in Begun, starts' \in Nat, tab' \in [Tab -> States],
         NEW n, n \in Asked, Sound(n), n.tab = t, Awaits(j, n),
         \A r \in wire' : r = n \/ (r \in wire /\ ~(OfJob(r) /\ r.tab = t))
  PROVE  BrowserInv'
  <1>2. \A r \in wire' : r \in Asked /\ Sound(r)
    BY WireSound
  <1>3. \A r \in wire' : r = n \/ ~OfJob(r) \/ (r \in wire /\ r.tab # t)
    OBVIOUS
  <1>4. /\ job' \in [Tab -> Jobs]
        /\ \A r \in wire' : OfJob(r) => Awaits(job'[r.tab], r)
        /\ \A r, u \in wire' : OfJob(r) /\ OfJob(u) /\ r.tab = u.tab => r = u
    BY <1>3, JobMoves
  <1>. QED BY <1>2, <1>4, BrowserMoves

\* Nothing is awaited where no function is under way.
LEMMA FreeAwaitsNothing ==
  ASSUME BrowserInv, NEW t \in Tab, job[t] = Free
  PROVE  \A r \in wire : ~(OfJob(r) /\ r.tab = t)
  BY DEF BrowserInv, JobsAwait, Awaits, Free

LEMMA LoginKeeps ==
  ASSUME BrowserInv, NEW t \in Tab, NEW p \in User, Login(t, p)
  PROVE  BrowserInv'
  <1>. DEFINE n == NewRequest(t, "job", "login", cookie', Nobody, p)
              j == [Free EXCEPT !.kind = "login"]
  <1>1. /\ UNCHANGED <<tab, cookie, server>> /\ starts' = starts + 1
        /\ job[t] = Free /\ job' = [job EXCEPT ![t] = j] /\ wire' = wire \cup {n}
    BY DEF Login, Starts
  <1>2. j \in Jobs /\ j.kind = "login"
    BY FreeTyped DEF Free, Jobs
  <1>3. Awaits(j, n)
    BY <1>2 DEF Awaits, NewRequest
  <1>4. cookie' \in Begun /\ starts' \in Nat /\ tab' \in [Tab -> States]
    BY <1>1 DEF BrowserInv, BrowserTypeOK, SessionsBegun
  <1>5. \A r \in wire' : r = n \/ (r \in wire /\ ~(OfJob(r) /\ r.tab = t))
    BY <1>1, FreeAwaitsNothing
  <1>6. cookie' \in Maybe /\ Nobody \in Maybe
    BY <1>1, <1>4, BegunMaybe DEF Maybe
  <1>7. n \in Asked /\ Sound(n) /\ n.tab = t
    BY <1>4, <1>6, NewSound
  <1>. HIDE DEF n, j
  <1>. QED BY <1>1, <1>2, <1>3, <1>4, <1>5, <1>7, JobGoesOn

\* What a function that needs a token asks first.
LEMMA AsksOne ==
  ASSUME NEW t, NEW kind \in {"logout", "command", "change"}, NEW token \in Maybe
  PROVE  \E k \in {"csrf", kind}, c \in {Nobody, token} :
           /\ Asks(t, kind, token) = NewRequest(t, "job", k, cookie', c, Nobody)
           /\ k = "logout" => c = token
  BY DEF Asks

LEMMA BeginKeepsBrowser ==
  ASSUME BrowserInv, NEW t \in Tab, NEW kind \in {"logout", "command", "change"},
         BeginJob(t, kind)
  PROVE  BrowserInv'
  <1>. DEFINE j == [Free EXCEPT !.kind = kind, !.found = tab[t], !.had = cookie]
              n == Asks(t, kind, tab[t].token)
  <1>1. /\ UNCHANGED <<tab, cookie, server>> /\ starts' = starts + 1
        /\ job[t] = Free /\ job' = [job EXCEPT ![t] = j] /\ wire' = wire \cup {n}
    BY DEF BeginJob, Starts
  <1>2. tab[t] \in States /\ cookie \in Maybe /\ tab[t].token \in Maybe
    <2>1. tab[t] \in States
      BY DEF BrowserInv, BrowserTypeOK
    <2>. QED BY <2>1, BegunMaybe DEF BrowserInv, SessionsBegun, States
  <1>3. j \in Jobs /\ j.kind = kind /\ j.again = FALSE
    BY <1>2, FreeTyped DEF Free, Jobs
  <1>4. PICK k \in {"csrf", kind}, c \in {Nobody, tab[t].token} :
          n = NewRequest(t, "job", k, cookie', c, Nobody)
    BY <1>2, AsksOne
  <1>5. n.kind = k
    BY <1>4 DEF NewRequest
  <1>6. /\ k \in {"session", "csrf", "login", "logout", "command", "change"} /\ k # "login"
        /\ c \in Maybe /\ cookie' \in Begun /\ cookie' \in Maybe
    BY <1>1, <1>2 DEF Maybe, BrowserInv, SessionsBegun
  <1>7. n \in Asked /\ Sound(n) /\ n.tab = t
    BY <1>4, <1>6, NewSound
  <1>. HIDE DEF n, j
  <1>8. Awaits(j, n)
    BY <1>3, <1>5 DEF Awaits
  <1>9. starts' \in Nat /\ tab' \in [Tab -> States]
    BY <1>1 DEF BrowserInv, BrowserTypeOK
  <1>10. \A r \in wire' : r = n \/ (r \in wire /\ ~(OfJob(r) /\ r.tab = t))
    BY <1>1, FreeAwaitsNothing
  <1>. QED BY <1>1, <1>3, <1>6, <1>7, <1>8, <1>9, <1>10, JobGoesOn

\* The session an answer shows is somebody's.
LEMMA ShownIsSomebodys ==
  ASSUME BrowserInv, NEW q \in wire, q.answer = "ok", q.kind # "login", NEW token \in Maybe
  PROVE  Authenticated(owner[q.cookie], token) \in States
  <1>1. q.cookie \in 1..Len(owner)
    BY WireSound DEF Sound, Truthful, Says, Begun
  <1>2. owner[q.cookie] \in User
    BY <1>1 DEF BrowserInv, BrowserTypeOK
  <1>. QED BY <1>2 DEF Authenticated, States

LEMMA RefreshedKeeps ==
  ASSUME BrowserInv, NEW q \in wire, NEW t \in Tab, Refreshed(t, q),
         cookie' \in Begun, UNCHANGED <<server, starts>>
  PROVE  BrowserInv'
  <1>1. tab \in [Tab -> States] /\ tab[t] \in States /\ tab[t].token \in Maybe
    BY DEF BrowserInv, BrowserTypeOK, States
  <1>2. q.kind # "login"
    BY WireSound DEF Refreshed, Sound
  <1>3. PICK s \in States : tab' = [tab EXCEPT ![t] = s]
    <2>1. CASE q.answer = "ok"
      <3>1. tab' = [tab EXCEPT ![t] = Authenticated(owner[q.cookie], tab[t].token)]
        BY <2>1 DEF Refreshed, TabBecomes
      <3>. QED BY <1>1, <1>2, <2>1, <3>1, ShownIsSomebodys
    <2>2. CASE q.answer # "ok"
      <3>1. \E s \in {Anonymous, tab[t]} : tab' = [tab EXCEPT ![t] = s]
        BY <2>2 DEF Refreshed, TabBecomes
      <3>. QED BY <1>1, <3>1, FreeTyped
    <2>. QED BY <2>1, <2>2
  <1>4. tab' \in [Tab -> States] /\ job' \in [Tab -> Jobs] /\ starts' \in Nat
    BY <1>1, <1>3 DEF Refreshed, BrowserInv, BrowserTypeOK
  <1>5. UNCHANGED job /\ \A r \in wire' : r \in wire
    BY DEF Refreshed
  <1>6. \A r \in wire' : r \in Asked /\ Sound(r)
    BY <1>5, WireSound
  <1>. QED BY <1>4, <1>5, <1>6, JobsStay, BrowserMoves

LEMMA EndsKeeps ==
  ASSUME BrowserInv, NEW q \in wire, NEW t \in Tab, OfJob(q), q.tab = t, Ends(t, q),
         cookie' \in Begun, UNCHANGED <<server, starts>>, tab' \in [Tab -> States]
  PROVE  BrowserInv'
  <1>1. job' = [job EXCEPT ![t] = Free] /\ wire' = wire \ {q} /\ starts' \in Nat
    BY DEF Ends, BrowserInv, BrowserTypeOK
  <1>2. \A r \in wire' : r \in Asked /\ Sound(r)
    BY <1>1, WireSound
  <1>. DEFINE n == [heard |-> FALSE]
  <1>3. ~OfJob(n)
    BY DEF OfJob
  <1>4. \A r \in wire' : ~OfJob(r) \/ (r \in wire /\ r.tab # t)
    BY <1>1 DEF BrowserInv, JobsAwait
  <1>. HIDE DEF n
  <1>5. /\ job' \in [Tab -> Jobs]
        /\ \A r \in wire' : OfJob(r) => Awaits(job'[r.tab], r)
        /\ \A r, u \in wire' : OfJob(r) /\ OfJob(u) /\ r.tab = u.tab => r = u
    BY <1>1, <1>3, <1>4, FreeTyped, JobMoves
  <1>. QED BY <1>1, <1>2, <1>5, BrowserMoves

\* The answer a function awaited is taken off the wire for a request of its own.
LEMMA FollowedBy ==
  ASSUME BrowserInv, NEW q \in wire, NEW t \in Tab, OfJob(q), q.tab = t, NEW n, Follows(t, q, n)
  PROVE  \A r \in wire' : r = n \/ (r \in wire /\ ~(OfJob(r) /\ r.tab = t))
  BY DEF BrowserInv, JobsAwait, Follows

LEMMA AwaitedBy ==
  ASSUME BrowserInv, NEW q \in wire, NEW t \in Tab, OfJob(q), q.tab = t
  PROVE  /\ Awaits(job[t], q) /\ job[t] \in Jobs /\ job[t].found \in States
         /\ job[t].kind \in {"login", "logout", "command", "change"}
         /\ job[t].again \in BOOLEAN /\ job[t].had \in Maybe
         /\ q \in Asked /\ Sound(q) /\ q.cookie \in Maybe /\ tab[t] \in States
  <1>1. job[t] \in Jobs /\ tab[t] \in States /\ Awaits(job[t], q)
    BY DEF BrowserInv, BrowserTypeOK, JobsAwait
  <1>2. q \in Asked /\ Sound(q)
    BY WireSound
  <1>. QED BY <1>1, <1>2 DEF Jobs, Asked, Awaits

LEMMA EstablishingKeeps ==
  ASSUME BrowserInv, NEW q \in wire, NEW t \in Tab, OfJob(q), q.tab = t, Establishing(t, q),
         job[t].kind = "login", cookie' \in Begun, UNCHANGED <<server, starts>>
  PROVE  BrowserInv'
  <1>. DEFINE j == [job[t] EXCEPT !.token = cookie']
              n == NewRequest(t, "job", "session", cookie', Nobody, Nobody)
  <1>0. cookie' \in Maybe /\ Nobody \in Maybe /\ job[t] \in Jobs
    BY BegunMaybe, AwaitedBy DEF Maybe
  <1>1. /\ job' = [job EXCEPT ![t] = j] /\ UNCHANGED tab /\ Follows(t, q, n)
    BY DEF Establishing
  <1>2. j \in Jobs /\ j.kind = "login"
    BY <1>0 DEF Jobs
  <1>3. n \in Asked /\ Sound(n) /\ n.tab = t /\ n.kind = "session"
    BY <1>0, NewSound
  <1>. HIDE DEF n, j
  <1>4. Awaits(j, n)
    BY <1>2, <1>3 DEF Awaits
  <1>5. \A r \in wire' : r = n \/ (r \in wire /\ ~(OfJob(r) /\ r.tab = t))
    BY <1>1, FollowedBy
  <1>6. starts' \in Nat /\ tab' \in [Tab -> States] /\ UNCHANGED server
    BY <1>1 DEF BrowserInv, BrowserTypeOK
  <1>. QED BY <1>1, <1>2, <1>3, <1>4, <1>5, <1>6, JobGoesOn

LEMMA EstablishedKeeps ==
  ASSUME BrowserInv, NEW q \in wire, NEW t \in Tab, OfJob(q), q.tab = t, Established(t, q),
         job[t].kind = "login", cookie' \in Begun, UNCHANGED <<server, starts>>
  PROVE  BrowserInv'
  <1>0. tab \in [Tab -> States] /\ tab[t] \in States /\ job[t].token \in Maybe
    BY AwaitedBy DEF BrowserInv, BrowserTypeOK, Jobs
  <1>1. PICK s \in States : tab' = [tab EXCEPT ![t] = s]
    <2>1. CASE q.kind = "session" /\ q.answer = "ok"
      <3>1. tab' = [tab EXCEPT ![t] = Authenticated(owner[q.cookie], job[t].token)]
        BY <2>1 DEF Established, TabBecomes
      <3>2. Authenticated(owner[q.cookie], job[t].token) \in States
        BY <1>0, <2>1, ShownIsSomebodys
      <3>. QED BY <3>1, <3>2
    <2>2. CASE ~(q.kind = "session" /\ q.answer = "ok")
      <3>1. tab' = [tab EXCEPT ![t] = tab[t]]
        BY <2>2 DEF Established, TabBecomes
      <3>. QED BY <1>0, <3>1
    <2>. QED BY <2>1, <2>2
  <1>2. tab' \in [Tab -> States]
    BY <1>0, <1>1
  <1>3. Ends(t, q)
    BY DEF Established
  <1>. QED BY <1>2, <1>3, EndsKeeps

LEMMA TokenedKeeps ==
  ASSUME BrowserInv, NEW q \in wire, NEW t \in Tab, OfJob(q), q.tab = t, Tokened(t, q),
         job[t].kind # "login", cookie' \in Begun, UNCHANGED <<server, starts>>
  PROVE  BrowserInv'
  <1>. DEFINE j == [job[t] EXCEPT !.same = Keeps(t, q)]
              s == [job[t].found EXCEPT !.token = q.cookie]
              n == NewRequest(t, "job", job[t].kind, cookie', q.cookie, Nobody)
  <1>0. /\ cookie' \in Maybe /\ Nobody \in Maybe /\ job[t] \in Jobs /\ job[t].found \in States
        /\ q.cookie \in Maybe /\ tab \in [Tab -> States]
        /\ job[t].kind \in {"logout", "command", "change"}
    BY BegunMaybe, AwaitedBy DEF Maybe, BrowserInv, BrowserTypeOK
  <1>1. q.kind = "csrf" /\ q.cookie # Nobody
    BY AwaitedBy DEF Tokened, Sound, Truthful, Says
  <1>2. /\ job' = [job EXCEPT ![t] = j] /\ tab' = [tab EXCEPT ![t] = s]
        /\ Follows(t, q, n)
    BY <1>1 DEF Tokened, TabBecomes, Asks
  <1>3. Keeps(t, q) \in BOOLEAN
    BY <1>0 DEF Keeps, Jobs
  <1>4. /\ j \in Jobs /\ j.kind = job[t].kind /\ j.had = job[t].had
        /\ j.same => q.cookie = job[t].had
    BY <1>0, <1>3 DEF Jobs, Keeps
  <1>5. s \in States
    BY <1>0 DEF States
  <1>6. n \in Asked /\ Sound(n) /\ n.tab = t /\ n.kind = job[t].kind /\ n.token = q.cookie
    BY <1>0, NewSound
  <1>. HIDE DEF n, j, s
  <1>7. Awaits(j, n)
    BY <1>0, <1>4, <1>6 DEF Awaits
  <1>8. \A r \in wire' : r = n \/ (r \in wire /\ ~(OfJob(r) /\ r.tab = t))
    BY <1>2, FollowedBy
  <1>9. starts' \in Nat /\ tab' \in [Tab -> States] /\ UNCHANGED server
    BY <1>0, <1>2, <1>5 DEF BrowserInv, BrowserTypeOK
  <1>. QED BY <1>2, <1>4, <1>6, <1>7, <1>8, <1>9, JobGoesOn

LEMMA AsksAgainKeeps ==
  ASSUME BrowserInv, NEW q \in wire, NEW t \in Tab, OfJob(q), q.tab = t, AsksAgain(t, q),
         cookie' \in Begun, UNCHANGED <<server, starts>>
  PROVE  BrowserInv'
  <1>. DEFINE j == [job[t] EXCEPT !.found = tab[t], !.again = TRUE, !.same = Keeps(t, q)]
              n == NewRequest(t, "job", "csrf", cookie', Nobody, Nobody)
  <1>0. /\ cookie' \in Maybe /\ Nobody \in Maybe /\ job[t] \in Jobs /\ tab[t] \in States
        /\ q.cookie \in Maybe
    BY BegunMaybe, AwaitedBy DEF Maybe
  <1>1. /\ job' = [job EXCEPT ![t] = j] /\ UNCHANGED tab /\ Follows(t, q, n)
        /\ job[t].kind = "logout"
    BY DEF AsksAgain, MayAskAgain, Asks
  <1>2. Keeps(t, q) \in BOOLEAN
    BY <1>0 DEF Keeps, Jobs
  <1>3. j \in Jobs /\ j.kind = "logout"
    BY <1>0, <1>1, <1>2 DEF Jobs
  <1>4. n \in Asked /\ Sound(n) /\ n.tab = t /\ n.kind = "csrf"
    BY <1>0, NewSound
  <1>. HIDE DEF n, j
  <1>5. Awaits(j, n)
    BY <1>3, <1>4 DEF Awaits
  <1>6. \A r \in wire' : r = n \/ (r \in wire /\ ~(OfJob(r) /\ r.tab = t))
    BY <1>1, FollowedBy
  <1>7. starts' \in Nat /\ tab' \in [Tab -> States] /\ UNCHANGED server
    BY <1>1 DEF BrowserInv, BrowserTypeOK
  <1>. QED BY <1>1, <1>3, <1>4, <1>5, <1>6, <1>7, JobGoesOn

LEMMA LastKeeps ==
  ASSUME BrowserInv, NEW q \in wire, NEW t \in Tab, OfJob(q), q.tab = t,
         SignedOut(t, q) \/ Done(t, q), cookie' \in Begun, UNCHANGED <<server, starts>>
  PROVE  BrowserInv'
  <1>1. tab \in [Tab -> States] /\ tab[t] \in States /\ Anonymous \in States
    BY FreeTyped DEF BrowserInv, BrowserTypeOK
  <1>2. \E s \in {Anonymous, tab[t]} : tab' = [tab EXCEPT ![t] = s]
    BY DEF SignedOut, Done, TabBecomes
  <1>3. tab' \in [Tab -> States]
    BY <1>1, <1>2
  <1>4. Ends(t, q)
    BY DEF SignedOut, Done
  <1>. QED BY <1>3, <1>4, EndsKeeps

LEMMA DeliverKeeps ==
  ASSUME BrowserInv, NEW q \in wire, Deliver(q)
  PROVE  BrowserInv'
  <1>. DEFINE t == q.tab
  <1>1. t \in Tab /\ q.sets \subseteq Begun /\ cookie \in Begun
    BY WireSound DEF Asked, Sound, BrowserInv, SessionsBegun
  <1>2. cookie' \in Begun /\ UNCHANGED <<server, starts>> /\ q.heard
    BY <1>1 DEF Deliver
  <1>3. Refreshed(t, q) \/ (q.reader = "job" /\ Returns(t, q))
    BY DEF Deliver
  <1>4. q.tab = t
    OBVIOUS
  <1>. HIDE DEF t
  <1>5. CASE Refreshed(t, q)
    BY <1>1, <1>2, <1>5, RefreshedKeeps
  <1>6. CASE q.reader = "job" /\ Returns(t, q)
    <2>1. OfJob(q)
      BY <1>2, <1>6 DEF OfJob
    <2>2. CASE job[t].kind = "login"
      <3>1. Establishing(t, q) \/ Established(t, q)
        BY <1>6, <2>2 DEF Returns
      <3>. QED BY <1>1, <1>2, <1>4, <2>1, <2>2, <3>1, EstablishingKeeps, EstablishedKeeps
    <2>3. CASE job[t].kind # "login"
      <3>1. CASE Tokened(t, q)
        BY <1>1, <1>2, <1>4, <2>1, <2>3, <3>1, TokenedKeeps
      <3>2. CASE AsksAgain(t, q)
        BY <1>1, <1>2, <1>4, <2>1, <3>2, AsksAgainKeeps
      <3>3. CASE SignedOut(t, q) \/ Done(t, q)
        BY <1>1, <1>2, <1>4, <2>1, <3>3, LastKeeps
      <3>. QED BY <1>6, <2>3, <3>1, <3>2, <3>3 DEF Returns
    <2>. QED BY <2>2, <2>3
  <1>. QED BY <1>3, <1>5, <1>6

-----------------------------------------------------------------------------
LEMMA BrowserBegins == BrowserInit => BrowserInv
  <1>. SUFFICES ASSUME BrowserInit PROVE BrowserInv
    OBVIOUS
  <1>1. owner \in Seq(User) /\ cookie \in Begun /\ alive \subseteq 1..Len(owner)
    <2>1. CASE cookie = Nobody /\ owner = <<>>
      BY <2>1 DEF BrowserInit, Begun
    <2>2. CASE cookie = 1 /\ owner \in [{1} -> User]
      <3>1. {1} = 1..1
        OBVIOUS
      <3>2. owner \in [1..1 -> User]
        BY <2>2, <3>1
      <3>3. owner \in Seq(User)
        BY <3>2, SeqDef, Zenon
      <3>4. Len(owner) = 1
        <4>1. DOMAIN owner = 1..1 /\ DOMAIN owner = 1..Len(owner) /\ Len(owner) \in Nat
          BY <3>2, <3>3, LenProperties
        <4>. QED BY <4>1
      <3>. QED BY <2>2, <3>1, <3>3, <3>4 DEF BrowserInit, Begun
    <2>. QED BY <2>1, <2>2 DEF BrowserInit
  <1>2. cookie \in Maybe /\ Nobody \in Maybe
    BY <1>1 DEF Begun, Maybe
  <1>3. \A r \in wire : r \in Asked /\ Sound(r) /\ r.reader = "refresh"
    <2>. SUFFICES ASSUME NEW r \in wire PROVE r \in Asked /\ Sound(r) /\ r.reader = "refresh"
      OBVIOUS
    <2>1. PICK t \in Tab : r = NewRequest(t, "refresh", "session", cookie, Nobody, Nobody)
      BY DEF BrowserInit
    <2>. QED BY <1>1, <1>2, <2>1, NewSound
  <1>4. tab \in [Tab -> States] /\ job \in [Tab -> Jobs] /\ starts \in Nat
    BY FreeTyped DEF BrowserInit
  <1>5. BrowserTypeOK
    BY <1>1, <1>3, <1>4 DEF BrowserTypeOK
  <1>6. SessionsBegun /\ AnswersTruthful
    BY <1>1, <1>3 DEF SessionsBegun, AnswersTruthful, Sound
  <1>7. JobsAwait
    BY <1>3 DEF JobsAwait, OfJob, Sound
  <1>. QED BY <1>5, <1>6, <1>7 DEF BrowserInv

LEMMA BrowserStays == BrowserInv /\ [BrowserNext]_browserVars => BrowserInv'
  <1>. SUFFICES ASSUME BrowserInv, [BrowserNext]_browserVars PROVE BrowserInv'
    OBVIOUS
  <1>1. ASSUME NEW q \in wire, Serve(q) PROVE BrowserInv'
    BY <1>1, ServeKeeps
  <1>2. ASSUME NEW q \in wire, Lose(q) PROVE BrowserInv'
    BY <1>2, LoseKeeps
  <1>3. ASSUME NEW q \in wire, Deliver(q) PROVE BrowserInv'
    BY <1>3, DeliverKeeps
  <1>4. ASSUME NEW t \in Tab, Focus(t) PROVE BrowserInv'
    BY <1>4, FocusKeeps
  <1>5. ASSUME NEW t \in Tab, Reload(t) PROVE BrowserInv'
    BY <1>5, ReloadKeeps
  <1>6. ASSUME NEW t \in Tab, NEW p \in User, Login(t, p) PROVE BrowserInv'
    BY <1>6, LoginKeeps
  <1>7. ASSUME NEW t \in Tab, NEW kind \in {"logout", "command", "change"}, BeginJob(t, kind)
        PROVE  BrowserInv'
    BY <1>7, BeginKeepsBrowser
  <1>8. ASSUME NEW s \in alive, Expire(s) PROVE BrowserInv'
    BY <1>8, ExpireKeeps
  <1>9. CASE UNCHANGED browserVars
    BY <1>9 DEF browserVars, browser, server, BrowserInv, BrowserTypeOK, SessionsBegun, Begun,
                AnswersTruthful, JobsAwait
  <1>. QED BY <1>1, <1>2, <1>3, <1>4, <1>5, <1>6, <1>7, <1>8, <1>9 DEF BrowserNext

\* A sign-out that ends on an answer: no session was there to end, or the answer
\* ended it; a second refusal is impossible, since its token was the session's.
LEMMA InvSignsOut == BrowserInv => SignedOutIsOut
  <1>. SUFFICES ASSUME BrowserInv, NEW q \in wire, OfJob(q), q.answer \notin {"none", "lost"},
                       LastOfLogout(q.tab, q), ~MayAskAgain(q.tab, q), Keeps(q.tab, q)
                PROVE  job[q.tab].had \notin alive
    BY DEF SignedOutIsOut, OfJob
  <1>1. q.tab \in Tab
    BY WireSound DEF Asked
  <1>2. /\ q.kind \in {"csrf", "logout"} /\ Awaits(job[q.tab], q)
        /\ q.answer \in {"ok", "unauthorized", "forbidden"} /\ job[q.tab].again \in BOOLEAN
        /\ Truthful(q, alive) /\ q.cookie = job[q.tab].had /\ job[q.tab].same
    BY <1>1, AwaitedBy DEF LastOfLogout, Awaits, Keeps, Asked, Sound
  <1>3. CASE q.answer = "forbidden"
    <2>1. q.kind = "logout" /\ q.token # q.cookie
      BY <1>2, <1>3 DEF Truthful, Says, Reads
    <2>2. job[q.tab].again
      BY <1>2, <1>3, <2>1 DEF MayAskAgain, LastOfLogout
    <2>. QED BY <1>2, <2>1, <2>2 DEF Awaits
  <1>4. CASE q.answer # "forbidden"
    BY <1>2, <1>4 DEF Truthful, Says, LastOfLogout
  <1>. QED BY <1>3, <1>4

LEMMA InvBindsTokens == BrowserInv => TokenBinds
  BY DEF BrowserInv, AnswersTruthful, Truthful, Says, Reads, TokenBinds

\* However the tabs, the answers and the expiries interleave: a sign-out that
\* ends on an answer has ended the session the browser had, and a command is
\* executed for the person whose session its token was derived from.
THEOREM SessionsNeverMixHolds == BrowserSpec => []SessionsNeverMix
  <1>1. BrowserInv => SessionsNeverMix
    BY InvSignsOut, InvBindsTokens DEF SessionsNeverMix
  <1>. QED BY <1>1, BrowserBegins, BrowserStays, PTL DEF BrowserSpec

-----------------------------------------------------------------------------
(* The plan of the importer.                                               *)

PlanTypeOK ==
  /\ phase \in {"Productos", "Inventario", "Movimientos", "planned", "rejected"}
  /\ products \in Seq(Code)
  /\ rows \in Seq(Row)
  /\ moved \in Seq(Movement)
  /\ groups \in [Key -> SUBSET Nat]
  /\ latest \in [Key -> Nat]

\* The sheets are read one after the other, and products before they are used.
InOrder ==
  /\ phase = "Productos" => rows = << >>
  /\ phase \in {"Productos", "Inventario"} => moved = << >>
  /\ phase \in {"Inventario", "Movimientos", "planned"} =>
       \A c \in Accepted : Canonical(c) # {}

\* A group is the rows of its key, and one of them sorts after the others.
Grouped ==
  /\ \A i \in DOMAIN rows : rows[i].code \in Accepted
  /\ \A k \in Key : groups[k] = {i \in DOMAIN rows : <<rows[i].code, rows[i].place>> = k}
  /\ \A k \in Key : groups[k] # {} =>
       \E i \in groups[k] : \A j \in groups[k] \ {i} : SortsBefore(j, i)

MovementsOf(k) == {i \in DOMAIN moved : <<moved[i].code, moved[i].place>> = k}

\* The movement that counts for a key of the plan is its last.
LastCounts ==
  \A k \in Key :
    IF k[1] \in Accepted /\ MovementsOf(k) # {}
    THEN latest[k] \in MovementsOf(k) /\ \A j \in MovementsOf(k) : j <= latest[k]
    ELSE latest[k] = 0

PlanInv == PlanTypeOK /\ InOrder /\ Grouped /\ LastCounts

LEMMA PlanBegins == PlanInit => PlanInv
<1> SUFFICES ASSUME PlanInit PROVE PlanInv
  OBVIOUS
<1>1. products = << >> /\ rows = << >> /\ moved = << >> /\ phase = "Productos"
  BY DEF PlanInit
<1>2. groups = [k \in Key |-> {}] /\ latest = [k \in Key |-> 0]
  BY DEF PlanInit
<1>3. PlanTypeOK
  BY <1>1, <1>2 DEF PlanTypeOK
<1>4. DOMAIN rows = {} /\ DOMAIN moved = {}
  BY <1>1
<1>5. InOrder
  BY <1>1 DEF InOrder
<1>6. Grouped
  BY <1>2, <1>4 DEF Grouped
<1>7. LastCounts
  BY <1>2, <1>4 DEF LastCounts, MovementsOf
<1> QED
  BY <1>3, <1>5, <1>6, <1>7 DEF PlanInv

LEMMA ProductKeeps ==
  ASSUME PlanInv, NEW c \in Code, ReadProduct(c)
  PROVE  PlanInv'
<1>1. /\ phase = "Productos" /\ products' = Append(products, c)
      /\ UNCHANGED <<phase, decision, rows, groups, moved, latest>>
  BY DEF ReadProduct
<1>2. rows = << >> /\ moved = << >> /\ DOMAIN rows = {} /\ DOMAIN moved = {}
  BY <1>1 DEF PlanInv, InOrder
<1>3. PlanTypeOK'
  BY <1>1 DEF PlanInv, PlanTypeOK
<1>4. InOrder'
  BY <1>1, <1>2 DEF InOrder
<1>5. \A k \in Key : groups[k] = {}
  BY <1>2 DEF PlanInv, Grouped
<1>6. Grouped'
  BY <1>1, <1>2, <1>5 DEF Grouped
<1>7. \A k \in Key : MovementsOf(k) = {} /\ latest[k] = 0
  BY <1>2 DEF PlanInv, LastCounts, MovementsOf
<1>8. LastCounts'
  BY <1>1, <1>2, <1>7 DEF LastCounts, MovementsOf
<1> QED
  BY <1>3, <1>4, <1>6, <1>8 DEF PlanInv

\* The end of a sheet changes the phase only.
LEMMA SheetEnds ==
  ASSUME PlanInv, ProductsRead \/ InventoryRead \/ MovementsRead
  PROVE  PlanInv'
<1>1. UNCHANGED <<products, decision, rows, groups, moved, latest>>
  BY DEF ProductsRead, InventoryRead, MovementsRead
<1>2. Accepted' = Accepted /\ \A c \in Accepted : Canonical(c)' = Canonical(c)
  BY <1>1 DEF Accepted, RowsOf, Canonical
<1>3. PlanTypeOK'
  BY <1>1 DEF PlanInv, PlanTypeOK, ProductsRead, InventoryRead, MovementsRead
<1>4. InOrder'
  BY <1>1, <1>2 DEF PlanInv, InOrder, ProductsRead, InventoryRead, MovementsRead
<1>5. Grouped'
  BY <1>1, <1>2 DEF PlanInv, Grouped, SortsBefore
<1>6. LastCounts'
  BY <1>1, <1>2 DEF PlanInv, LastCounts, MovementsOf
<1> QED
  BY <1>3, <1>4, <1>5, <1>6 DEF PlanInv

LEMMA SeenIsNat ==
  ASSUME NEW row \in Row
  PROVE  row.seen \in Nat
<1> DEFINE seen == row.seen
<1>1. seen \in Time \cup {Never}
  BY Zenon DEF Row
<1> HIDE DEF seen
<1>2. seen \in Nat
  BY <1>1, LegacyPlanAssumption DEF Never
<1> QED
  BY <1>2 DEF seen

LEMMA RowKeeps ==
  ASSUME PlanInv, NEW row \in Row, ReadInventory(row)
  PROVE  PlanInv'
<1>1. phase = "Inventario" /\ UNCHANGED <<products, decision, moved, latest>>
  BY DEF ReadInventory
<1>2. Accepted' = Accepted /\ \A c \in Accepted : Canonical(c)' = Canonical(c)
  BY <1>1 DEF Accepted, RowsOf, Canonical
<1>3. LastCounts'
  BY <1>1, <1>2 DEF PlanInv, LastCounts, MovementsOf
<1>4. CASE row.code \notin Accepted
  <2>1. phase' = "rejected" /\ UNCHANGED <<rows, groups>>
    BY <1>4 DEF ReadInventory
  <2>2. PlanTypeOK' /\ InOrder'
    BY <1>1, <2>1 DEF PlanInv, PlanTypeOK, InOrder
  <2>3. Grouped'
    BY <1>2, <2>1 DEF PlanInv, Grouped, SortsBefore
  <2> QED
    BY <1>3, <2>2, <2>3 DEF PlanInv
<1>5. CASE row.code \in Accepted
  <2>0. Len(rows) + 1 \in Nat
    BY DEF PlanInv, PlanTypeOK
  <2> PICK n \in Nat : n = Len(rows) + 1
    BY <2>0
  <2> DEFINE key == <<row.code, row.place>>
  <2>1. /\ rows' = Append(rows, row) /\ phase' = phase
        /\ groups' = [groups EXCEPT ![key] = @ \cup {n}]
    BY <1>5 DEF ReadInventory
  <2>2. key \in Key /\ rows \in Seq(Row) /\ groups \in [Key -> SUBSET Nat]
    BY DEF Row, Key, PlanInv, PlanTypeOK
  <2>3. /\ DOMAIN rows = 1 .. Len(rows) /\ DOMAIN rows' = 1 .. n /\ n \in Nat
        /\ n = Len(rows) + 1 /\ n \notin DOMAIN rows /\ DOMAIN rows' = DOMAIN rows \cup {n}
        /\ rows'[n] = row /\ \A i \in DOMAIN rows : rows'[i] = rows[i] /\ i < n /\ i \in Nat
    BY <2>1, <2>2
  <2>4. rows' \in Seq(Row)
    BY <2>1, <2>2
  <2> HIDE DEF key
  <2>5. /\ groups' \in [Key -> SUBSET Nat]
        /\ groups'[key] = groups[key] \cup {n}
        /\ \A k \in Key : k # key => groups'[k] = groups[k]
    BY <2>1, <2>2, <2>3
  <2>6. PlanTypeOK'
    BY <1>1, <2>1, <2>4, <2>5 DEF PlanInv, PlanTypeOK
  <2>7. InOrder'
    BY <1>1, <1>2, <2>1 DEF PlanInv, InOrder
  <2>8. \A i \in DOMAIN rows' : rows'[i].code \in Accepted
    BY <1>5, <2>3 DEF PlanInv, Grouped
  <2>9. \A k \in Key :
          groups'[k] = {i \in DOMAIN rows' : <<rows'[i].code, rows'[i].place>> = k}
    <3> SUFFICES ASSUME NEW k \in Key
                 PROVE  groups'[k] = {i \in DOMAIN rows' : <<rows'[i].code, rows'[i].place>> = k}
      OBVIOUS
    <3>1. groups[k] = {i \in DOMAIN rows : <<rows[i].code, rows[i].place>> = k}
      BY DEF PlanInv, Grouped
    <3>2. \A i \in DOMAIN rows' : i \in DOMAIN rows \/ i = n
      BY <2>3
    <3>3. DOMAIN rows \subseteq DOMAIN rows' /\ n \in DOMAIN rows'
      BY <2>3
    <3>4. <<rows'[n].code, rows'[n].place>> = key
      BY <2>3 DEF key
    <3> QED
      BY <2>3, <2>5, <3>1, <3>2, <3>3, <3>4
  <2> DEFINE Goes(i, j) == SortsBefore(i, j)'
  <2>10. \A i, j \in DOMAIN rows : Goes(i, j) <=> SortsBefore(i, j)
    BY <2>3 DEF SortsBefore, Goes
  <2>11. \A i \in DOMAIN rows : Goes(i, n) \/ Goes(n, i)
    <3> SUFFICES ASSUME NEW i \in DOMAIN rows PROVE Goes(i, n) \/ Goes(n, i)
      OBVIOUS
    <3>1. rows'[i] \in Row /\ rows'[n] \in Row
      BY <2>3, <2>4
    <3>2. rows'[i].seen \in Nat /\ rows'[n].seen \in Nat
      BY <3>1, SeenIsNat
    <3>3. i < n
      BY <2>3
    <3> DEFINE x == rows'[i].seen
               y == rows'[n].seen
    <3>4. x \in Nat /\ y \in Nat
      BY <3>2
    <3>5. /\ x = y => Goes(i, n)
          /\ x # y /\ (x = 0 \/ (y # 0 /\ x < y)) => Goes(i, n)
          /\ x # y /\ (y = 0 \/ (x # 0 /\ y < x)) => Goes(n, i)
      BY <3>3 DEF SortsBefore, Never, Goes
    <3> HIDE DEF x, y, Goes
    <3>6. x = y \/ x = 0 \/ y = 0 \/ (y # 0 /\ x < y) \/ (x # 0 /\ y < x)
      BY <3>4
    <3> QED
      BY <3>5, <3>6
  <2>12. \A i, j, k \in DOMAIN rows' :
           Goes(i, j) /\ Goes(j, k) => Goes(i, k)
    <3> SUFFICES ASSUME NEW i \in DOMAIN rows', NEW j \in DOMAIN rows', NEW k \in DOMAIN rows',
                        Goes(i, j), Goes(j, k)
                 PROVE  Goes(i, k)
      OBVIOUS
    <3>1. rows'[i] \in Row /\ rows'[j] \in Row /\ rows'[k] \in Row
      BY <2>4
    <3>2. rows'[i].seen \in Nat /\ rows'[j].seen \in Nat /\ rows'[k].seen \in Nat
      BY <3>1, SeenIsNat
    <3>3. i \in Nat /\ j \in Nat /\ k \in Nat
      BY <2>3
    <3> QED
      BY <3>2, <3>3 DEF SortsBefore, Goes, Never
  <2> HIDE DEF Goes
  <2>13. \A k \in Key : groups'[k] # {} =>
           \E i \in groups'[k] : \A j \in groups'[k] \ {i} : Goes(j, i)
    <3> SUFFICES ASSUME NEW k \in Key, groups'[k] # {}
                 PROVE  \E i \in groups'[k] : \A j \in groups'[k] \ {i} : Goes(j, i)
      OBVIOUS
    <3>1. groups[k] \subseteq DOMAIN rows /\ n \notin DOMAIN rows
      BY <2>3 DEF PlanInv, Grouped
    <3>2. groups[k] # {} => \E i \in groups[k] : \A j \in groups[k] \ {i} : Goes(j, i)
      <4> SUFFICES ASSUME groups[k] # {}
                   PROVE  \E i \in groups[k] : \A j \in groups[k] \ {i} : Goes(j, i)
        OBVIOUS
      <4>1. PICK i \in groups[k] : \A j \in groups[k] \ {i} : SortsBefore(j, i)
        BY DEF PlanInv, Grouped
      <4> QED
        BY <2>10, <3>1, <4>1
    <3>3. CASE k # key
      BY <2>5, <3>2, <3>3
    <3>4. CASE k = key /\ groups[k] = {}
      BY <2>5, <3>4
    <3>5. CASE k = key /\ groups[k] # {}
      <4>1. PICK i \in groups[k] : \A j \in groups[k] \ {i} : Goes(j, i)
        BY <3>2, <3>5
      <4>2. groups'[k] = groups[k] \cup {n}
        BY <2>5, <3>5
      <4>3. i \in DOMAIN rows' /\ n \in DOMAIN rows' /\ groups[k] \subseteq DOMAIN rows'
        BY <2>3, <3>1
      <4>4. CASE Goes(n, i)
        BY <4>1, <4>2, <4>4
      <4>5. CASE Goes(i, n)
        <5>1. \A j \in groups[k] : Goes(j, n)
          BY <2>12, <4>1, <4>3, <4>5
        <5> QED
          BY <4>2, <5>1
      <4> QED
        BY <2>11, <3>1, <4>4, <4>5
    <3> QED
      BY <3>3, <3>4, <3>5
  <2>14. Grouped'
    BY <1>2, <2>8, <2>9, <2>13 DEF Grouped, Goes
  <2> QED
    BY <1>3, <2>6, <2>7, <2>14 DEF PlanInv
<1> QED
  BY <1>4, <1>5

LEMMA MovementKeeps ==
  ASSUME PlanInv, NEW m \in Movement, ReadMovement(m)
  PROVE  PlanInv'
<1> DEFINE key == <<m.code, m.place>>
<1>0. Len(moved) + 1 \in Nat
  BY DEF PlanInv, PlanTypeOK
<1> PICK n \in Nat : n = Len(moved) + 1
  BY <1>0
<1>1. /\ phase = "Movimientos" /\ UNCHANGED <<phase, products, decision, rows, groups>>
      /\ moved' = Append(moved, m)
      /\ latest' = IF m.code \in Accepted /\ Resolved(m.place) /\ Replaces(key)
                   THEN [latest EXCEPT ![key] = n] ELSE latest
  BY DEF ReadMovement
<1>2. Accepted' = Accepted /\ \A c \in Accepted : Canonical(c)' = Canonical(c)
  BY <1>1 DEF Accepted, RowsOf, Canonical
<1>3. moved \in Seq(Movement) /\ latest \in [Key -> Nat]
  BY DEF PlanInv, PlanTypeOK
<1>4. /\ DOMAIN moved = 1 .. Len(moved) /\ DOMAIN moved' = DOMAIN moved \cup {n}
      /\ n \notin DOMAIN moved /\ moved'[n] = m
      /\ \A i \in DOMAIN moved : moved'[i] = moved[i] /\ i < n /\ i \in Nat
      /\ moved' \in Seq(Movement)
  BY <1>1, <1>3
<1>5. m.code \in Accepted /\ Resolved(m.place) => key \in Key
  BY DEF Key, Resolved, Accepted, Movement
<1> HIDE DEF key
<1>6. CASE m.code \in Accepted /\ Resolved(m.place)
  <2>1. key \in Key /\ latest' = [latest EXCEPT ![key] = n]
    BY <1>1, <1>5, <1>6 DEF Replaces
  <2>2. /\ latest' \in [Key -> Nat] /\ latest'[key] = n
        /\ \A k \in Key : k # key => latest'[k] = latest[k]
    BY <1>3, <2>1
  <2>3. \A k \in Key : MovementsOf(k)' = MovementsOf(k) \cup (IF k = key THEN {n} ELSE {})
    BY <1>4 DEF MovementsOf, key
  <2>4. key[1] \in Accepted
    BY <1>6 DEF key
  <2>5. \A j \in MovementsOf(key) : j <= n
    BY <1>4 DEF MovementsOf
  <2>6. LastCounts'
    <3> SUFFICES ASSUME NEW k \in Key
                 PROVE  IF k[1] \in Accepted /\ MovementsOf(k)' # {}
                        THEN latest'[k] \in MovementsOf(k)'
                             /\ \A j \in MovementsOf(k)' : j <= latest'[k]
                        ELSE latest'[k] = 0
      BY <1>2 DEF LastCounts
    <3>1. CASE k = key
      BY <2>2, <2>3, <2>4, <2>5, <3>1
    <3>2. CASE k # key
      BY <2>2, <2>3, <3>2 DEF PlanInv, LastCounts
    <3> QED
      BY <3>1, <3>2
  <2>7. PlanTypeOK'
    BY <1>1, <1>4, <2>2 DEF PlanInv, PlanTypeOK
  <2>8. InOrder' /\ Grouped'
    BY <1>1, <1>2 DEF PlanInv, InOrder, Grouped, SortsBefore
  <2> QED
    BY <2>6, <2>7, <2>8 DEF PlanInv
<1>7. CASE ~(m.code \in Accepted /\ Resolved(m.place))
  <2>1. latest' = latest
    BY <1>1, <1>7
  <2>2. \A k \in Key : k[1] \in Accepted => k # key
    BY <1>7, LegacyPlanAssumption DEF key, Key, Resolved
  <2>3. \A k \in Key : k # key => MovementsOf(k)' = MovementsOf(k)
    BY <1>4 DEF MovementsOf, key
  <2>4. LastCounts'
    BY <1>2, <2>1, <2>2, <2>3 DEF PlanInv, LastCounts
  <2>5. PlanTypeOK'
    BY <1>1, <1>4, <2>1 DEF PlanInv, PlanTypeOK
  <2>6. InOrder' /\ Grouped'
    BY <1>1, <1>2 DEF PlanInv, InOrder, Grouped, SortsBefore
  <2> QED
    BY <2>4, <2>5, <2>6 DEF PlanInv
<1> QED
  BY <1>6, <1>7

LEMMA PlanSteps ==
  ASSUME PlanInv, [PlanNext]_planned
  PROVE  PlanInv'
<1>1. ASSUME NEW c \in Code, ReadProduct(c) PROVE PlanInv'
  BY <1>1, ProductKeeps
<1>2. ProductsRead \/ InventoryRead \/ MovementsRead => PlanInv'
  BY SheetEnds
<1>3. ASSUME NEW row \in Row, ReadInventory(row) PROVE PlanInv'
  BY <1>3, RowKeeps
<1>4. ASSUME NEW m \in Movement, ReadMovement(m) PROVE PlanInv'
  BY <1>4, MovementKeeps
<1>5. CASE UNCHANGED planned
  <2>1. UNCHANGED <<phase, products, decision, rows, groups, moved, latest>>
    BY <1>5 DEF planned
  <2>2. Accepted' = Accepted /\ \A c \in Accepted : Canonical(c)' = Canonical(c)
    BY <2>1 DEF Accepted, RowsOf, Canonical
  <2>3. PlanTypeOK' /\ InOrder'
    BY <2>1, <2>2 DEF PlanInv, PlanTypeOK, InOrder
  <2>4. Grouped'
    BY <2>1, <2>2 DEF PlanInv, Grouped, SortsBefore
  <2>5. LastCounts'
    BY <2>1, <2>2 DEF PlanInv, LastCounts, MovementsOf
  <2> QED
    BY <2>3, <2>4, <2>5 DEF PlanInv
<1> QED
  BY <1>1, <1>2, <1>3, <1>4, <1>5 DEF PlanNext

\* The selected row of a group is in it and sorts after the others.
LEMMA SelectedIsLast ==
  ASSUME PlanInv, NEW k \in Keys
  PROVE  /\ Selected(k) \in groups[k]
         /\ \A j \in groups[k] \ {Selected(k)} : SortsBefore(j, Selected(k))
<1>1. k \in Key /\ groups[k] # {}
  BY DEF Keys
<1>2. \E i \in groups[k] : \A j \in groups[k] \ {i} : SortsBefore(j, i)
  BY <1>1 DEF PlanInv, Grouped
<1> QED
  BY <1>2 DEF Selected

LEMMA InvAccounts ==
  ASSUME PlanInv, Planned
  PROVE  /\ \A i \in DOMAIN products : LET c == products[i] IN
              i \in Canonical(c) \/ i \in decision[c].evidence
         /\ \A c \in Accepted : Cardinality(Canonical(c)) = 1
         /\ \A i \in DOMAIN rows :
              /\ \E b \in Balances : b.key = <<rows[i].code, rows[i].place>>
              /\ (\E v \in Valuations : v.row = i) # (i \in RowIssues.missing)
<1>1. \A c \in Accepted : Canonical(c) # {}
  BY DEF PlanInv, InOrder, Planned
<1>2. ASSUME NEW i \in DOMAIN products
      PROVE  i \in Canonical(products[i]) \/ i \in decision[products[i]].evidence
  <2> DEFINE c == products[i]
  <2>1. c \in Code
    BY DEF PlanInv, PlanTypeOK
  <2>2. i \in RowsOf(c)
    BY DEF RowsOf
  <2>3. c \in Accepted
    BY <2>1, <2>2 DEF Accepted
  <2> HIDE DEF c
  <2>4. PICK j \in Canonical(c) : TRUE
    BY <1>1, <2>3
  <2>5. CASE RowsOf(c) = {j}
    BY <2>2, <2>4, <2>5 DEF c
  <2>6. CASE decision[c].evidence = RowsOf(c) \ {j}
    BY <2>2, <2>4, <2>6 DEF c
  <2> QED
    BY <2>4, <2>5, <2>6 DEF Canonical
<1>3. ASSUME NEW c \in Accepted PROVE Cardinality(Canonical(c)) = 1
  <2>1. PICK j \in Canonical(c) : TRUE
    BY <1>1
  <2>2. \A i \in Canonical(c) : i = j
    BY <2>1 DEF Canonical
  <2>3. Canonical(c) = {j}
    BY <2>1, <2>2
  <2> QED
    BY <2>3, FS_Singleton
<1>4. ASSUME NEW i \in DOMAIN rows
      PROVE  /\ \E b \in Balances : b.key = <<rows[i].code, rows[i].place>>
             /\ (\E v \in Valuations : v.row = i) # (i \in RowIssues.missing)
  <2> DEFINE k == <<rows[i].code, rows[i].place>>
  <2>1. rows[i] \in Row
    BY DEF PlanInv, PlanTypeOK
  <2>2. k \in Key
    BY <2>1 DEF Key, Row
  <2> HIDE DEF k
  <2>3. i \in groups[k]
    BY <2>2 DEF PlanInv, Grouped, k
  <2>4. k \in Keys
    BY <2>2, <2>3 DEF Keys
  <2> DEFINE b == [key |-> k, row |-> Selected(k), quantity |-> rows[Selected(k)].quantity,
                   costReview |-> rows[Selected(k)].free]
  <2>5. b \in Balances
    BY <2>4 DEF Balances
  <2>6. b.key = k
    OBVIOUS
  <2> HIDE DEF b
  <2>7. \E x \in Balances : x.key = k
    BY <2>5, <2>6
  <2>8. (i \in RowIssues.missing) <=> rows[i].seen = Never
    BY DEF RowIssues
  <2>9. (\E v \in Valuations : v.row = i) <=> rows[i].seen # Never
    <3>1. \A v \in Valuations : v.row = i => rows[i].seen # Never
      BY DEF Valuations
    <3>2. ASSUME rows[i].seen # Never PROVE \E v \in Valuations : v.row = i
      <4> DEFINE v == [key |-> <<rows[i].code, rows[i].place>>, row |-> i, at |-> rows[i].seen,
                       review |-> rows[i].free]
      <4>1. v \in Valuations
        BY <3>2 DEF Valuations
      <4>2. v.row = i
        OBVIOUS
      <4> HIDE DEF v
      <4> QED
        BY <4>1, <4>2
    <3> QED
      BY <3>1, <3>2
  <2>10. (\E v \in Valuations : v.row = i) # (i \in RowIssues.missing)
    BY <2>8, <2>9, Zenon
  <2> QED
    BY <2>7, <2>10 DEF k
<1> QED
  BY <1>2, <1>3, <1>4

LEMMA InvSelectsLatest == PlanInv => LatestObservationWins
<1> SUFFICES ASSUME PlanInv, Planned, NEW b \in Balances, NEW i \in DOMAIN rows,
                    <<rows[i].code, rows[i].place>> = b.key, i # b.row
             PROVE  /\ rows[i].seen <= rows[b.row].seen
                    /\ rows[i].seen = rows[b.row].seen => i < b.row
  BY DEF LatestObservationWins
<1>1. PICK k \in Keys : b.key = k /\ b.row = Selected(k)
  BY DEF Balances
<1>2. k \in Key
  BY DEF Keys
<1>3. i \in groups[k]
  BY <1>1, <1>2 DEF PlanInv, Grouped
<1> DEFINE j == b.row
<1>4. j \in groups[k] /\ SortsBefore(i, j)
  BY <1>1, <1>3, SelectedIsLast
<1>5. j \in DOMAIN rows
  BY <1>2, <1>4 DEF PlanInv, Grouped
<1> HIDE DEF j
<1>6. rows[i] \in Row /\ rows[j] \in Row
  BY <1>5 DEF PlanInv, PlanTypeOK
<1>7. rows[i].seen \in Nat /\ rows[j].seen \in Nat
  BY <1>6, SeenIsNat
<1> DEFINE x == rows[i].seen
           y == rows[j].seen
<1>8. x \in Nat /\ y \in Nat
  BY <1>7
<1>9. (x = y /\ i < j) \/ (x # y /\ (x = 0 \/ x < y))
  BY <1>4 DEF SortsBefore, Never
<1> HIDE DEF x, y
<1>10. x <= y /\ (x = y => i < j)
  BY <1>8, <1>9
<1> QED
  BY <1>10 DEF x, y, j

LEMMA InvReports == PlanInv => DisagreementsReported
<1> SUFFICES ASSUME PlanInv, Planned, NEW k \in Key
             PROVE
    LET ofKey == {i \in DOMAIN moved : <<moved[i].code, moved[i].place>> = k}
        inPlan == k[1] \in Accepted /\ ofKey # {}
        last == CHOOSE i \in ofKey : \A j \in ofKey : j <= i
        agrees == \E b \in Balances: b.key = k /\ inPlan /\ moved[last].stock = b.quantity
        issues == {n \in {"inventoryOnly", "different", "movementOnly"} : k \in KeyIssues[n]}
    IN  Cardinality(issues) =
          IF agrees \/ (k \notin Keys /\ ~inPlan) THEN 0 ELSE 1
  BY DEF DisagreementsReported
<1> DEFINE ofKey == {i \in DOMAIN moved : <<moved[i].code, moved[i].place>> = k}
           inPlan == k[1] \in Accepted /\ ofKey # {}
           last == CHOOSE i \in ofKey : \A j \in ofKey : j <= i
           agrees == \E b \in Balances: b.key = k /\ inPlan /\ moved[last].stock = b.quantity
           issues == {n \in {"inventoryOnly", "different", "movementOnly"} : k \in KeyIssues[n]}
           stock == moved[latest[k]].stock
           counted == rows[Selected(k)].quantity
<1>1. ofKey \subseteq Nat \ {0}
  BY DEF PlanInv, PlanTypeOK
<1>2. inPlan => latest[k] \in ofKey /\ \A j \in ofKey : j <= latest[k]
  BY DEF PlanInv, LastCounts, MovementsOf
<1>3. ~inPlan => latest[k] = 0
  BY DEF PlanInv, LastCounts, MovementsOf
<1>4. inPlan => last = latest[k] /\ latest[k] # 0
  BY <1>1, <1>2
<1>5. /\ k \in KeyIssues["inventoryOnly"] <=> k \in Keys /\ latest[k] = 0
      /\ k \in KeyIssues["different"] <=> k \in Keys /\ latest[k] # 0 /\ stock # counted
      /\ k \in KeyIssues["movementOnly"] <=> k \notin Keys /\ latest[k] # 0
  BY DEF KeyIssues
<1>6. \A b \in Balances : b.key = k => k \in Keys /\ b.quantity = counted
  BY DEF Balances
<1>7. k \in Keys => \E b \in Balances : b.key = k /\ b.quantity = counted
  <2> DEFINE b == [key |-> k, row |-> Selected(k), quantity |-> counted,
                   costReview |-> rows[Selected(k)].free]
  <2> SUFFICES ASSUME k \in Keys PROVE \E x \in Balances : x.key = k /\ x.quantity = counted
    OBVIOUS
  <2>1. b \in Balances
    BY DEF Balances
  <2>2. b.key = k /\ b.quantity = counted
    OBVIOUS
  <2> HIDE DEF b
  <2> QED
    BY <2>1, <2>2
<1>8. agrees <=> k \in Keys /\ inPlan /\ moved[last].stock = counted
  BY <1>6, <1>7
<1>9. agrees <=> k \in Keys /\ inPlan /\ stock = counted
  BY <1>4, <1>8
<1> HIDE DEF agrees, last, inPlan, stock, counted
<1>10. latest[k] = 0 <=> ~inPlan
  BY <1>3, <1>4
<1>11. Cardinality(issues) = IF agrees \/ (k \notin Keys /\ ~inPlan) THEN 0 ELSE 1
  <2>1. CASE k \in Keys /\ latest[k] = 0
    <3>1. issues = {"inventoryOnly"}
      BY <1>5, <2>1
    <3>2. ~agrees
      BY <1>9, <1>10, <2>1
    <3> QED
      BY <2>1, <3>1, <3>2, FS_Singleton
  <2>2. CASE k \in Keys /\ latest[k] # 0 /\ stock # counted
    <3>1. issues = {"different"}
      BY <1>5, <2>2
    <3>2. ~agrees
      BY <1>9, <2>2
    <3> QED
      BY <2>2, <3>1, <3>2, FS_Singleton
  <2>3. CASE k \in Keys /\ latest[k] # 0 /\ stock = counted
    <3>1. issues = {}
      BY <1>5, <2>3
    <3>2. agrees
      BY <1>9, <1>10, <2>3
    <3> QED
      BY <3>1, <3>2, FS_EmptySet
  <2>4. CASE k \notin Keys /\ latest[k] # 0
    <3>1. issues = {"movementOnly"}
      BY <1>5, <2>4
    <3>2. ~agrees /\ inPlan
      BY <1>9, <1>10, <2>4
    <3> QED
      BY <2>4, <3>1, <3>2, FS_Singleton
  <2>5. CASE k \notin Keys /\ latest[k] = 0
    <3>1. issues = {}
      BY <1>5, <2>5
    <3>2. ~inPlan
      BY <1>10, <2>5
    <3> QED
      BY <2>5, <3>1, <3>2, FS_EmptySet
  <2> QED
    BY <2>1, <2>2, <2>3, <2>4, <2>5
<1> QED
  BY <1>11 DEF agrees, last, inPlan

\* Whatever the sheets hold: every row of the workbook is in the plan or in the
\* evidence of a decision, a balance is what was observed last, and what does
\* not agree with the movements is reported once.
THEOREM PlanAlwaysFaithful == PlanSpec => []PlanFaithful
<1>1. PlanInit => PlanInv
  BY PlanBegins
<1>2. PlanInv /\ [PlanNext]_planned => PlanInv'
  BY PlanSteps
<1>3. PlanInv => PlanFaithful
  BY InvAccounts, InvSelectsLatest, InvReports DEF PlanFaithful, EveryRowAccountedFor
<1> QED
  BY <1>1, <1>2, <1>3, PTL DEF PlanSpec

-----------------------------------------------------------------------------
(* The question to Alexa.                                                  *)

\* What a product, or a warehouse, was taken for when the words were said.
ProductRight(found, words) ==
  LET p == found.item
      seen == found.seen
      phrase == ProductPhrase(words)
      others == Findable(seen, phrase) \ {p}
  IN  /\ found.exact \in BOOLEAN
      /\ seen[p].active
      /\ found.exact =>
           /\ Called(seen, p, phrase)
           /\ Cardinality(others) < CandidateLimit =>
                \A q \in others : ~Called(seen, q, phrase)
      /\ ~found.exact =>
           /\ \A q \in others : Matches(seen, q, phrase) < Matches(seen, p, phrase)
           /\ 10 * Matches(seen, p, phrase) >= 7 * Cardinality(Tokens(phrase))

PlaceRight(found, words) ==
  LET w == found.item
      seen == found.seen
      phrase == PlacePhrase(words)
  IN  /\ found.exact \in BOOLEAN
      /\ seen[w].active
      /\ found.exact => Called(seen, w, phrase)
      /\ ~found.exact => SearchPlaces(seen, phrase) = {w}

\* A turn goes on with what was found for the phrases of its slots, whatever
\* has become of the catalogue since.
VoiceInv ==
  /\ slots.product \in Phrases.product \cup {Unsaid}
  /\ turn.step \in {"place", "stock"} => ProductRight(turn.product, slots.product)
  /\ turn.step = "stock" => PlaceRight(turn.place, slots.place)
  /\ reply.kind = "quantity" =>
       /\ ProductRight(reply.product, reply.said.product)
       /\ PlaceRight(reply.place, reply.said.place)
       /\ reply.announced = ~(reply.product.exact /\ reply.place.exact)

LEMMA LeastOf ==
  ASSUME NEW H \in SUBSET Nat, H # {}
  PROVE  \E h \in H : \A x \in H : h <= x
<1>1. PICK h \in H : \A x \in H : <<x, h>> \notin OpToRel(<, Nat)
  BY NatLessThanWellFounded, WFMin, Zenon
<1>2. ASSUME NEW x \in H PROVE ~(x < h)
  <2>1. x \in Nat /\ h \in Nat
    OBVIOUS
  <2> QED
    BY <1>1, <2>1, Zenon DEF OpToRel
<1> QED
  BY <1>2

LEMMA ImageFinite ==
  ASSUME NEW S, IsFiniteSet(S), NEW f, f = [x \in S |-> f[x]]
  PROVE  IsFiniteSet({f[x] : x \in S})
<1> DEFINE T == {f[x] : x \in S}
<1>1. \A x \in S : f[x] \in T
  OBVIOUS
<1>2. f \in [S -> T]
  BY <1>1
<1>3. f \in Surjection(S, T)
  BY <1>2 DEF Surjection
<1> HIDE DEF T
<1>4. IsFiniteSet(T)
  BY <1>3, FS_Surjection
<1> QED
  BY <1>4 DEF T

\* A phrase that was said has finitely many words.
LEMMA PhraseFinite ==
  ASSUME NEW words \in Seq(STRING)
  PROVE  IsFiniteSet(DOMAIN ProductPhrase(words))
<1> DEFINE lengths == {n \in 3 .. (Len(words) \div 2) : Repeats(words, n)}
           n == CHOOSE n \in lengths : \A k \in lengths : n <= k
           phrase == Collapsed(words)
<1>1. DOMAIN ProductPhrase(words) = DOMAIN phrase
  BY DEF ProductPhrase
<1>2. CASE lengths = {}
  <2>1. phrase = words
    BY <1>2 DEF Collapsed
  <2>2. DOMAIN phrase = 1 .. Len(words) /\ Len(words) \in Nat
    BY <2>1
  <2> QED
    BY <1>1, <2>2, FS_Interval
<1>3. CASE lengths # {}
  <2>1. lengths \in SUBSET Nat
    OBVIOUS
  <2> HIDE DEF lengths
  <2>2. \E h \in lengths : \A k \in lengths : h <= k
    BY <1>3, <2>1, LeastOf
  <2>3. n \in lengths
    BY <2>2
  <2>4. n \in Nat
    BY <2>1, <2>3
  <2>5. phrase = SubSeq(words, 1, n)
    BY <1>3 DEF Collapsed, lengths
  <2> HIDE DEF n
  <2>6. DOMAIN SubSeq(words, 1, n) = 1 .. n
    BY <2>4
  <2> QED
    BY <1>1, <2>4, <2>5, <2>6, FS_Interval
<1> QED
  BY <1>2, <1>3

LEMMA TokensFinite ==
  ASSUME NEW words, IsFiniteSet(DOMAIN words)
  PROVE  IsFiniteSet(Tokens(words))
<1> DEFINE kept == {i \in DOMAIN words : words[i] \notin Filler}
           said == [n \in 1 .. Cardinality(kept) |->
                      words[CHOOSE i \in kept : Cardinality({j \in kept : j <= i}) = n]]
           Heard(i) == IF i \in DOMAIN said THEN said[i] ELSE "silence"
           EndsInL(i) == Heard(i) = "equis" /\ Heard(i + 1) \in {"ele", "l"}
           Double(i) == Heard(i) = "doble" /\ EndsInL(i + 1)
           Extra(i) == EndsInL(i) /\ ~Double(i - 1)
           Taken(i) == Double(i) \/ Double(i - 1) \/ Double(i - 2) \/ Extra(i) \/ Extra(i - 1)
           Word(i) == IF Heard(i) \in DOMAIN Alias THEN Alias[Heard(i)] ELSE Heard(i)
           Plain == {Word(i) : i \in {i \in DOMAIN said : ~Taken(i)}}
           Twice == {"xxl" : i \in {i \in DOMAIN said : Double(i)}}
           Once == {"xl" : i \in {i \in DOMAIN said : Extra(i)}}
           f == [i \in DOMAIN said |-> Word(i)]
           All == {f[i] : i \in DOMAIN said}
<1>1. Tokens(words) = Plain \cup Twice \cup Once
  BY DEF Tokens
<1>2. IsFiniteSet(kept) /\ Cardinality(kept) \in Nat
  BY FS_Subset, FS_CardinalityType
<1> HIDE DEF kept
<1>3. DOMAIN said = 1 .. Cardinality(kept)
  OBVIOUS
<1> HIDE DEF said
<1>4. IsFiniteSet(DOMAIN said)
  BY <1>2, <1>3, FS_Interval
<1> HIDE DEF Word, Taken, Double, Extra
<1>5. f = [i \in DOMAIN said |-> f[i]]
  OBVIOUS
<1>6. Plain \subseteq All
  OBVIOUS
<1> HIDE DEF f
<1>7. IsFiniteSet(All)
  BY <1>4, <1>5, ImageFinite
<1>8. Tokens(words) \subseteq All \cup {"xxl"} \cup {"xl"}
  BY <1>1, <1>6
<1> HIDE DEF All, Plain, Twice, Once
<1>9. IsFiniteSet(All \cup {"xxl"} \cup {"xl"})
  BY <1>7, FS_AddElement
<1> QED
  BY <1>8, <1>9, FS_Subset

\* The items of a set have a first one.
LEMMA FirstOf ==
  ASSUME NEW S \in SUBSET Item, S # {}
  PROVE  \E m \in S : \A i \in S : Position[m] <= Position[i]
<1> DEFINE H == {Position[i] : i \in S}
<1>1. H \in SUBSET Nat /\ H # {}
  BY VoiceAssumption
<1> HIDE DEF H
<1>2. PICK h \in H : \A x \in H : h <= x
  BY <1>1, LeastOf
<1> QED
  BY <1>2 DEF H

\* What is cut keeps one candidate, and two if there are two.
LEMMA FirstKeeps ==
  ASSUME NEW S \in SUBSET Item
  PROVE  /\ First(Proposed, S) \subseteq S
         /\ S # {} => First(Proposed, S) # {}
         /\ \A i, j \in S : i # j =>
              \E k, l \in First(Proposed, S) : k # l
<1> DEFINE Ahead(i) == {j \in S : Position[j] < Position[i]}
<1>1. \A i \in S : Position[i] \in Nat
  BY VoiceAssumption
<1>2. \A i \in S : Cardinality(Ahead(i)) < Proposed => i \in First(Proposed, S)
  BY DEF First
<1>3. First(Proposed, S) \subseteq S
  BY DEF First
<1>4. ASSUME NEW m \in S, \A i \in S : Position[m] <= Position[i]
      PROVE  m \in First(Proposed, S)
  <2>1. Ahead(m) = {}
    BY <1>1, <1>4
  <2> QED
    BY <1>2, <2>1, FS_EmptySet, VoiceAssumption
<1>5. S # {} => First(Proposed, S) # {}
  BY <1>4, FirstOf
<1>6. ASSUME NEW i \in S, NEW j \in S, i # j
      PROVE  \E k, l \in First(Proposed, S) : k # l
  <2>1. PICK m \in S : \A x \in S : Position[m] <= Position[x]
    BY FirstOf
  <2>2. PICK n \in S \ {m} : \A x \in S \ {m} : Position[n] <= Position[x]
    <3>1. S \ {m} \in SUBSET Item /\ S \ {m} # {}
      BY <1>6
    <3> QED
      BY <3>1, FirstOf
  <2>3. Ahead(n) \subseteq {m}
    BY <1>1, <2>2
  <2> HIDE DEF Ahead
  <2>4. IsFiniteSet({m}) /\ Cardinality({m}) = 1
    BY FS_Singleton, Zenon
  <2>5. Cardinality(Ahead(n)) <= 1 /\ Cardinality(Ahead(n)) \in Nat
    BY <2>3, <2>4, FS_Subset, FS_CardinalityType
  <2>6. Cardinality(Ahead(n)) < Proposed
    BY <2>5, VoiceAssumption
  <2>7. n \in First(Proposed, S)
    BY <1>2, <2>2, <2>6
  <2>8. m \in First(Proposed, S)
    BY <1>4, <2>1
  <2> QED
    BY <2>2, <2>7, <2>8
<1> QED
  BY <1>3, <1>5, <1>6

\* A cut that leaves one candidate has cut nothing.
LEMMA OneLeft ==
  ASSUME NEW S \in SUBSET Item, NEW i, First(Proposed, S) = {i}
  PROVE  S = {i}
<1>1. i \in S
  BY FirstKeeps
<1>2. \A j \in S : j = i
  BY <1>1, FirstKeeps
<1> QED
  BY <1>1, <1>2

\* minimumProductMatches asks for seven words of ten, at least.
LEMMA RequiredEnough ==
  ASSUME NEW n \in Nat
  PROVE  Required(n) \in Nat /\ 10 * Required(n) >= 7 * n
  BY DEF Required

\* A single candidate that is strongest fits more of the words than any other.
LEMMA StrongestAlone ==
  ASSUME NEW seen, NEW found, NEW phrase, IsFiniteSet(Tokens(phrase)),
         NEW p, Strongest(seen, found, phrase) = {p}
  PROVE  /\ p \in found
         /\ \A q \in found \ {p} : Matches(seen, q, phrase) < Matches(seen, p, phrase)
         /\ 10 * Matches(seen, p, phrase) >= 7 * Cardinality(Tokens(phrase))
<1> DEFINE Fits(q) == Matches(seen, q, phrase)
           n == Cardinality(Tokens(phrase))
           strong == Strong(seen, found, phrase)
<1>1. n \in Nat /\ Required(n) \in Nat /\ 10 * Required(n) >= 7 * n
  BY FS_CardinalityType, RequiredEnough
<1>2. \A q : Fits(q) \in Nat
  BY FS_Subset, FS_CardinalityType DEF Matches
<1>3. strong = {q \in found : Fits(q) >= Required(n)}
  BY DEF Strong
<1>4. \A q : q = p <=> q \in strong /\ \A r \in strong : Fits(r) <= Fits(q)
  BY DEF Strongest
<1> HIDE DEF Fits, n, strong
<1>5. p \in found /\ Fits(p) >= Required(n)
  BY <1>3, <1>4
<1>6. 10 * Fits(p) >= 7 * n
  BY <1>1, <1>2, <1>5
<1>7. ASSUME NEW q \in found \ {p} PROVE Fits(q) < Fits(p)
  <2>1. CASE q \in strong
    <3>1. Fits(q) <= Fits(p) /\ \A r \in strong : Fits(r) <= Fits(p)
      BY <1>4, <2>1
    <3>2. Fits(q) # Fits(p)
      BY <1>4, <1>7, <2>1, <3>1
    <3> QED
      BY <1>2, <3>1, <3>2
  <2>2. CASE q \notin strong
    <3>1. ~(Fits(q) >= Required(n))
      BY <1>3, <1>7, <2>2
    <3> QED
      BY <1>1, <1>2, <1>5, <3>1
  <2> QED
    BY <2>1, <2>2
<1> QED
  BY <1>5, <1>6, <1>7 DEF Fits, n

LEMMA ProductResolved ==
  ASSUME NEW seen, NEW words \in Seq(STRING),
         LET phrase == ProductPhrase(words)
         IN  Resolve(seen, SearchProducts(seen, phrase), phrase).kind = "found"
  PROVE  LET phrase == ProductPhrase(words)
         IN  ProductRight(Resolve(seen, SearchProducts(seen, phrase), phrase), words)
<1> DEFINE phrase == ProductPhrase(words)
           found == Findable(seen, phrase)
           shown == SearchProducts(seen, phrase)
           exact == {i \in shown : Called(seen, i, phrase)}
           chosen == IF exact # {} THEN exact ELSE shown
           p == CHOOSE i \in chosen : TRUE
           answer == Resolve(seen, shown, phrase)
           others == found \ {p}
           few == Cardinality(found) <= CandidateLimit
           ranked == Ranked(seen, found, phrase)
           named == {i \in found : Called(seen, i, phrase)}
<1>1. IsFiniteSet(Tokens(phrase))
  BY PhraseFinite, TokensFinite
<1>2. /\ found \in SUBSET Item /\ found \subseteq Article
      /\ \A i \in found : seen[i].active
  BY DEF Findable, Active, Item
<1>3. IsFiniteSet(found) /\ Cardinality(found) \in Nat
  BY <1>2, VoiceAssumption, FS_Subset, FS_CardinalityType
<1>4. shown = First(Proposed, IF few THEN ranked ELSE found)
  BY <1>3, VoiceAssumption DEF SearchProducts
<1>5. ranked = IF named # {} THEN named
               ELSE IF Tokens(phrase) = {} THEN {} ELSE Strongest(seen, found, phrase)
  BY DEF Ranked
<1>6. ranked \subseteq found
  BY <1>5 DEF Strongest, Strong
<1>7. shown \subseteq found
  BY <1>2, <1>4, <1>6, FirstKeeps
<1>8. answer.kind = "found" => \E i \in chosen : chosen = {i}
  BY DEF Resolve
<1>9. chosen = {p}
  BY <1>8
<1>10. answer = [kind |-> "found", exact |-> exact # {}, item |-> p, seen |-> seen]
  BY <1>9 DEF Resolve
<1>11. p \in found /\ seen[p].active
  BY <1>2, <1>7, <1>9
<1> HIDE DEF p, answer
<1> DEFINE sure == exact # {}
<1> HIDE DEF sure
<1>12. answer.item = p /\ answer.seen = seen /\ answer.exact = sure /\ sure \in BOOLEAN
  BY <1>10 DEF sure
<1>13. ASSUME sure => Called(seen, p, phrase),
              sure /\ Cardinality(others) < CandidateLimit =>
                \A q \in others : ~Called(seen, q, phrase),
              ~sure => \A q \in others : Matches(seen, q, phrase) < Matches(seen, p, phrase),
              ~sure => 10 * Matches(seen, p, phrase) >= 7 * Cardinality(Tokens(phrase))
      PROVE  ProductRight(answer, words)
  BY <1>11, <1>12, <1>13 DEF ProductRight
<1> HIDE DEF phrase, found, ranked, named, few
<1>14. ProductRight(answer, words)
  <2>1. CASE exact # {}
    <3>1. exact = {p} /\ p \in shown /\ Called(seen, p, phrase)
      BY <1>9, <2>1
    <3>2. ASSUME Cardinality(others) < CandidateLimit, NEW q \in others
          PROVE  ~Called(seen, q, phrase)
      <4>1. Cardinality(others) = Cardinality(found) - 1
        BY <1>3, <1>11, FS_RemoveElement
      <4>2. few
        BY <1>3, <3>2, <4>1, VoiceAssumption DEF few
      <4>3. p \in named
        BY <1>11, <3>1 DEF named
      <4>4. ranked = named /\ shown = First(Proposed, named) /\ named \in SUBSET Item
        BY <1>2, <1>4, <1>5, <4>2, <4>3 DEF named
      <4>5. shown \subseteq named
        BY <4>4, FirstKeeps
      <4>6. shown = {p}
        BY <3>1, <4>5 DEF named
      <4>7. named = {p}
        BY <4>4, <4>6, OneLeft
      <4> QED
        BY <3>2, <4>7 DEF named
    <3> QED
      BY <2>1, <1>13, <3>1, <3>2 DEF sure
  <2>2. CASE exact = {}
    <3>1. shown = {p} /\ ~Called(seen, p, phrase)
      BY <1>9, <2>2
    <3>2. few
      <4>1. SUFFICES ASSUME ~few PROVE FALSE
        OBVIOUS
      <4>2. found = {p}
        BY <1>2, <1>4, <3>1, <4>1, OneLeft
      <4>3. Cardinality(found) = 1
        BY <4>2, FS_Singleton
      <4> QED
        BY <4>1, <4>3, VoiceAssumption DEF few
    <3>3. ranked = {p}
      BY <1>2, <1>4, <1>6, <3>1, <3>2, OneLeft
    <3>4. named = {}
      BY <1>5, <3>1, <3>3 DEF named
    <3>5. Strongest(seen, found, phrase) = {p}
      BY <1>5, <3>3, <3>4
    <3>6. /\ \A q \in others : Matches(seen, q, phrase) < Matches(seen, p, phrase)
          /\ 10 * Matches(seen, p, phrase) >= 7 * Cardinality(Tokens(phrase))
      BY <1>1, <3>5, StrongestAlone
    <3> QED
      BY <2>2, <1>13, <3>6 DEF sure
  <2> QED
    BY <2>1, <2>2
<1> QED
  BY <1>14 DEF answer, phrase

LEMMA PlaceResolved ==
  ASSUME NEW seen, NEW words,
         LET phrase == PlacePhrase(words)
         IN  Resolve(seen, SearchPlaces(seen, phrase), phrase).kind = "found"
  PROVE  LET phrase == PlacePhrase(words)
         IN  PlaceRight(Resolve(seen, SearchPlaces(seen, phrase), phrase), words)
<1> DEFINE phrase == PlacePhrase(words)
           shown == SearchPlaces(seen, phrase)
           exact == {i \in shown : Called(seen, i, phrase)}
           chosen == IF exact # {} THEN exact ELSE shown
           w == CHOOSE i \in chosen : TRUE
           answer == Resolve(seen, shown, phrase)
<1>1. \A i \in shown : seen[i].active
  BY DEF SearchPlaces, First, Active
<1>2. answer.kind = "found" => \E i \in chosen : chosen = {i}
  BY DEF Resolve
<1>3. chosen = {w}
  BY <1>2
<1>4. answer = [kind |-> "found", exact |-> exact # {}, item |-> w, seen |-> seen]
  BY <1>3 DEF Resolve
<1> HIDE DEF w, answer
<1>5. seen[w].active
  BY <1>1, <1>3
<1> DEFINE sure == exact # {}
<1> HIDE DEF sure
<1>6. answer.item = w /\ answer.seen = seen /\ answer.exact = sure /\ sure \in BOOLEAN
  BY <1>4 DEF sure
<1>7. ASSUME sure => Called(seen, w, phrase), ~sure => shown = {w}
      PROVE  PlaceRight(answer, words)
  BY <1>5, <1>6, <1>7 DEF PlaceRight
<1>8. PlaceRight(answer, words)
  <2>1. CASE exact # {}
    <3>1. Called(seen, w, phrase)
      BY <1>3, <2>1
    <3> QED
      BY <2>1, <1>7, <3>1 DEF sure
  <2>2. CASE exact = {}
    <3>1. shown = {w}
      BY <1>3, <2>2
    <3> QED
      BY <2>2, <1>7, <3>1 DEF sure
  <2> QED
    BY <2>1, <2>2
<1> QED
  BY <1>8 DEF answer, phrase

LEMMA VoiceSteps == VoiceInv /\ [VoiceNext]_spoken => VoiceInv'
<1> SUFFICES ASSUME VoiceInv, [VoiceNext]_spoken PROVE VoiceInv'
  OBVIOUS
<1>1. ASSUME NEW product \in Phrases.product \cup {Unsaid}, NEW place,
             Say([product |-> product, place |-> place])
      PROVE  VoiceInv'
  BY <1>1 DEF Say, VoiceInv, Resting, Silent
<1>2. ASSUME NEW answer, Replies(answer), answer.kind # "quantity"
      PROVE  VoiceInv'
  BY <1>2 DEF Replies, VoiceInv, Resting
<1>3. CASE FindProduct
  <2> DEFINE phrase == ProductPhrase(slots.product)
             found == Resolve(catalogue, SearchProducts(catalogue, phrase), phrase)
  <2>1. CASE Elicits("product") \/ Elicits("place")
    BY <1>2, <2>1 DEF Elicits
  <2>2. CASE ~(Elicits("product") \/ Elicits("place"))
    <3>1. /\ slots.product # Unsaid /\ found.kind = "found"
          /\ turn' = [turn EXCEPT !.step = "place", !.product = found]
          /\ UNCHANGED <<catalogue, renames, slots, reply>>
      BY <1>3, <2>2 DEF FindProduct
    <3>2. slots.product \in Seq(STRING)
      BY <3>1, VoiceAssumption DEF VoiceInv
    <3>3. ProductRight(found, slots.product)
      BY <3>1, <3>2, ProductResolved
    <3> HIDE DEF found
    <3>4. turn'.step = "place" /\ turn'.product = found
      BY <3>1
    <3> QED
      BY <3>1, <3>3, <3>4 DEF VoiceInv
  <2> QED
    BY <2>1, <2>2
<1>4. CASE FindPlace
  <2> DEFINE phrase == PlacePhrase(slots.place)
             found == Resolve(catalogue, SearchPlaces(catalogue, phrase), phrase)
  <2>1. CASE Elicits("place")
    BY <1>2, <2>1 DEF Elicits
  <2>2. CASE ~Elicits("place")
    <3>1. /\ turn.step = "place" /\ found.kind = "found"
          /\ turn' = [turn EXCEPT !.step = "stock", !.place = found]
          /\ UNCHANGED <<catalogue, renames, slots, reply>>
      BY <1>4, <2>2 DEF FindPlace
    <3>2. PlaceRight(found, slots.place)
      BY <3>1, PlaceResolved
    <3> HIDE DEF found
    <3>3. turn'.step = "stock" /\ turn'.place = found /\ turn'.product = turn.product
      BY <3>1
    <3> QED
      BY <3>1, <3>2, <3>3 DEF VoiceInv
  <2> QED
    BY <2>1, <2>2
<1>5. CASE ReadStock
  <2>1. CASE Replies([kind |-> "noBalance"])
    BY <1>2, <2>1
  <2>2. CASE Replies([kind |-> "quantity", said |-> slots, announced |-> Inferred,
                      product |-> turn.product, place |-> turn.place])
    BY <1>5, <2>2 DEF ReadStock, Replies, VoiceInv, Resting, Inferred
  <2> QED
    BY <1>5, <2>1, <2>2 DEF ReadStock
<1>6. CASE Refuse
  BY <1>2, <1>6 DEF Refuse
<1>7. ASSUME NEW i, NEW name, NEW active, Rename(i, name, active) PROVE VoiceInv'
  BY <1>7 DEF Rename, VoiceInv
<1>8. CASE UNCHANGED spoken
  BY <1>8 DEF spoken, VoiceInv
<1> QED
  BY <1>1, <1>3, <1>4, <1>5, <1>6, <1>7, <1>8 DEF VoiceNext

LEMMA InvNeverGuesses == VoiceInv => NeverGuesses
  BY DEF VoiceInv, NeverGuesses, ProductRight, PlaceRight

\* Whatever the catalogue, the phrases and the edits between the turns: the
\* skill tells a quantity only of a product and a warehouse the words determine.
THEOREM VoiceNeverGuesses == VoiceSpec => []NeverGuesses
<1>1. VoiceInit => VoiceInv
  BY DEF VoiceInit, VoiceInv, NothingSaid, Resting, Silent
<1> QED
  BY <1>1, VoiceSteps, InvNeverGuesses, PTL DEF VoiceSpec
=============================================================================
