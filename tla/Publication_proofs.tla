------------------------- MODULE Publication_proofs -------------------------
(* The last stage of a download, for any number of attempts, failing steps   *)
(* and crashes: no success without a clean library, and no commit or         *)
(* migration that destroys the last copy of what was visible before.         *)
(*                                                                           *)
(* Neither property is inductive. Each needs to know whose steps are running *)
(* (OpInv: the job that is committing, or the migration before anything      *)
(* else) and what the directories hold at each of them (FileInv).            *)
EXTENDS Publication, TLAPS

Live == {"open", "committing", "succeeded"}

(* The running commit is that of the one live job; the migration runs before *)
(* the process is up.                                                        *)
OpInv ==
    /\ \A i, j \in Jobs : state[i] \in Live /\ state[j] \in Live => i = j
    /\ ~At("idle") /\ op.owner \in Jobs => boot = "up" /\ state[op.owner] = "committing"
    /\ ~At("idle") /\ op.owner = Migration => boot = "migrate"

Clean == published = Dir("new") /\ backup = NoBackups /\ ~staged

(* What the directories hold at each step. After a success only a migration  *)
(* runs, and it finds nothing to do.                                         *)
FileInv ==
    /\ op.pc \in {"own", "aside"} => Mine.previous = Absent
    /\ op.pc \in {"token", "place", "restore"} => published = Absent
    /\ op.pc \in {"validate", "undo"} => published = Dir("new")
    /\ op.pc \in {"cleanup", "discard"} => Canonical /\ (op.owner \in Jobs => published = Dir("new"))
    /\ op.pc = "done" /\ op.owner \in Jobs => Clean
    /\ \A j \in Jobs : state[j] = "succeeded" => Clean /\ op.pc \in {"idle", "inspect", "done"}

PubInv == TypeOK /\ OpInv /\ FileInv

-----------------------------------------------------------------------------
(* A step spends at most what the budget has. *)
LEMMA SpendType ==
  ASSUME TypeOK, NEW what \in {"faults", "crashes"}, Spend(what)
  PROVE  budget' \in [faults : Nat, crashes : Nat]
BY DEF TypeOK, Spend

(* The owners, and the directories the steps leave. *)
LEMMA DirTypes ==
  /\ \A j \in Jobs : j \in Owners /\ j # Migration
  /\ Migration \in Owners /\ Nobody \notin Owners
  /\ Absent \in Dirs /\ Dir("new") \in Dirs /\ Dir("pieces") \in Dirs /\ Dir("legacy") \in Dirs
  /\ Dir("earlier") \in Dirs
  /\ NoBackup \in BackupDirs /\ NoBackups \in [Owners -> BackupDirs]
  /\ Absent.holds = "nothing" /\ Dir("new").holds = "new" /\ Dir("pieces").holds = "pieces"
  /\ Dir("new").token = Nobody
BY PublicationAssumption DEF Owners, Absent, Dir, Dirs, NoBackup, BackupDirs, NoBackups

(* A step that writes one backup. *)
LEMMA BackupSet ==
  ASSUME TypeOK, NEW b, b \in BackupDirs, backup' = [backup EXCEPT ![op.owner] = b]
  PROVE  /\ backup' \in [Owners -> BackupDirs] /\ backup'[op.owner] = b
         /\ \A o \in Owners : o # op.owner => backup'[o] = backup[o]
BY DEF TypeOK

(* The initial state has the types. *)
LEMMA TypeInit == Init => TypeOK
<1> SUFFICES ASSUME Init PROVE TypeOK
  OBVIOUS
<1> QED
  BY DirTypes, PublicationAssumption DEF Init, TypeOK, Idle

(* The steps of a commit or a migration keep the types. *)
LEMMA TypeStep ==
  ASSUME TypeOK, [Next]_vars
  PROVE  TypeOK'
<1> USE DEF files
<1>0. op.owner \in Owners /\ Mine \in BackupDirs /\ Mine.previous \in Dirs
  BY DEF TypeOK, Mine, BackupDirs
<1>1. CASE UNCHANGED vars
  BY <1>1 DEF TypeOK, vars
<1>2. ASSUME NEW j \in Jobs, Enqueue(j) \/ (\E p \in Jobs : Retry(p, j)) \/ Download(j) \/ Commit(j)
      PROVE  TypeOK'
  <2>1. CASE Enqueue(j) \/ Download(j)
    BY <2>1 DEF Enqueue, Download, TypeOK
  <2>2. CASE \E p \in Jobs : Retry(p, j)
    BY <2>2, DirTypes DEF Retry, TypeOK
  <2>3. CASE Commit(j)
    BY <2>3, DirTypes DEF Commit, TypeOK
  <2> QED
    BY <1>2, <2>1, <2>2, <2>3
<1>3. CASE Inspect \/ InspectLegacy
  BY <1>3 DEF Inspect, InspectLegacy, Goto, TypeOK
<1>4. CASE Export
  BY <1>4, SpendType DEF Export, Goto, Fault, TypeOK
<1>5. CASE CreateScope
  <2> DEFINE b == [Mine EXCEPT !.dir = "empty"]
  <2>1. b \in BackupDirs
    BY <1>0 DEF BackupDirs
  <2>2. backup' = backup \/ backup' = [backup EXCEPT ![op.owner] = b]
    BY <1>5 DEF CreateScope, Mine, TypeOK
  <2> HIDE DEF b
  <2>3. backup' \in [Owners -> BackupDirs]
    BY <2>1, <2>2, BackupSet DEF TypeOK
  <2> QED
    BY <1>5, <2>3, SpendType DEF CreateScope, Goto, Fault, TypeOK
<1>6. CASE WriteOwnership
  <2> DEFINE b == [Mine EXCEPT !.dir = "owned"]
  <2>1. b \in BackupDirs
    BY <1>0 DEF BackupDirs
  <2>2. \/ backup' = backup \/ backup' = [backup EXCEPT ![op.owner] = b]
        \/ backup' = [backup EXCEPT ![op.owner] = NoBackup]
    BY <1>6 DEF WriteOwnership, Mine, TypeOK
  <2> HIDE DEF b
  <2>3. backup' \in [Owners -> BackupDirs]
    BY <2>1, <2>2, BackupSet, DirTypes DEF TypeOK
  <2> QED
    BY <1>6, <2>3, SpendType DEF WriteOwnership, Goto, Fault, TypeOK
<1>7. CASE MoveAside
  <2> DEFINE b == [Mine EXCEPT !.previous = published]
  <2>1. b \in BackupDirs
    BY <1>0 DEF BackupDirs, TypeOK
  <2>2. backup' = backup \/ backup' = [backup EXCEPT ![op.owner] = b]
    BY <1>7 DEF MoveAside, Mine, TypeOK
  <2> HIDE DEF b
  <2>3. backup' \in [Owners -> BackupDirs]
    BY <2>1, <2>2, BackupSet DEF TypeOK
  <2> QED
    BY <1>7, <2>3, SpendType, DirTypes DEF MoveAside, Goto, Fault, TypeOK
<1>8. CASE WriteToken
  <2> DEFINE d == [Mine.previous EXCEPT !.token = op.owner]
             b == [Mine EXCEPT !.previous = d]
  <2>1. d \in Dirs
    BY <1>0 DEF Dirs
  <2>2. b \in BackupDirs
    BY <1>0, <2>1 DEF BackupDirs
  <2>3. backup' = backup \/ backup' = [backup EXCEPT ![op.owner] = b]
    BY <1>8 DEF WriteToken, Mine, TypeOK
  <2> HIDE DEF b
  <2>4. backup' \in [Owners -> BackupDirs]
    BY <2>2, <2>3, BackupSet DEF TypeOK
  <2> QED
    BY <1>8, <2>4, SpendType DEF WriteToken, Goto, Fault, TypeOK
<1>9. CASE Place
  BY <1>9, SpendType, DirTypes DEF Place, Goto, Fault, TypeOK
<1>10. Taken \in [Owners -> BackupDirs]
  <2> DEFINE b == [Mine EXCEPT !.previous = Absent]
  <2>1. b \in BackupDirs
    BY <1>0, DirTypes DEF BackupDirs
  <2>2. Taken = [backup EXCEPT ![op.owner] = b]
    BY DEF Taken, Mine, TypeOK
  <2> HIDE DEF b
  <2> QED
    BY <2>1, <2>2 DEF TypeOK
<1>11. CASE Restore
  BY <1>0, <1>10, <1>11, SpendType DEF Restore, Goto, Fault, TypeOK
<1>12. CASE Validate
  BY <1>12, SpendType DEF Validate, Goto, Fault, TypeOK
<1>13. CASE Undo
  BY <1>0, <1>10, <1>13, SpendType, DirTypes DEF Undo, Goto, Fault, TypeOK
<1>14. CASE Cleanup
  <2>1. backup' \in [Owners -> BackupDirs]
    <3>1. CASE backup' = Taken \/ backup' = backup
      BY <1>10, <3>1 DEF TypeOK
    <3>2. ASSUME NEW left \in {Mine.previous, Dir("pieces")},
                 backup' = [backup EXCEPT ![op.owner].previous = left]
          PROVE  backup' \in [Owners -> BackupDirs]
      <4> DEFINE b == [Mine EXCEPT !.previous = left]
      <4>1. b \in BackupDirs
        BY <1>0, DirTypes DEF BackupDirs
      <4>2. backup' = [backup EXCEPT ![op.owner] = b]
        BY <3>2 DEF Mine, TypeOK
      <4> HIDE DEF b
      <4> QED
        BY <4>1, <4>2, BackupSet
    <3> QED
      BY <1>14, <3>1, <3>2 DEF Cleanup
  <2> QED
    BY <1>14, <2>1, SpendType DEF Cleanup, Goto, Fault, TypeOK
<1>15. CASE Discard
  BY <1>15, SpendType, DirTypes DEF Discard, Goto, Fault, TypeOK
<1>16. CASE Finish
  <2>1. op' \in [owner : Owners, moved : BOOLEAN,
               pc : {"idle", "inspect", "export", "scope", "own", "aside", "token", "place",
                     "restore", "validate", "undo", "cleanup", "discard", "done", "failed"}]
    BY <1>16, DirTypes DEF Finish, Idle
  <2>2. budget' \in [faults : Nat, crashes : Nat]
    BY <1>16, SpendType DEF Finish, Fault, TypeOK
  <2> QED
    BY <1>16, <2>1, <2>2 DEF Finish, LeaveAttempt, TypeOK
<1>17. CASE Migrate \/ Migrated
  <2>1. CASE Migrate
    BY <2>1, DirTypes DEF Migrate, TypeOK
  <2>2. CASE Migrated
    BY <2>2, DirTypes DEF Migrated, LeaveAttempt, Idle, TypeOK
  <2> QED
    BY <1>17, <2>1, <2>2
<1>18. CASE Settle
  BY <1>18, DirTypes DEF Settle, TypeOK
<1>19. CASE Crash
  BY <1>19, SpendType, DirTypes DEF Crash, Idle, TypeOK
<1> QED
  BY <1>1, <1>2, <1>3, <1>4, <1>5, <1>6, <1>7, <1>8, <1>9, <1>11, <1>12, <1>13, <1>14, <1>15,
     <1>16, <1>17, <1>18, <1>19 DEF Next, Step

-----------------------------------------------------------------------------
(* A step of a commit or a migration, other than its end: its owner and the  *)
(* jobs stay.                                                                *)
Middle ==
    \/ Inspect \/ InspectLegacy \/ Export \/ CreateScope \/ WriteOwnership \/ MoveAside
    \/ WriteToken \/ Place \/ Restore \/ Validate \/ Undo \/ Cleanup \/ Discard

(* A step in the middle of an operation keeps its owner and touches no *)
(* outcome.                                                            *)
LEMMA MiddleStays ==
  ASSUME TypeOK, Middle
  PROVE  /\ ~At("idle") /\ op'.pc # "idle" /\ op'.owner = op.owner /\ UNCHANGED <<state, boot>>
         /\ op.owner \in Owners /\ Mine' = backup'[op.owner]
<1>1. op.owner \in Owners /\ op.pc # "idle" /\ UNCHANGED <<state, boot>>
  BY DEF TypeOK, Middle, At, Inspect, InspectLegacy, Export, CreateScope, WriteOwnership,
         MoveAside, WriteToken, Place, Restore, Validate, Undo, Cleanup, Discard
<1>2. op'.owner = op.owner /\ op'.pc # "idle"
  <2>1. CASE MoveAside
    BY <2>1 DEF MoveAside, Goto, TypeOK
  <2>2. CASE Inspect \/ InspectLegacy \/ Export \/ CreateScope \/ WriteOwnership \/ WriteToken
    BY <2>2 DEF Inspect, InspectLegacy, Export, CreateScope, WriteOwnership, WriteToken,
           Goto, TypeOK
  <2>3. CASE Place \/ Restore \/ Validate \/ Undo \/ Cleanup \/ Discard
    BY <2>3 DEF Place, Restore, Validate, Undo, Cleanup, Discard, Goto, TypeOK
  <2> QED
    BY <2>1, <2>2, <2>3 DEF Middle
<1> QED
  BY <1>1, <1>2 DEF At, Mine

(* Every step keeps one operation at a time, of an owner that is not *)
(* finished.                                                         *)
LEMMA OpStep ==
  ASSUME TypeOK, OpInv, [Next]_vars
  PROVE  OpInv'
<1>0. ASSUME NEW j \in Jobs PROVE j # Migration
  BY PublicationAssumption DEF Owners
<1>1. CASE UNCHANGED vars
  BY <1>1 DEF OpInv, vars, At
<1>2. CASE Middle
  BY <1>2, MiddleStays DEF OpInv, At
<1>3. ASSUME NEW j \in Jobs, Enqueue(j) \/ (\E p \in Jobs : Retry(p, j))
      PROVE  OpInv'
  <2>1. /\ state' = [state EXCEPT ![j] = "open"] /\ UNCHANGED <<op, boot>> /\ boot = "up"
        /\ \A i \in Jobs : state[i] \notin Live
    BY <1>3 DEF Enqueue, Retry, Live
  <2>2. \A i \in Jobs : state'[i] \in Live => i = j
    BY <2>1 DEF TypeOK
  <2>3. At("idle") \/ op.owner \notin Owners
    BY <2>1 DEF OpInv, At, Live, Owners
  <2> QED
    BY <2>1, <2>2, <2>3 DEF OpInv, At, Owners
<1>4. ASSUME NEW j \in Jobs, Download(j)
      PROVE  OpInv'
  <2>1. /\ state' = [state EXCEPT ![j] = "committing"] /\ UNCHANGED <<op, boot>> /\ boot = "up"
        /\ state[j] \in Live
    BY <1>4 DEF Download, Live
  <2>2. \A i \in Jobs : state'[i] \in Live => state[i] \in Live
    BY <2>1 DEF TypeOK
  <2>3. \A i \in Jobs : state'[i] = "committing" \/ state'[i] = state[i]
    BY <2>1 DEF TypeOK
  <2> QED
    BY <2>1, <2>2, <2>3 DEF OpInv, At
<1>5. ASSUME NEW j \in Jobs, Commit(j)
      PROVE  OpInv'
  BY <1>0, <1>5 DEF Commit, OpInv, At
<1>6. CASE Finish
  <2>1. ~At("idle") /\ op.owner \in Jobs /\ UNCHANGED boot /\ op' = Idle /\ op'.pc = "idle"
    BY <1>6 DEF Finish, At, Idle
  <2>2. state[op.owner] \in Live
    BY <2>1 DEF OpInv, Live
  <2>3. \A i \in Jobs : state'[i] \in Live => state[i] \in Live
    BY <1>6, <2>1, <2>2 DEF Finish, TypeOK
  <2> QED
    BY <2>1, <2>3 DEF OpInv, At
<1>7. CASE Migrated \/ Migrate
  BY <1>0, <1>7 DEF Migrated, Migrate, OpInv, At, Idle
<1>8. CASE Settle
  <2>1. \A i \in Jobs : state'[i] \in Live => state'[i] = state[i]
    BY <1>8 DEF Settle, Live
  <2>2. At("idle") \/ op.owner \notin Owners
    BY <1>8 DEF Settle, OpInv, Owners
  <2> QED
    BY <1>8, <2>1, <2>2 DEF Settle, OpInv, At, Owners
<1>9. CASE Crash
  BY <1>9 DEF Crash, files, Idle, OpInv, At
<1> QED
  BY <1>1, <1>2, <1>3, <1>4, <1>5, <1>6, <1>7, <1>8, <1>9 DEF Next, Step, Middle

-----------------------------------------------------------------------------
(* The steps that touch directories run while no job has succeeded: their    *)
(* owner is the live job, or a migration that found something to do.         *)
LEMMA NoneSucceeded ==
  ASSUME TypeOK, OpInv, FileInv, Middle, ~InspectLegacy, NEW j \in Jobs
  PROVE  state[j] # "succeeded"
<1>1. CASE op.owner \in Jobs
  BY <1>1, MiddleStays DEF OpInv, Live
<1>2. CASE op.owner = Migration
  <2>1. op.pc \notin {"idle", "inspect", "done"}
    BY <1>2, PublicationAssumption DEF Middle, At, Inspect, Export, CreateScope, WriteOwnership,
       MoveAside, WriteToken, Place, Restore, Validate, Undo, Cleanup, Discard, Owners
  <2> QED
    BY <2>1 DEF FileInv
<1> QED
  BY <1>1, <1>2, MiddleStays DEF Owners

(* What the directories hold is kept by every step. *)
LEMMA FileStep ==
  ASSUME TypeOK, OpInv, FileInv, [Next]_vars
  PROVE  FileInv'
<1> USE DEF files
<1>0. TypeOK' /\ op.owner \in Owners
  BY TypeStep DEF TypeOK
<1>1. CASE UNCHANGED vars
  BY <1>1 DEF FileInv, vars, Mine, Clean, Canonical
<1>2. CASE Middle /\ ~InspectLegacy
  <2>1. /\ op'.owner = op.owner /\ \A j \in Jobs : state'[j] # "succeeded"
        /\ Mine' = backup'[op.owner]
    BY <1>2, MiddleStays, NoneSucceeded
  <2>2. CASE Inspect
    <3>1. op'.pc \in {"cleanup", "export", "failed"} /\ UNCHANGED published
      BY <2>2 DEF Inspect, Goto, TypeOK
    <3>2. op'.pc = "cleanup" => Canonical /\ published.holds = "new"
      BY <2>2 DEF Inspect, Goto, TypeOK
    <3>3. op'.pc = "cleanup" => published = Dir("new")
      BY <3>2 DEF TypeOK, Dirs, Dir, Canonical
    <3> QED
      BY <2>1, <3>1, <3>2, <3>3 DEF FileInv, Canonical
  <2>3. CASE Export
    <3>1. /\ op'.pc \in {"place", "scope", "failed"} /\ UNCHANGED published
          /\ op'.pc = "place" => published = Absent
      BY <2>3 DEF Export, Goto, TypeOK
    <3> QED
      BY <2>1, <3>1 DEF FileInv
  <2>4. CASE CreateScope
    <3>1. op'.pc \in {"own", "failed"}
      BY <2>4 DEF CreateScope, Goto, TypeOK
    <3>2. op'.pc = "own" => Mine = NoBackup /\ backup' = [backup EXCEPT ![op.owner].dir = "empty"]
      BY <2>4 DEF CreateScope, Goto, TypeOK
    <3>3. op'.pc = "own" => Mine'.previous = Absent
      BY <1>0, <2>1, <3>2 DEF TypeOK, Mine, NoBackup
    <3> QED
      BY <2>1, <3>1, <3>3 DEF FileInv
  <2>5. CASE WriteOwnership
    <3>1. /\ op'.pc \in {"aside", "failed"} /\ Mine.previous = Absent
          /\ op'.pc = "aside" => backup' = [backup EXCEPT ![op.owner].dir = "owned"]
      BY <2>5 DEF WriteOwnership, Goto, TypeOK, FileInv, At
    <3>2. op'.pc = "aside" => Mine'.previous = Absent
      BY <1>0, <2>1, <3>1 DEF TypeOK, Mine, BackupDirs
    <3> QED
      BY <2>1, <3>1, <3>2 DEF FileInv
  <2>6. CASE MoveAside
    <3>1. op'.pc \in {"token", "failed"} /\ (op'.pc = "token" => published' = Absent)
      BY <2>6 DEF MoveAside, Goto, TypeOK
    <3> QED
      BY <2>1, <3>1 DEF FileInv
  <2>7. CASE WriteToken
    <3>1. op'.pc \in {"place", "failed"} /\ published' = Absent
      BY <2>7 DEF WriteToken, Goto, TypeOK, FileInv, At
    <3> QED
      BY <2>1, <3>1 DEF FileInv
  <2>8. CASE Place
    <3>1. /\ op'.pc \in {"validate", "restore", "failed"}
          /\ op'.pc = "validate" => published' = Dir("new")
          /\ op'.pc = "restore" => published' = Absent
      BY <2>8 DEF Place, Goto, TypeOK, FileInv, At
    <3> QED
      BY <2>1, <3>1 DEF FileInv
  <2>9. CASE Validate
    <3>1. op'.pc \in {"cleanup", "discard", "undo"} /\ published' = Dir("new")
      BY <2>9 DEF Validate, Goto, TypeOK, FileInv, At
    <3> QED
      BY <2>1, <3>1, DirTypes DEF FileInv, Canonical
  <2>10. CASE Restore \/ Undo
    <3>1. op'.pc = "failed"
      BY <2>10 DEF Restore, Undo, Goto, TypeOK
    <3> QED
      BY <2>1, <3>1 DEF FileInv
  <2>11. CASE Cleanup
    <3>1. op'.pc \in {"discard", "failed"} /\ UNCHANGED published /\ At("cleanup")
      BY <2>11 DEF Cleanup, Goto, TypeOK
    <3> QED
      BY <2>1, <3>1 DEF FileInv, Canonical, At
  <2>12. CASE Discard
    <3>1. /\ op'.pc \in {"done", "failed"} /\ UNCHANGED published /\ At("discard")
          /\ op'.pc = "done" => backup' = NoBackups /\ staged' = FALSE
      BY <2>12 DEF Discard, Goto, TypeOK
    <3> QED
      BY <2>1, <3>1 DEF FileInv, At, Clean
  <2> QED
    BY <1>2, <2>2, <2>3, <2>4, <2>5, <2>6, <2>7, <2>8, <2>9, <2>10, <2>11, <2>12 DEF Middle
<1>3. CASE InspectLegacy
  <2>1. /\ op.owner = Migration /\ op.owner \notin Jobs /\ op'.owner = Migration
        /\ UNCHANGED <<files, state>>
        /\ op'.pc \in {"done", "cleanup", "export", "failed"}
        /\ op'.pc = "cleanup" => Canonical
        /\ Canonical /\ Mine = NoBackup => op'.pc = "done"
    BY <1>3, DirTypes DEF InspectLegacy, Goto, TypeOK
  <2>2. Clean => op'.pc = "done"
    BY <2>1, DirTypes DEF Clean, NoBackups, Mine, Canonical
  <2>3. Clean => Clean'
    BY <2>1 DEF Clean
  <2> QED
    BY <2>1, <2>2, <2>3 DEF FileInv, Canonical
<1>4. ASSUME NEW j \in Jobs,
             Enqueue(j) \/ (\E p \in Jobs : Retry(p, j)) \/ Download(j) \/ Commit(j)
      PROVE  FileInv'
  <2>1. boot = "up" /\ \A i \in Jobs : state[i] # "succeeded" /\ state'[i] # "succeeded"
    BY <1>4 DEF Enqueue, Retry, Download, Commit, OpInv, Live, TypeOK
  <2>2. op.pc = "idle" \/ (op.owner \in Jobs /\ state[op.owner] = "committing")
    BY <1>0, <2>1 DEF OpInv, At, Owners
  <2>3. CASE Enqueue(j) \/ (\E p \in Jobs : Retry(p, j))
    <3>1. op.pc = "idle" /\ UNCHANGED op
      BY <2>2, <2>3 DEF Enqueue, Retry
    <3> QED
      BY <2>1, <3>1 DEF FileInv
  <2>4. CASE Download(j)
    <3>1. op.pc = "idle" /\ UNCHANGED op
      BY <2>2, <2>4 DEF Download, OpInv, Live
    <3> QED
      BY <2>1, <3>1 DEF FileInv
  <2>5. CASE Commit(j)
    <3>1. op'.pc = "inspect"
      BY <2>5 DEF Commit
    <3> QED
      BY <2>1, <3>1 DEF FileInv
  <2> QED
    BY <1>4, <2>3, <2>4, <2>5
<1>5. CASE Finish
  <2>1. /\ op.owner \in Jobs /\ op'.pc = "idle" /\ UNCHANGED <<published, backup, staged>>
        /\ ~At("idle")
        /\ \/ UNCHANGED state
           \/ state' = [state EXCEPT ![op.owner] = IF At("done") THEN "succeeded" ELSE "failed"]
    BY <1>5 DEF Finish, Idle, At
  <2>2. \A j \in Jobs : state[j] # "succeeded"
    BY <2>1 DEF OpInv, Live
  <2>3. \A j \in Jobs : state'[j] = "succeeded" => At("done")
    BY <2>1, <2>2 DEF TypeOK
  <2>4. At("done") => Clean
    BY <2>1 DEF FileInv, At
  <2> QED
    BY <2>1, <2>3, <2>4 DEF FileInv, Clean
<1>6. CASE Migrated \/ Migrate
  <2>1. op'.pc \in {"idle", "inspect"} /\ UNCHANGED <<published, backup, staged, state>>
    BY <1>6 DEF Migrated, Migrate, Idle
  <2> QED
    BY <2>1 DEF FileInv, Clean
<1>7. CASE Settle
  <2>1. UNCHANGED <<op, published>> /\ op.pc = "idle"
    BY <1>0, <1>7 DEF Settle, OpInv, At, Owners
  <2>2. \A j \in Jobs : state'[j] = "succeeded" => state[j] = "succeeded"
    BY <1>7 DEF Settle
  <2>3. ASSUME NEW j \in Jobs, state[j] = "succeeded"
        PROVE  UNCHANGED <<staged, backup>>
    <3>1. \A i \in Jobs : state[i] \notin {"open", "committing"}
      BY <2>3 DEF OpInv, Live
    <3> QED
      BY <1>7, <3>1 DEF Settle
  <2> QED
    BY <2>1, <2>2, <2>3 DEF FileInv, Clean
<1>8. CASE Crash
  <2>1. op'.pc = "idle" /\ UNCHANGED <<published, backup, staged, state>>
    BY <1>8 DEF Crash, Idle
  <2> QED
    BY <2>1 DEF FileInv, Clean
<1> QED
  BY <1>1, <1>2, <1>3, <1>4, <1>5, <1>6, <1>7, <1>8 DEF Next, Step, Middle

(* The inductive invariant: types, whose steps run, and the directories.     *)
THEOREM PublicationInvariant == Spec => []PubInv
<1>1. Init => PubInv
  <2> SUFFICES ASSUME Init PROVE PubInv
    OBVIOUS
  <2>1. TypeOK
    BY TypeInit
  <2>2. op.pc = "idle" /\ \A j \in Jobs : state[j] = "absent"
    BY DEF Init, Idle
  <2> QED
    BY <2>1, <2>2 DEF PubInv, OpInv, FileInv, At, Live
<1>2. PubInv /\ [Next]_vars => PubInv'
  BY TypeStep, OpStep, FileStep DEF PubInv
<1> QED
  BY <1>1, <1>2, PTL DEF Spec

(* A download is reported as succeeded only when the bundle of the current   *)
(* recipe is alone in the visible directory and neither backups nor source   *)
(* files are left, through failing steps, crashes and retries (Finish,       *)
(* cleanup_source_staging, fail_interrupted_jobs_on_startup).                *)
THEOREM SuccessesAreClean == Spec => []SuccessIsClean
<1>1. PubInv => SuccessIsClean
  BY DEF PubInv, FileInv, SuccessIsClean, Clean
<1> QED
  BY <1>1, PublicationInvariant, PTL

-----------------------------------------------------------------------------
Old == {"legacy", "earlier"}

(* Old files are not lost while they move between the visible directory and  *)
(* the own backup.                                                           *)
LEMMA OldMoves ==
  ASSUME TypeOK, HasOld, NEW b, b \in BackupDirs, backup' = [backup EXCEPT ![op.owner] = b],
         \/ published'.holds \in Old
         \/ published.holds \notin Old /\ Mine.previous.holds \notin Old
         \/ b.previous.holds \in Old
  PROVE  HasOld'
<1>1. CASE published'.holds \in Old \/ b.previous.holds \in Old
  BY <1>1, BackupSet DEF HasOld, TypeOK, Old
<1>2. CASE published.holds \notin Old /\ Mine.previous.holds \notin Old
  <2>1. PICK o \in Owners : backup[o].previous.holds \in Old
    BY <1>2 DEF HasOld, Old
  <2>2. o # op.owner
    BY <1>2, <2>1 DEF Mine
  <2> QED
    BY <2>1, <2>2, BackupSet DEF HasOld, Old
<1> QED
  BY <1>1, <1>2

(* A step of a commit or a migration that leaves no old files has made the   *)
(* new bundle visible.                                                       *)
LEMMA OldKept ==
  ASSUME PubInv, [Next]_vars, ~At("idle"), HasOld, ~HasOld'
  PROVE  published'.holds = "new"
<1> USE DEF files
<1>0. TypeOK /\ OpInv /\ FileInv /\ op.owner \in Owners /\ Mine \in BackupDirs
  BY DEF PubInv, TypeOK, Mine
<1>1. ~UNCHANGED <<published, backup>>
  BY DEF HasOld
<1>2. ASSUME NEW b, b \in BackupDirs, backup' = [backup EXCEPT ![op.owner] = b],
             UNCHANGED published, b.previous.holds = Mine.previous.holds
      PROVE  FALSE
  BY <1>0, <1>2, OldMoves
<1>3. CASE CreateScope
  <2> DEFINE b == [Mine EXCEPT !.dir = "empty"]
  <2>1. b \in BackupDirs /\ b.previous.holds = Mine.previous.holds
    BY <1>0 DEF BackupDirs
  <2>2. backup' = [backup EXCEPT ![op.owner] = b] /\ UNCHANGED published
    BY <1>0, <1>1, <1>3 DEF CreateScope, Mine, TypeOK
  <2> HIDE DEF b
  <2> QED
    BY <1>2, <2>1, <2>2
<1>4. CASE WriteOwnership
  <2> DEFINE b == [Mine EXCEPT !.dir = "owned"]
  <2>1. b \in BackupDirs /\ b.previous.holds = Mine.previous.holds
    BY <1>0 DEF BackupDirs
  <2>2. UNCHANGED published /\ NoBackup.previous.holds = Mine.previous.holds
    BY <1>0, <1>4 DEF WriteOwnership, FileInv, At, NoBackup
  <2>3. \/ backup' = [backup EXCEPT ![op.owner] = b]
        \/ backup' = [backup EXCEPT ![op.owner] = NoBackup]
    BY <1>0, <1>1, <1>4 DEF WriteOwnership, Mine, TypeOK
  <2> HIDE DEF b
  <2> QED
    BY <1>2, <2>1, <2>2, <2>3, DirTypes
<1>5. CASE MoveAside
  <2> DEFINE b == [Mine EXCEPT !.previous = published]
  <2>1. b \in BackupDirs /\ b.previous = published
    BY <1>0 DEF BackupDirs, TypeOK
  <2>2. backup' = [backup EXCEPT ![op.owner] = b]
    BY <1>0, <1>1, <1>5 DEF MoveAside, Mine, TypeOK
  <2>3. Mine.previous.holds = "nothing"
    BY <1>0, <1>5, DirTypes DEF MoveAside, FileInv, At
  <2> HIDE DEF b
  <2> QED
    BY <1>0, <2>1, <2>2, <2>3, OldMoves DEF Old
<1>6. CASE WriteToken
  <2> DEFINE d == [Mine.previous EXCEPT !.token = op.owner]
             b == [Mine EXCEPT !.previous = d]
  <2>1. d \in Dirs /\ d.holds = Mine.previous.holds
    BY <1>0 DEF Dirs, BackupDirs
  <2>2. b \in BackupDirs /\ b.previous = d
    BY <1>0, <2>1 DEF BackupDirs
  <2>3. backup' = [backup EXCEPT ![op.owner] = b] /\ UNCHANGED published
    BY <1>0, <1>1, <1>6 DEF WriteToken, Mine, TypeOK
  <2> HIDE DEF b, d
  <2> QED
    BY <1>2, <2>1, <2>2, <2>3
<1>7. CASE Place
  BY <1>1, <1>7, DirTypes DEF Place
<1>8. CASE backup' = Taken /\ published' = Mine.previous /\ published.holds \notin Old
  <2> DEFINE b == [Mine EXCEPT !.previous = Absent]
  <2>1. b \in BackupDirs
    BY <1>0, DirTypes DEF BackupDirs
  <2>2. backup' = [backup EXCEPT ![op.owner] = b]
    BY <1>0, <1>8 DEF Taken, Mine, TypeOK
  <2> HIDE DEF b
  <2> QED
    BY <1>0, <1>8, <2>1, <2>2, OldMoves
<1>9. CASE Restore
  <2>1. published.holds \notin Old
    BY <1>0, <1>9, DirTypes DEF Restore, FileInv, At, Old
  <2> QED
    BY <1>1, <1>8, <1>9, <2>1 DEF Restore
<1>10. CASE Undo
  <2>1. published.holds \notin Old
    BY <1>0, <1>10, DirTypes DEF Undo, FileInv, At, Old
  <2>2. ~UNCHANGED backup
    BY <2>1 DEF HasOld, Old
  <2> QED
    BY <1>8, <1>10, <2>1, <2>2 DEF Undo
<1>11. CASE Cleanup \/ Discard
  <2>1. UNCHANGED published /\ published.holds \in {"earlier", "new"}
    BY <1>0, <1>11 DEF Cleanup, Discard, FileInv, Canonical, At
  <2> QED
    BY <2>1 DEF HasOld
<1>12. ASSUME NEW j \in Jobs,
              Enqueue(j) \/ (\E p \in Jobs : Retry(p, j)) \/ Download(j) \/ Commit(j)
       PROVE  FALSE
  <2>1. \E p \in Jobs : Retry(p, j)
    BY <1>1, <1>12 DEF Enqueue, Download, Commit
  <2> QED
    BY <1>0, <2>1 DEF Retry, OpInv, Owners
<1>13. ~Settle
  BY <1>0 DEF Settle, OpInv, Owners
<1> QED
  BY <1>1, <1>3, <1>4, <1>5, <1>6, <1>7, <1>9, <1>10, <1>11, <1>12, <1>13
  DEF Next, Step, vars, Inspect, InspectLegacy, Export, Validate, Finish, Migrated, Migrate, Crash

(* No step of a commit or a migration destroys the last copy of what was     *)
(* visible before the new bundle is visible, whatever failed and wherever    *)
(* the process died before (publish_attempt, rollback,                       *)
(* cleanup_previous_canonical_backup, cleanup_source_staging).               *)
THEOREM OldSurvivesCommit == Spec => CommitKeepsOld
<1>1. PubInv /\ [Next]_vars
        => [~At("idle") /\ HasOld /\ ~HasOld' => published'.holds = "new"]_vars
  BY OldKept
<1> QED
  BY <1>1, PublicationInvariant, PTL DEF Spec, CommitKeepsOld
=============================================================================
