----------------------------- MODULE Publication -----------------------------
(* The last stage of a download on the file system: the derived bundle is    *)
(* built in an attempt directory, the visible directory of the session is    *)
(* moved into a backup inside the staging directory, the attempt takes its   *)
(* place, then backup and staging go (DerivedMediaCommitter). The migration  *)
(* of a legacy directory at the start of the process takes the same steps    *)
(* under an owner of its own. One session and one revision of it: the target *)
(* lease lets one commit run at a time. Any step may fail, the process may   *)
(* die between any two steps. Cancellation is Coordinator's.                 *)
EXTENDS Integers

CONSTANTS
    Jobs,           \* download jobs of the revision: an attempt and its retries
    Migration,      \* the owner of the migration's backup
    Nobody,         \* no owner
    Budgets         \* bounds: failed steps, crashes

Owners == Jobs \cup {Migration}

ASSUME PublicationAssumption ==
    /\ Migration \notin Jobs /\ Nobody \notin Owners
    /\ Budgets \subseteq [faults : Nat, crashes : Nat]

VARIABLES
    published,  \* the visible directory of the session
    backup,     \* owner -> its backup directory
    attempt,    \* owners with an attempt directory
    staged,     \* the downloaded source files are in the staging directory
    state,      \* job -> its durable state
    op,         \* the commit or the migration that is running
    boot,       \* the start of the process: migration, settlement, up
    budget      \* what is left of the bounds

files == <<published, backup, attempt, staged>>
vars == <<published, backup, attempt, staged, state, op, boot, budget>>

(* A session directory: the legacy layout with its source files, a bundle of *)
(* an earlier recipe, the new one, or pieces; and the owner token that a     *)
(* move into a backup leaves in it.                                          *)
Dirs == [holds : {"nothing", "legacy", "earlier", "new", "pieces"}, token : Owners \cup {Nobody}]
Dir(what) == [holds |-> what, token |-> Nobody]
Absent == Dir("nothing")

(* A backup directory, with or without its ownership file. *)
BackupDirs == [dir : {"none", "empty", "owned"}, previous : Dirs]
NoBackup == [dir |-> "none", previous |-> Absent]
NoBackups == [o \in Owners |-> NoBackup]
Idle == [owner |-> Migration, pc |-> "idle", moved |-> FALSE]

TypeOK ==
    /\ published \in Dirs
    /\ backup \in [Owners -> BackupDirs]
    /\ attempt \subseteq Owners
    /\ staged \in BOOLEAN
    /\ state \in [Jobs -> {"absent", "open", "committing", "succeeded", "failed", "interrupted"}]
    /\ op \in [owner : Owners, moved : BOOLEAN,
               pc : {"idle", "inspect", "export", "scope", "own", "aside", "token", "place",
                     "restore", "validate", "undo", "cleanup", "discard", "done", "failed"}]
    /\ boot \in {"migrate", "settle", "up"}
    /\ budget \in [faults : Nat, crashes : Nat]

Init ==
    /\ published \in {Absent, Dir("legacy"), Dir("earlier")}
    /\ backup = NoBackups /\ attempt = {} /\ staged = FALSE
    /\ state = [j \in Jobs |-> "absent"]
    /\ op = Idle /\ boot = "migrate" /\ budget \in Budgets

At(pc) == op.pc = pc
Goto(pc) == op' = [op EXCEPT !.pc = pc]
Spend(what) == budget[what] > 0 /\ budget' = [budget EXCEPT ![what] = @ - 1]
Fault == Spend("faults")
Mine == backup[op.owner]

(* canonical_publication_bundle_in_session_dir: the two files, nothing else. *)
Canonical == published.holds \in {"earlier", "new"} /\ published.token = Nobody

(* inspect_previous_canonical_backup. *)
Inspected(o) ==
    LET b == backup[o] IN
    IF b.dir = "none" THEN "absent"
    ELSE IF b.dir = "empty" THEN "foreign"
    ELSE IF b.previous = Absent THEN "ownership_only"
    ELSE IF b.previous.token = o THEN "with_previous" ELSE "foreign"

-----------------------------------------------------------------------------
(* The coordinator: a job downloads its files and commits. It commits again  *)
(* when the report of the commit is lost.                                    *)
Enqueue(j) ==
    /\ boot = "up" /\ \A i \in Jobs : state[i] = "absent"
    /\ state' = [state EXCEPT ![j] = "open"]
    /\ UNCHANGED <<files, op, boot, budget>>

(* The retry of an interrupted download starts from zero. *)
Retry(parent, j) ==
    /\ boot = "up" /\ state[parent] \in {"failed", "interrupted"} /\ state[j] = "absent"
    /\ \A i \in Jobs : state[i] \notin {"open", "committing", "succeeded"}
    /\ state' = [state EXCEPT ![j] = "open"]
    /\ IF state[parent] = "interrupted"
       THEN staged' = FALSE /\ backup' = NoBackups
       ELSE UNCHANGED <<staged, backup>>
    /\ UNCHANGED <<published, attempt, op, boot, budget>>

Download(j) ==
    /\ boot = "up" /\ state[j] = "open"
    /\ staged' = TRUE /\ state' = [state EXCEPT ![j] = "committing"]
    /\ UNCHANGED <<published, backup, attempt, op, boot, budget>>

Commit(j) ==
    /\ boot = "up" /\ At("idle") /\ state[j] = "committing"
    /\ op' = [owner |-> j, pc |-> "inspect", moved |-> FALSE]
    /\ UNCHANGED <<files, state, boot, budget>>

(* Mutants: a bundle of any recipe will do; any leftover stops the commit. *)
InspectAnyRecipe ==
    /\ At("inspect") /\ op.owner \in Jobs
    /\ Goto(IF Canonical THEN "cleanup"
            ELSE IF Inspected(op.owner) = "absent" THEN "export" ELSE "failed")
    /\ UNCHANGED <<files, state, boot, budget>>
InspectAnyBackup ==
    /\ At("inspect") /\ op.owner \in Jobs
    /\ Goto(IF Canonical /\ published.holds = "new" THEN "cleanup"
            ELSE IF backup = NoBackups THEN "export" ELSE "failed")
    /\ UNCHANGED <<files, state, boot, budget>>

(* commit_cancellable: the bundle of this recipe is there already and only   *)
(* its cleanup is owed; an own backup beside anything else stops the commit. *)
Inspect ==
    /\ At("inspect") /\ op.owner \in Jobs
    /\ Goto(IF Canonical /\ published.holds = "new" THEN "cleanup"
            ELSE IF Inspected(op.owner) = "absent" THEN "export" ELSE "failed")
    /\ UNCHANGED <<files, state, boot, budget>>

(* migrate_existing: a canonical directory has its own leftovers removed, a  *)
(* directory that holds all source files is processed.                       *)
InspectLegacy ==
    /\ At("inspect") /\ op.owner = Migration
    /\ Goto(IF Canonical THEN IF Mine = NoBackup THEN "done" ELSE "cleanup"
            ELSE IF published.holds = "legacy" THEN "export" ELSE "failed")
    /\ UNCHANGED <<files, state, boot, budget>>

(* The attempt directory is cleared, filled, its receipt written and the     *)
(* whole validated, before anything else is touched.                         *)
Export ==
    /\ At("export")
    /\ attempt' = attempt \cup {op.owner}
    /\ \/ Goto(IF published = Absent THEN "place" ELSE "scope") /\ UNCHANGED budget
       \/ Fault /\ Goto("failed")
    /\ UNCHANGED <<published, backup, staged, state, boot>>

-----------------------------------------------------------------------------
(* publish_attempt.                                                          *)

(* create_backup_ownership_scope, never over one that is there: the          *)
(* directory, then its ownership file.                                       *)
CreateScope ==
    /\ At("scope")
    /\ \/ /\ Mine = NoBackup
          /\ backup' = [backup EXCEPT ![op.owner].dir = "empty"]
          /\ Goto("own") /\ UNCHANGED budget
       \/ Mine # NoBackup /\ Goto("failed") /\ UNCHANGED <<backup, budget>>
       \/ Fault /\ Goto("failed") /\ UNCHANGED backup
    /\ UNCHANGED <<published, attempt, staged, state, boot>>

WriteOwnership ==
    /\ At("own")
    /\ \/ /\ backup' = [backup EXCEPT ![op.owner].dir = "owned"]
          /\ Goto("aside") /\ UNCHANGED budget
       \/ Fault /\ Goto("failed") /\ backup' \in {backup, [backup EXCEPT ![op.owner] = NoBackup]}
    /\ UNCHANGED <<published, attempt, staged, state, boot>>

(* Mutant: the old directory makes way for good. *)
MoveAsideRemoves ==
    /\ At("aside")
    /\ published' = Absent
    /\ op' = [op EXCEPT !.pc = "place"]
    /\ UNCHANGED <<backup, attempt, staged, state, boot, budget>>

MoveAside ==
    /\ At("aside")
    /\ \/ /\ published' = Absent
          /\ backup' = [backup EXCEPT ![op.owner].previous = published]
          /\ op' = [op EXCEPT !.pc = "token", !.moved = TRUE] /\ UNCHANGED budget
       \/ Fault /\ Goto("failed") /\ UNCHANGED <<published, backup>>
    /\ UNCHANGED <<attempt, staged, state, boot>>

(* write_previous_directory_ownership_token: create_new, so not over the     *)
(* token that an earlier restore left.                                       *)
WriteToken ==
    /\ At("token")
    /\ \/ /\ Mine.previous.token = Nobody
          /\ backup' = [backup EXCEPT ![op.owner].previous.token = op.owner]
          /\ Goto("place") /\ UNCHANGED budget
       \/ Mine.previous.token # Nobody /\ Goto("failed") /\ UNCHANGED <<backup, budget>>
       \/ Fault /\ Goto("failed") /\ UNCHANGED backup
    /\ UNCHANGED <<published, attempt, staged, state, boot>>

Place ==
    /\ At("place")
    /\ \/ /\ published' = Dir("new") /\ attempt' = attempt \ {op.owner}
          /\ Goto("validate") /\ UNCHANGED budget
       \/ /\ Fault /\ Goto(IF op.moved THEN "restore" ELSE "failed")
          /\ UNCHANGED <<published, attempt>>
    /\ UNCHANGED <<backup, staged, state, boot>>

Taken == [backup EXCEPT ![op.owner].previous = Absent]

(* The previous directory goes back, with the token that is in it now. *)
Restore ==
    /\ At("restore") /\ Goto("failed")
    /\ \/ published' = Mine.previous /\ backup' = Taken /\ UNCHANGED budget
       \/ Fault /\ UNCHANGED <<published, backup>>
    /\ UNCHANGED <<attempt, staged, state, boot>>

Validate ==
    /\ At("validate")
    /\ \/ Goto(IF op.moved THEN "cleanup" ELSE "discard") /\ UNCHANGED budget
       \/ Fault /\ Goto("undo")
    /\ UNCHANGED <<files, state, boot>>

(* The new directory is removed and the previous one restored, also when the *)
(* removal fails after it has emptied the directory; each of the two may     *)
(* fail, and nothing is restored over what could not be emptied.             *)
Undo ==
    /\ At("undo") /\ Goto("failed")
    /\ \/ published' = Mine.previous /\ backup' = Taken /\ (UNCHANGED budget \/ Fault)
       \/ Fault /\ published' \in {Dir("pieces"), Absent} /\ UNCHANGED backup
    /\ UNCHANGED <<attempt, staged, state, boot>>

-----------------------------------------------------------------------------
(* What follows a publication.                                               *)

(* cleanup_previous_canonical_backup: only a previous directory that carries *)
(* the own token. *)
Cleanup ==
    /\ At("cleanup")
    /\ LET seen == Inspected(op.owner) IN
       \/ /\ seen = "with_previous" /\ backup' = Taken
          /\ Goto("discard") /\ UNCHANGED budget
       \/ /\ seen = "with_previous" /\ Fault /\ Goto("failed")
          /\ \E left \in {Mine.previous, Dir("pieces")} :
                backup' = [backup EXCEPT ![op.owner].previous = left]
       \/ /\ seen # "with_previous" /\ UNCHANGED <<backup, budget>>
          /\ Goto(IF seen = "foreign" THEN "failed" ELSE "discard")
    /\ UNCHANGED <<published, attempt, staged, state, boot>>

(* cleanup_source_staging: the staging directory with everything in it. *)
Discard ==
    /\ At("discard")
    /\ \/ staged' = FALSE /\ backup' = NoBackups /\ Goto("done") /\ UNCHANGED budget
       \/ /\ Fault /\ Goto("failed")
          /\ staged' \in {staged, FALSE} /\ backup' \in {backup, NoBackups}
    /\ UNCHANGED <<published, attempt, state, boot>>

(* cleanup_failed_attempt: the attempt of a failed operation is removed, if  *)
(* there is one and if that works.                                           *)
LeaveAttempt == attempt' = attempt \/ (At("failed") /\ attempt' = attempt \ {op.owner})

(* The outcome of a commit is the job's, unless its report is lost.          *)
Finish ==
    /\ At("done") \/ At("failed")
    /\ op.owner \in Jobs
    /\ LeaveAttempt
    /\ \/ /\ state' = [state EXCEPT ![op.owner] = IF At("done") THEN "succeeded" ELSE "failed"]
          /\ UNCHANGED budget
       \/ Fault /\ UNCHANGED state
    /\ op' = Idle
    /\ UNCHANGED <<published, backup, staged, boot>>

-----------------------------------------------------------------------------
(* A start: the migration of every row (reconcile_existing_derived_media),   *)
(* then the interrupted downloads (fail_interrupted_jobs_on_startup).        *)
Migrate ==
    /\ boot = "migrate" /\ At("idle")
    /\ op' = [owner |-> Migration, pc |-> "inspect", moved |-> FALSE]
    /\ UNCHANGED <<files, state, boot, budget>>

Migrated ==
    /\ At("done") \/ At("failed")
    /\ op.owner = Migration
    /\ LeaveAttempt /\ op' = Idle /\ boot' = "settle"
    /\ UNCHANGED <<published, backup, staged, state, budget>>

Settle ==
    /\ boot = "settle" /\ boot' = "up"
    /\ LET open == {j \in Jobs : state[j] \in {"open", "committing"}} IN
       /\ state' = [j \in Jobs |-> IF j \in open THEN "interrupted" ELSE state[j]]
       /\ IF open = {} THEN UNCHANGED <<staged, backup>>
          ELSE staged' = FALSE /\ backup' = NoBackups
    /\ UNCHANGED <<published, attempt, op, budget>>

Crash ==
    /\ Spend("crashes") /\ op' = Idle /\ boot' = "migrate"
    /\ UNCHANGED <<files, state>>

-----------------------------------------------------------------------------
Step ==
    \/ Inspect \/ InspectLegacy \/ Export \/ CreateScope \/ WriteOwnership \/ MoveAside
    \/ WriteToken \/ Place \/ Restore \/ Validate \/ Undo \/ Cleanup \/ Discard
    \/ Finish \/ Migrated

Next ==
    \/ \E j \in Jobs : Enqueue(j) \/ (\E p \in Jobs : Retry(p, j)) \/ Download(j) \/ Commit(j)
    \/ Step \/ Migrate \/ Settle \/ Crash

Spec == Init /\ [][Next]_vars

(* A commit that has begun goes on; a job in committing is offered again by  *)
(* the dispatcher.                                                           *)
FairSpec == Spec /\ WF_vars(Step) /\ \A j \in Jobs : WF_vars(Commit(j))

-----------------------------------------------------------------------------
HasOld ==
    \/ published.holds \in {"legacy", "earlier"}
    \/ \E o \in Owners : backup[o].previous.holds \in {"legacy", "earlier"}

(* Whatever fails and wherever the process died before: no step of a commit  *)
(* or a migration destroys the last copy of what was visible before the new  *)
(* bundle is (publish_attempt, cleanup_previous_canonical_backup).           *)
CommitKeepsOld ==
    [][~At("idle") /\ HasOld /\ ~HasOld' => published'.holds = "new"]_vars

(* derived_media.rs:119: no success before the bundle of the current recipe  *)
(* is visible, alone in its directory, and neither backups nor source files  *)
(* are left behind.                                                          *)
SuccessIsClean ==
    \A j \in Jobs : state[j] = "succeeded" =>
        published = Dir("new") /\ backup = NoBackups /\ ~staged

(* A fresh attempt is not stopped by what the failures and crashes of others *)
(* left, backups, pieces or no directory at all, except for a directory that *)
(* was restored with a token in it (previous_canonical_backup_dir is bound   *)
(* to the job).                                                              *)
FreshAttemptSucceeds ==
    \A j \in Jobs :
        (/\ op.owner = j /\ At("inspect") /\ Mine = NoBackup /\ published.token = Nobody
         /\ budget = [faults |-> 0, crashes |-> 0])
        ~> (state[j] = "succeeded")

(* state.rs:417: "failures preserve the full source directory". *)
FailedMigrationKeepsLegacy ==
    op.owner = Migration /\ At("failed") /\ op.moved => published # Absent
=============================================================================
