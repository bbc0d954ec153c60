----------------------------- MODULE UploadJobs -----------------------------
(* The uploads of one library entry to the object store. Durable: the upload *)
(* rows with their lineage and outbox (upload_store.rs), the library row and *)
(* the operation lease (app store). Volatile: the operation token that gates *)
(* a second start and carries the cancel flag, and the threads: the command  *)
(* that starts an upload, the worker of each attempt, the command that       *)
(* cancels, and everyone who delivers outcomes to the library. What a worker *)
(* does at the object store is the subject of Multipart; here it ends with   *)
(* some outcome.                                                             *)
EXTENDS Integers, FiniteSets, FiniteSetsExt

CONSTANTS
    Revisions,      \* publication revisions the entry can have
    Configs,        \* object store settings an upload can be started under
    MaxJobs,        \* bound: upload rows ever created
    Budgets         \* bounds: the settings in use, commands, other writes of the
                    \* application store, failures to persist a start, crashes

ASSUME UploadAssumption ==
    /\ Revisions # {} /\ Configs # {}
    /\ MaxJobs \in Nat
    /\ Budgets \subseteq [configs : SUBSET Configs, commands : Nat, writes : Nat, faults : Nat,
                          crashes : Nat]

VARIABLES
    job,        \* upload -> its durable row
    order,      \* upload -> number of its outbox row, 0 for none
    acked,      \* uploads whose outcome has been acknowledged
    entry,      \* the library row: revision, upload status, projected upload
    lease,      \* what holds the entry's operation lease
    token,      \* upload -> its operation token
    flagged,    \* uploads whose cancel flag is raised
    th,         \* thread -> where it is and what it has read
    boot,       \* what the start has still to do
    told,       \* history: uploads whose cancellation was reported as done
    budget      \* what is left of the bounds

durable == <<job, order, acked, entry, lease>>
vars == <<job, order, acked, entry, lease, token, flagged, th, boot, told, budget>>

Jobs == 1 .. MaxJobs
Open == {"queued", "preparing"}
Ended == {"succeeded", "cancelled", "retryable", "fatal"}

Starter == <<"starter", 0>>
Canceller == <<"canceller", 0>>
Poller == <<"poller", 0>>
Worker(j) == <<"worker", j>>
Threads == {Starter, Canceller, Poller} \cup {Worker(j) : j \in Jobs}

FreeLease == <<"free", 0>>
StartLease == <<"start", 0>>
ReapedLease(j) == <<"reaper", j>>

Rows == [state : {"absent"} \cup Open \cup Ended, rev : Revisions, config : Configs,
         parent : 0 .. MaxJobs, dismissed : BOOLEAN]
Entries == [rev : Revisions, status : {"none", "uploading", "failed", "done"},
            by : 0 .. MaxJobs]
AnyRev == CHOOSE r \in Revisions : TRUE
AnyConfig == CHOOSE c \in Configs : TRUE
Absent == [state |-> "absent", rev |-> AnyRev, config |-> AnyConfig, parent |-> 0,
           dismissed |-> FALSE]
Unread == [rev |-> AnyRev, status |-> "none", by |-> 0]
Idle == [pc |-> "idle", job |-> 0, seen |-> "absent", mine |-> FALSE, rev |-> AnyRev,
         config |-> AnyConfig, entry |-> Unread, moved |-> FALSE, todo |-> {}]
Steps == {"idle", "create", "child", "retry", "begin", "claim", "spawn", "flag", "cancel",
          "work", "finish", "release", "pass", "deliver", "project", "ack"}

Created == {j \in Jobs : job[j].state # "absent"}
OpenJobs == {j \in Jobs : job[j].state \in Open}
EndedJobs == {j \in Jobs : job[j].state \in Ended}
Children(p) == {j \in Created : job[j].parent = p}
Active(j) == token[j] \in {"running", "cancelling"}
Up == boot.pc = "up"
Booted == [pc |-> "up", interrupted |-> {}, protected |-> FALSE]

TypeOK ==
    /\ job \in [Jobs -> Rows] /\ order \in [Jobs -> 0 .. MaxJobs] /\ acked \subseteq EndedJobs
    /\ entry \in Entries
    /\ lease \in {FreeLease, StartLease} \cup {ReapedLease(j) : j \in Jobs}
    /\ token \in [Jobs -> {"none", "running", "cancelling", "committed"}]
    /\ flagged \subseteq Created /\ told \subseteq Created
    /\ th \in [Threads -> [pc : Steps, job : 0 .. MaxJobs, seen : {"absent"} \cup Open,
                           mine : BOOLEAN, rev : Revisions, config : Configs,
                           entry : Entries, moved : BOOLEAN, todo : SUBSET Jobs]]
    /\ boot.pc \in {"up", "cancel", "library"} /\ boot.interrupted \subseteq Jobs
    /\ \A b \in DOMAIN budget \ {"configs"} : budget[b] \in Nat

Init ==
    /\ job = [j \in Jobs |-> Absent] /\ order = [j \in Jobs |-> 0] /\ acked = {}
    /\ entry = Unread
    /\ lease = FreeLease /\ token = [j \in Jobs |-> "none"] /\ flagged = {}
    /\ th = [t \in Threads |-> Idle] /\ boot = Booted /\ told = {}
    /\ budget \in Budgets

At(t, pc) == Up /\ th[t].pc = pc
Spend(b) == budget[b] > 0 /\ budget' = [budget EXCEPT ![b] = @ - 1]

(* Every write of the application store moves its revision: a thread that    *)
(* has read the row and not yet written it back will find out.               *)
Notified == [t \in Threads |->
                IF th[t].pc = "project" THEN [th[t] EXCEPT !.moved = TRUE] ELSE th[t]]

-----------------------------------------------------------------------------
(* Store transactions.                                                       *)

NextId == Cardinality(Created) + 1

(* The uploads recorded for a revision of the entry. *)
OfRevision(rev) == {j \in Created : job[j].rev = rev}

Insert(rev, config, parent) ==
    /\ NextId \in Jobs
    /\ job' = [job EXCEPT ![NextId] = [state |-> "queued", rev |-> rev, config |-> config,
                                       parent |-> parent, dismissed |-> FALSE]]

(* Mutant: the last writer of a terminal outcome wins. *)
CompleteLastWins(j, seen, outcome) ==
    /\ job' = [job EXCEPT ![j].state = outcome]
    /\ order' = [order EXCEPT ![j] = Max({order[i] : i \in Jobs}) + 1]

(* complete_upload_job: state and outbox row in one transaction, for the     *)
(* version the caller has seen; versions 1 and 2 are queued and preparing.   *)
CompleteUploadJob(j, seen, outcome) ==
    IF job[j].state = seen
    THEN /\ job' = [job EXCEPT ![j].state = outcome]
         /\ order' = [order EXCEPT ![j] = Max({order[i] : i \in Jobs}) + 1]
    ELSE UNCHANGED <<job, order>>

(* spawn_retry_job_inner for uploads: an acknowledged, visible cancellation  *)
(* or retryable failure that no direct retry has made good.                  *)
RetryAllowed(p) ==
    /\ ~job[p].dismissed /\ job[p].state \in {"cancelled", "retryable"} /\ p \in acked
    /\ \A c \in Children(p) : job[c].state # "succeeded"

(* repeat_upload_job_inner: a delivered success, or a failure that was       *)
(* dismissed or had another input.                                           *)
RepeatAllowed(p, config, supersede) ==
    /\ p \in acked
    /\ \/ job[p].state = "succeeded"
       \/ supersede /\ (job[p].config # config \/ job[p].dismissed)

-----------------------------------------------------------------------------
(* Starting an upload: application/workflows.rs and start_upload. Reading    *)
(* the row and taking the lease are one step: a change of the row in between *)
(* is a change just after.                                                   *)
Free(next) == lease' = FreeLease /\ th' = [next EXCEPT ![Starter] = Idle]

StartUpload(config) ==
    /\ At(Starter, "idle") /\ Spend("commands")
    /\ lease = FreeLease /\ lease' = StartLease
    /\ th' = [th EXCEPT ![Starter] = [Idle EXCEPT !.pc = "create", !.rev = entry.rev,
                                                  !.config = config]]
    /\ UNCHANGED <<job, order, acked, entry, token, flagged, boot, told>>

(* retry_transfer on one upload. *)
RetryUpload(p, config) ==
    /\ At(Starter, "idle") /\ p \in EndedJobs /\ Spend("commands")
    /\ lease = FreeLease /\ lease' = StartLease
    /\ th' = [th EXCEPT ![Starter] = [Idle EXCEPT !.pc = "retry", !.job = p,
                                                  !.config = config]]
    /\ UNCHANGED <<job, order, acked, entry, token, flagged, boot, told>>

(* create_upload_job_with_activity: the oldest upload of the revision stands *)
(* for it; an open upload of another revision refuses a new one. `mine` is   *)
(* whether this command created the row.                                     *)
CreateUploadJob ==
    /\ At(Starter, "create")
    /\ LET me == th[Starter]
           same == OfRevision(me.rev)
           first == Min(same)
       IN IF same = {} /\ OpenJobs = {}
          THEN /\ Insert(me.rev, me.config, 0)
               /\ th' = [th EXCEPT ![Starter].pc = "begin", ![Starter].job = NextId,
                                   ![Starter].mine = TRUE]
               /\ UNCHANGED lease
          ELSE IF same = {} \/ (job[first].state \in Open /\ job[first].config # me.config)
          THEN Free(th) /\ UNCHANGED job
          ELSE /\ th' = [th EXCEPT ![Starter].job = first,
                                   ![Starter].seen = IF job[first].state = "queued"
                                                     THEN "queued" ELSE "absent",
                                   ![Starter].pc = CASE job[first].state = "queued" -> "begin"
                                                     [] job[first].state = "preparing" -> "claim"
                                                     [] OTHER -> "child"]
               /\ UNCHANGED <<job, lease>>
    /\ UNCHANGED <<order, acked, entry, token, flagged, boot, told, budget>>

(* terminal_upload_child_mode: an ordinary start may supersede, an explicit  *)
(* retry may not.                                                            *)
Supersedes(me) ==
    /\ me.pc = "child"
    /\ job[me.job].state # "succeeded"
    /\ job[me.job].dismissed \/ job[me.job].config # me.config

(* start_upload_child: retry, repeat or supersede an ended upload. Only a    *)
(* retry insists on the row and the settings of its parent.                  *)
SpawnChild ==
    /\ At(Starter, "child") \/ At(Starter, "retry")
    /\ LET me == th[Starter]
           p == me.job
           repeat == job[p].state = "succeeded" \/ Supersedes(me)
           allowed == IF repeat
                      THEN RepeatAllowed(p, me.config, Supersedes(me))
                      ELSE entry.rev = job[p].rev /\ me.config = job[p].config /\ RetryAllowed(p)
           open == Children(p) \cap OpenJobs
           Goto(j, mine) ==
               th' = [th EXCEPT ![Starter] = [Idle EXCEPT
                        !.pc = IF mine \/ job[j].state = "queued" THEN "begin" ELSE "claim",
                        !.job = j, !.mine = mine, !.rev = entry.rev, !.config = me.config]]
       IN IF ~allowed
          THEN Free(th) /\ UNCHANGED job
          ELSE IF open = {}
          THEN Insert(job[p].rev, me.config, p) /\ Goto(NextId, TRUE) /\ UNCHANGED lease
          ELSE \E j \in open : Goto(j, FALSE) /\ UNCHANGED <<job, lease>>
    /\ UNCHANGED <<order, acked, entry, token, flagged, boot, told, budget>>

(* start_upload_job: queued to preparing. A row that was found queued and has *)
(* moved on is read again; a cancellation of a new row ends the start.       *)
BeginJob ==
    /\ At(Starter, "begin")
    /\ LET me == th[Starter]
           j == me.job
       IN IF job[j].state = "queued"
          THEN /\ job' = [job EXCEPT ![j].state = "preparing"]
               /\ th' = [th EXCEPT ![Starter].pc = "claim"] /\ UNCHANGED lease
          ELSE IF me.mine \/ me.seen # "queued"
          THEN Free(th) /\ UNCHANGED job
          ELSE /\ th' = [th EXCEPT ![Starter].pc =
                            IF job[j].state \in Ended THEN "child" ELSE "claim"]
               /\ UNCHANGED <<job, lease>>
    /\ UNCHANGED <<order, acked, entry, token, flagged, boot, told, budget>>

(* Mutant: the gate looks at the upload's own token only. *)
ClaimTokenUngated ==
    /\ At(Starter, "claim")
    /\ token' = [token EXCEPT ![th[Starter].job] = "running"]
    /\ th' = [th EXCEPT ![Starter].pc = "spawn"]
    /\ UNCHANGED <<job, order, acked, entry, lease, flagged, boot, told, budget>>

(* begin_upload_operation: the gate. Whoever meets an active token cancels   *)
(* the row it created; for the same revision it is handed that upload.       *)
ClaimToken ==
    /\ At(Starter, "claim")
    /\ LET j == th[Starter].job
           active == {i \in Jobs : Active(i)}
       IN IF active = {}
          THEN /\ token' = [token EXCEPT ![j] = "running"]
               /\ th' = [th EXCEPT ![Starter].pc = "spawn"]
               /\ UNCHANGED <<job, order, lease>>
          ELSE /\ IF th[Starter].mine
                  THEN CompleteUploadJob(j, "preparing", "cancelled")
                  ELSE UNCHANGED <<job, order>>
               /\ \E i \in active :
                    lease' = IF job[i].rev = job[j].rev THEN ReapedLease(i) ELSE FreeLease
               /\ th' = [th EXCEPT ![Starter] = Idle]
               /\ UNCHANGED token
    /\ UNCHANGED <<acked, entry, flagged, boot, told, budget>>

(* Mutant: a start that cannot be persisted leaves its row open. *)
SpawnFailsWithoutRollback ==
    /\ At(Starter, "spawn") /\ Spend("faults")
    /\ token' = [token EXCEPT ![th[Starter].job] = "none"]
    /\ Free(th)
    /\ UNCHANGED <<job, order, acked, entry, flagged, boot, told>>

(* spawn_upload_worker gives up: the row has another publication by now, or  *)
(* the status could not be persisted. The new upload is cancelled.           *)
SpawnFails ==
    /\ At(Starter, "spawn")
    /\ \/ /\ entry.rev # th[Starter].rev
          /\ CompleteUploadJob(th[Starter].job, "preparing", "cancelled")
          /\ UNCHANGED budget
       \/ /\ entry.rev = th[Starter].rev /\ Spend("faults")
          /\ IF th[Starter].mine
             THEN CompleteUploadJob(th[Starter].job, "preparing", "cancelled")
             ELSE UNCHANGED <<job, order>>
    /\ token' = [token EXCEPT ![th[Starter].job] = "none"]
    /\ Free(th)
    /\ UNCHANGED <<acked, entry, flagged, boot, told>>

(* Otherwise the row shows the upload, whatever has become of it, and the    *)
(* worker starts; the lease stays until a reaper sees the upload ended.      *)
SpawnWorker ==
    /\ At(Starter, "spawn") /\ entry.rev = th[Starter].rev
    /\ LET j == th[Starter].job IN
       /\ entry' = [entry EXCEPT !.status = "uploading"]
       /\ lease' = ReapedLease(j)
       /\ th' = [Notified EXCEPT ![Starter] = Idle,
                                 ![Worker(j)] = [Idle EXCEPT !.pc = "work", !.job = j]]
    /\ UNCHANGED <<job, order, acked, token, flagged, boot, told, budget>>

(* spawn_upload_lease_reaper. *)
ReapLease ==
    /\ Up /\ \E j \in EndedJobs : lease = ReapedLease(j)
    /\ lease' = FreeLease
    /\ UNCHANGED <<job, order, acked, entry, token, flagged, th, boot, told, budget>>

-----------------------------------------------------------------------------
(* The worker of an attempt: perform_upload ends, finish_upload settles.     *)

(* A cancelled end needs the flag; a raised flag may have come too late.     *)
PerformUpload(j, outcome) ==
    /\ At(Worker(j), "work")
    /\ outcome = "cancelled" => j \in flagged
    /\ IF job[j].state = "preparing"
       THEN th' = [th EXCEPT ![Worker(j)].pc = "finish"]
       ELSE th' = [th EXCEPT ![Worker(j)].pc = "release"]
    /\ CompleteUploadJob(j, "preparing", outcome)
    /\ UNCHANGED <<acked, entry, lease, token, flagged, boot, told, budget>>

(* claim_terminal by whoever committed, then clear_upload_operation. *)
CommitToken(j) ==
    /\ At(Worker(j), "finish")
    /\ token' = [token EXCEPT ![j] = "committed"]
    /\ th' = [th EXCEPT ![Worker(j)].pc = "release"]
    /\ UNCHANGED <<durable, flagged, boot, told, budget>>

ClearToken(j) ==
    /\ At(Worker(j), "release")
    /\ token' = [token EXCEPT ![j] = "none"]
    /\ th' = [th EXCEPT ![Worker(j)].pc = "pass"]
    /\ UNCHANGED <<durable, flagged, boot, told, budget>>

-----------------------------------------------------------------------------
(* cancel_durable_upload: read the row, raise the flag, commit against the   *)
(* version that was read.                                                    *)
CancelUpload(j) ==
    /\ At(Canceller, "idle") /\ j \in OpenJobs /\ Spend("commands")
    /\ th' = [th EXCEPT ![Canceller] = [Idle EXCEPT !.pc = "flag", !.job = j,
                                                    !.seen = job[j].state]]
    /\ UNCHANGED <<durable, token, flagged, boot, told>>

(* request_cancel: refused by a committed token, void without one. *)
RequestCancel ==
    /\ At(Canceller, "flag")
    /\ LET j == th[Canceller].job IN
       IF token[j] = "committed"
       THEN th' = [th EXCEPT ![Canceller] = Idle] /\ UNCHANGED <<token, flagged>>
       ELSE /\ th' = [th EXCEPT ![Canceller].pc = "cancel",
                                ![Canceller].mine = Active(j)]
            /\ token' = IF Active(j) THEN [token EXCEPT ![j] = "cancelling"] ELSE token
            /\ flagged' = IF Active(j) THEN flagged \cup {j} ELSE flagged
    /\ UNCHANGED <<durable, boot, told, budget>>

(* A token that was there to be flagged is then claimed as cancelled. *)
CommitCancel ==
    /\ At(Canceller, "cancel")
    /\ LET me == th[Canceller]
           j == me.job
       IN /\ CompleteUploadJob(j, me.seen, "cancelled")
          /\ IF job[j].state = me.seen
             THEN /\ told' = told \cup {j}
                  /\ token' = [token EXCEPT ![j] =
                                 IF me.mine /\ @ # "none" THEN "committed" ELSE @]
                  /\ th' = [th EXCEPT ![Canceller] = [Idle EXCEPT !.pc = "pass"]]
             ELSE th' = [th EXCEPT ![Canceller] = Idle] /\ UNCHANGED <<told, token>>
    /\ UNCHANGED <<acked, entry, lease, flagged, boot, budget>>

(* dismiss_upload_transfer: delivered, and no token left. *)
Dismiss(j) ==
    /\ Up /\ j \in acked /\ ~job[j].dismissed /\ token[j] = "none" /\ Spend("commands")
    /\ job' = [job EXCEPT ![j].dismissed = TRUE]
    /\ UNCHANGED <<order, acked, entry, lease, token, flagged, th, boot, told>>

-----------------------------------------------------------------------------
(* deliver_terminal_outcomes, by the poll loop and after every finish and    *)
(* cancellation; the passes of several threads are not serialised.           *)
(* Mutant: a cancelled upload counts as delivered. *)
OwedUnlessCancelled == {j \in EndedJobs \ acked : job[j].state # "cancelled"}

(* The outcomes that nobody has acknowledged; a pass takes the outcomes it   *)
(* has listed in the order of the outbox.                                    *)
Owed == EndedJobs \ acked
InTurn(j, todo) == j \in todo /\ \A i \in todo : order[j] <= order[i]

(* A thread goes on with its pass, or is done with it. *)
Onward(todo) == IF todo = {} THEN Idle ELSE [Idle EXCEPT !.pc = "deliver", !.todo = todo]

(* The pass lists what is owed once, at its start. *)
PassStarts(t) ==
    /\ At(t, "pass") \/ (t = Poller /\ At(t, "idle") /\ Owed # {})
    /\ th' = [th EXCEPT ![t] = Onward(Owed)]
    /\ UNCHANGED <<durable, token, flagged, boot, told, budget>>

StatusOf(outcome) == IF outcome = "succeeded" THEN "done" ELSE "failed"
Projected(e, j) == [e EXCEPT !.status = StatusOf(job[j].state), !.by = j]

(* Mutant: an outcome is projected onto whatever revision the row has. *)
NeedsNoWriteAnyRevision(j) == entry = Projected(entry, j)

(* apply_upload_completion: a row of another revision is left alone, a row   *)
(* that already shows the outcome needs no write.                            *)
NeedsNoWrite(j) == entry.rev # job[j].rev \/ entry = Projected(entry, j)

ReadRow(t) ==
    /\ At(t, "deliver")
    /\ \E j \in Jobs :
       /\ InTurn(j, th[t].todo)
       /\ LET next == [Idle EXCEPT !.job = j, !.todo = th[t].todo \ {j}]
          IN th' = [th EXCEPT ![t] =
                       IF NeedsNoWrite(j) THEN [next EXCEPT !.pc = "ack"]
                       ELSE [next EXCEPT !.pc = "project", !.entry = entry]]
    /\ UNCHANGED <<durable, token, flagged, boot, told, budget>>

(* Its second half: written under the revision that was read; a moved store  *)
(* is an error, left to the next pass, unless the row is the candidate.      *)
ProjectRow(t) ==
    /\ At(t, "project")
    /\ LET candidate == Projected(th[t].entry, th[t].job)
           acks == [th[t] EXCEPT !.pc = "ack", !.entry = Unread, !.moved = FALSE]
       IN \/ /\ ~th[t].moved
             /\ entry' = candidate /\ th' = [Notified EXCEPT ![t] = acks]
          \/ /\ th[t].moved
             /\ th' = [th EXCEPT ![t] = IF entry = candidate THEN acks ELSE Onward(th[t].todo)]
             /\ UNCHANGED entry
    /\ UNCHANGED <<job, order, acked, lease, token, flagged, boot, told, budget>>

Acknowledge(t) ==
    /\ At(t, "ack")
    /\ acked' = acked \cup {th[t].job}
    /\ th' = [th EXCEPT ![t] = Onward(th[t].todo)]
    /\ UNCHANGED <<job, order, entry, lease, token, flagged, boot, told, budget>>

(* Other writers of the application store: one of another row, or a download *)
(* that publishes another revision of the session and voids its upload.      *)
OtherWrite ==
    /\ Up /\ Spend("writes")
    /\ \/ UNCHANGED entry
       \/ \E r \in Revisions \ {entry.rev} :
            entry' = [rev |-> r, status |-> "none", by |-> 0]
    /\ th' = Notified
    /\ UNCHANGED <<job, order, acked, lease, token, flagged, boot, told>>

-----------------------------------------------------------------------------
(* The process dies; reconcile_interrupted_uploads runs before the state is  *)
(* exposed. It lists the uploads once, cancels the open ones one by one,     *)
(* then puts the library right.                                              *)
Crash ==
    /\ Spend("crashes")
    /\ token' = [j \in Jobs |-> "none"] /\ flagged' = {}
    /\ th' = [t \in Threads |-> Idle]
    /\ boot' = [pc |-> "cancel", interrupted |-> OpenJobs,
                protected |-> Created \ acked # {}]
    /\ UNCHANGED <<durable, told>>

BootCancel ==
    /\ boot.pc = "cancel"
    /\ IF OpenJobs = {}
       THEN boot' = [boot EXCEPT !.pc = "library"] /\ UNCHANGED <<job, order>>
       ELSE LET j == Min(OpenJobs) IN
            CompleteUploadJob(j, job[j].state, "cancelled") /\ UNCHANGED boot
    /\ UNCHANGED <<acked, entry, lease, token, flagged, th, told, budget>>

(* Mutant: a row shown as uploading is left to the outbox. *)
BootLibraryTrustsOutbox ==
    /\ boot.pc = "library"
    /\ boot' = Booted /\ lease' = FreeLease
    /\ UNCHANGED <<job, order, acked, entry, token, flagged, th, told, budget>>

(* A row an upload of this revision was interrupted on has failed, and so    *)
(* has a row no upload accounts for; reconcile_upload_leases then frees the  *)
(* lease.                                                                    *)
BootLibrary ==
    /\ boot.pc = "library"
    /\ LET interrupted == \E j \in boot.interrupted : job[j].rev = entry.rev IN
       entry' = IF entry.status = "uploading" /\ (interrupted \/ ~boot.protected)
                THEN [entry EXCEPT !.status = "failed", !.by = 0] ELSE entry
    /\ boot' = Booted /\ lease' = FreeLease
    /\ UNCHANGED <<job, order, acked, token, flagged, th, told, budget>>

-----------------------------------------------------------------------------
Starting == CreateUploadJob \/ SpawnChild \/ BeginJob \/ ClaimToken \/ SpawnFails \/ SpawnWorker
Cancelling == RequestCancel \/ CommitCancel
Finishing(j) == CommitToken(j) \/ ClearToken(j)
Ending(j) == \E o \in Ended : PerformUpload(j, o)
Delivering(t) == PassStarts(t) \/ ReadRow(t) \/ ProjectRow(t) \/ Acknowledge(t)
Booting == BootCancel \/ BootLibrary

Next ==
    \/ \E c \in budget.configs : StartUpload(c) \/ \E p \in Jobs : RetryUpload(p, c)
    \/ Starting \/ ReapLease
    \/ \E j \in Jobs : Ending(j) \/ Finishing(j) \/ CancelUpload(j) \/ Dismiss(j)
    \/ Cancelling
    \/ \E t \in Threads : Delivering(t)
    \/ OtherWrite \/ Crash \/ Booting

Spec == Init /\ [][Next]_vars

(* A command that has begun, a worker (its waits are bounded), the passes,   *)
(* the reaper and the start go on; users, crashes and writes owe nothing.    *)
FairSpec ==
    /\ Spec
    /\ WF_vars(Starting) /\ WF_vars(ReapLease) /\ WF_vars(Cancelling) /\ WF_vars(Booting)
    /\ \A j \in Jobs : WF_vars(Ending(j)) /\ WF_vars(Finishing(j))
    /\ \A t \in Threads : WF_vars(Delivering(t))

-----------------------------------------------------------------------------
(* A cancellation that was reported stays the outcome of its upload, against *)
(* a worker that finishes at the same time (complete_upload_job,             *)
(* cancel_durable_upload).                                                   *)
FirstOutcomeStands == \A j \in told : job[j].state = "cancelled"

(* An entry has one open upload and one active operation at a time: the      *)
(* lease, which a reaper frees as soon as the row has ended, the gate and    *)
(* the rollback of a losing start together (upload_entry_sync,               *)
(* begin_upload_operation).                                                  *)
OneOpenUpload ==
    /\ Cardinality(OpenJobs) <= 1
    /\ Cardinality({j \in Jobs : Active(j)}) <= 1

(* While the process is up, every open upload has a thread that will end it: *)
(* the command that is starting it, or its worker. Every exit of a start     *)
(* that created a row cancels it (spawn_upload_worker,                       *)
(* compensate_new_upload_job).                                               *)
OpenUploadHasOwner ==
    Up => \A j \in OpenJobs :
        \/ th[Starter].job = j /\ th[Starter].pc \in {"begin", "claim", "spawn"}
        \/ th[Worker(j)].pc = "work"

(* An outcome is only ever shown on a row of its own revision, and a row     *)
(* that shows a backup was backed up: also when a download replaces the      *)
(* revision while the outcome is on its way (apply_upload_completion).       *)
ShownOutcomeIsReal ==
    entry.by # 0 /\ entry.status \in {"done", "failed"} =>
        /\ job[entry.by].rev = entry.rev
        /\ entry.status = StatusOf(job[entry.by].state)

(* A start leaves no row shown as uploading that one of the uploads it found *)
(* open was for, nor, when it owes no outcome, any other, also when it dies  *)
(* between cancelling the uploads and writing the library                    *)
(* (reconcile_interrupted_uploads).                                          *)
RestartSettlesRow ==
    [][boot.pc = "library" /\ boot'.pc = "up" /\ entry'.status = "uploading" =>
        /\ Owed # {}
        /\ \A j \in boot.interrupted : job[j].rev # entry.rev]_vars

(* Every upload that was started ends and its outcome is acknowledged, after *)
(* any crash, conflict or lost race: once the commands cease none is left.   *)
UploadsEnd ==
    []<>(\A j \in Jobs : job[j].state \in Open \cup Ended => j \in acked)

(* composition.rs:6963, of the cancel path: "so nothing can stay uploading   *)
(* forever".                                                                 *)
UploadingEnds ==
    (entry.status = "uploading") ~> (entry.status # "uploading")

(* composition.rs:2371: a pass applies "every outcome the store still owes   *)
(* the app". The row never goes back from an outcome to an earlier one.      *)
OutcomesMoveForward ==
    [][entry.by # 0 /\ entry'.by # 0 => order[entry'.by] >= order[entry.by]]_entry
=============================================================================
