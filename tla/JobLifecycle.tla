---------------------------- MODULE JobLifecycle ----------------------------
(* The attempts to download one session, from the request to the library.    *)
(* Durable: the job rows with their retry lineage and tombstones, the outbox *)
(* of terminal outcomes (transfer_store.rs) and the library row (app store). *)
(* Volatile: the coordinator's runtime set, the target lease, and the        *)
(* threads that enqueue, retry, dismiss and deliver. A crash loses the       *)
(* volatile part between any two steps; the next start settles the rows it   *)
(* left open (recovery.rs). What a worker does inside an attempt is the      *)
(* subject of Coordinator; here an attempt is live until it ends.            *)
EXTENDS Integers, FiniteSets, FiniteSetsExt

CONSTANTS
    Revisions,      \* published revisions of the session
    Users,          \* threads that issue commands
    MaxJobs,        \* bound: rows ever created
    Budgets         \* bounds: commands, crashes, unrelated commits of the application store

CONSTANTS Poller, NoRev   \* the delivery loop; no revision

ASSUME LifecycleAssumption ==
    /\ MaxJobs \in Nat /\ Budgets \subseteq [commands : 0 .. MaxJobs, crashes : Nat, writes : Nat]
    /\ Poller \notin Users /\ NoRev \notin Revisions

VARIABLES
    row,        \* job -> its durable row
    outbox,     \* job -> sequence of its terminal outcome, 0 for none
    acked,      \* jobs whose outcome has been acknowledged
    library,    \* the session's library row: projected sequence, revision, upload
    published,  \* revision of the bundle in the session directory
    staged,     \* revisions with staged bytes
    runtime,    \* jobs the coordinator has installed
    holder,     \* job that holds the target lease, 0 for none
    lifecycle,  \* thread in the runtime_lifecycle section
    th,         \* thread -> where it is, its job, and what it read
    poll,       \* jobs whose outcomes the delivery loop has to deliver, then to retire
    leftover,   \* history: jobs whose removal from the runtime timed out
    settling,   \* open rows the start still has to settle; {} when up
    budget      \* what is left of the bounds

durable == <<row, outbox, acked, library, published, staged>>
vars == <<row, outbox, acked, library, published, staged, runtime, holder,
          lifecycle, th, poll, leftover, settling, budget>>

Jobs == 1 .. MaxJobs
Threads == Users \cup {Poller}
Nobody == "nobody"

(* A failure is final, retryable over the staged bytes, or retryable from    *)
(* byte zero: the codes `network` and `interrupted`.                         *)
Failures == {"fatal", "resumable", "fresh"}
Ended == {"succeeded", "cancelled"} \cup Failures

Absent == [state |-> "absent", rev |-> NoRev, parent |-> 0, dismissed |-> FALSE]
Rows == [state : {"absent", "live"} \cup Ended, rev : Revisions \cup {NoRev},
         parent : 0 .. MaxJobs, dismissed : BOOLEAN]
NoEntry == [sequence |-> 0, rev |-> NoRev, uploaded |-> FALSE]
Entries == [sequence : 0 .. MaxJobs, rev : Revisions \cup {NoRev}, uploaded : BOOLEAN]

Created == {j \in Jobs : row[j].state # "absent"}
Live == {j \in Jobs : row[j].state = "live"}
Children(p) == {j \in Created : row[j].parent = p}
LatestOf(r) == Max({0} \cup {j \in Created : row[j].rev = r})
Sequence == Max({outbox[j] : j \in Jobs} \cup {0})
Up == settling = {}

Idle == [pc |-> "idle", job |-> 0, fresh |-> FALSE, entry |-> NoEntry, moved |-> FALSE]
Pcs == {"idle", "install", "install_failed", "resolve", "repeat", "spawn", "tombstone",
        "retire_runtime", "await", "load", "hash", "commit", "ack", "retire"}

TypeOK ==
    /\ row \in [Jobs -> Rows]
    /\ outbox \in [Jobs -> 0 .. MaxJobs] /\ acked \subseteq Jobs
    /\ library \in Entries
    /\ published \in Revisions \cup {NoRev} /\ staged \subseteq Revisions
    /\ runtime \subseteq Created /\ holder \in runtime \cup {0}
    /\ lifecycle \in Threads \cup {Nobody}
    /\ th \in [Threads -> [pc : Pcs, job : 0 .. MaxJobs, fresh : BOOLEAN,
                           entry : Entries, moved : BOOLEAN]]
    /\ poll \subseteq Jobs /\ leftover \subseteq Jobs /\ settling \subseteq Jobs
    /\ \A b \in DOMAIN budget : budget[b] \in Nat

Init ==
    /\ row = [j \in Jobs |-> Absent]
    /\ outbox = [j \in Jobs |-> 0] /\ acked = {}
    /\ library = NoEntry /\ published = NoRev /\ staged = {}
    /\ runtime = {} /\ holder = 0 /\ lifecycle = Nobody
    /\ th = [t \in Threads |-> Idle] /\ poll = {} /\ leftover = {} /\ settling = {}
    /\ budget \in Budgets

-----------------------------------------------------------------------------
(* Store transactions.                                                       *)

(* insert_job_tx: one row in `queued`. *)
Insert(r, parent) ==
    \E j \in Jobs :
        /\ row[j].state = "absent" /\ \A i \in 1 .. j - 1 : row[i].state # "absent"
        /\ row' = [row EXCEPT ![j] = [state |-> "live", rev |-> r, parent |-> parent,
                                      dismissed |-> FALSE]]

NextId == Cardinality(Created) + 1

(* Mutant: the outbox row takes the number of the one before it. *)
CompleteReusesSequence(j, outcome) ==
    /\ row' = [row EXCEPT ![j].state = outcome]
    /\ outbox' = [outbox EXCEPT ![j] = Max({1, Sequence})]

(* complete_job: the state and the outbox row in one transaction. *)
Complete(j, outcome) ==
    /\ row' = [row EXCEPT ![j].state = outcome]
    /\ outbox' = [outbox EXCEPT ![j] = Sequence + 1]

(* Mutant: the caller's snapshot decides, in which the row was open. *)
InstallableFromSnapshot(j, failed) == TRUE

(* install_runtime_from_current_locked: decided on the current row, with the *)
(* store held. `failed` also shows a failure that was not dismissed.         *)
Installable(j, failed) ==
    /\ ~row[j].dismissed
    /\ row[j].state = "live" \/ (failed /\ row[j].state \in Failures)

InstallRuntime(j, failed) ==
    runtime' = IF Installable(j, failed) THEN runtime \cup {j} ELSE runtime

-----------------------------------------------------------------------------
(* Commands. Goto names where a thread goes next, and for which job.         *)
Goto(t, pc, j) == th' = [th EXCEPT ![t] = [Idle EXCEPT !.pc = pc, !.job = j]]
Leave(t) == th' = [th EXCEPT ![t] = Idle]
At(t, pc) == Up /\ th[t].pc = pc
Spend(b) == budget[b] > 0 /\ budget' = [budget EXCEPT ![b] = @ - 1]

(* enqueue: create_job returns the latest row of the revision, or a new one. *)
Enqueue(u, r) ==
    /\ At(u, "idle") /\ Spend("commands")
    /\ IF LatestOf(r) # 0
       THEN Goto(u, "resolve", LatestOf(r)) /\ UNCHANGED row
       ELSE Insert(r, 0) /\ Goto(u, "install", NextId)
    /\ UNCHANGED <<outbox, acked, library, published, staged, runtime, holder, lifecycle,
                   poll, leftover, settling>>

(* resolve_existing_enqueue, up to the transaction that repeats a dismissed  *)
(* failure: the section is kept until the child is installed.                *)
ResolveExisting(u) ==
    /\ At(u, "resolve") /\ lifecycle = Nobody
    /\ LET j == th[u].job IN
       \/ /\ ~row[j].dismissed
          /\ InstallRuntime(j, TRUE) /\ Leave(u) /\ UNCHANGED lifecycle
       \/ /\ row[j].dismissed /\ row[j].state \notin Failures
          /\ Leave(u) /\ UNCHANGED <<runtime, lifecycle>>
       \/ /\ row[j].dismissed /\ row[j].state \in Failures
          /\ lifecycle' = u /\ Goto(u, "repeat", j) /\ UNCHANGED runtime
    /\ UNCHANGED <<durable, holder, poll, leftover, settling, budget>>

(* retry: what the runtime says of the failure is read before the store is   *)
(* asked for a child.                                                        *)
Retry(u, j) ==
    /\ At(u, "idle") /\ Spend("commands")
    /\ j \in runtime /\ row[j].state \in {"resumable", "fresh"}
    /\ th' = [th EXCEPT ![u] = [Idle EXCEPT !.pc = "spawn", !.job = j,
                                            !.fresh = (row[j].state = "fresh")]]
    /\ UNCHANGED <<durable, runtime, holder, lifecycle, poll, leftover, settling>>

(* Mutant: a retry over kept staging does not look for a running child. *)
ExistingChildFreshOnly(p, fresh, repeat) ==
    LET latest == Max({0} \cup Children(p))
        active == Max({0} \cup {j \in Live : row[j].rev = row[p].rev})
    IN IF fresh /\ active # 0 THEN active ELSE IF repeat THEN latest ELSE 0

(* Mutant: running attempts are looked for among the parent's children only. *)
ExistingChildOfParent(p, fresh, repeat) ==
    LET latest == Max({0} \cup Children(p))
    IN IF latest \in Live \/ repeat THEN latest ELSE 0

(* The child that spawn_retry_job_inner hands back instead of a new one, or  *)
(* 0: the latest child while it runs, any running attempt of the revision    *)
(* when the staging is to be discarded, and for a repeated enqueue the       *)
(* latest child whatever became of it.                                       *)
ExistingChild(p, fresh, repeat) ==
    LET latest == Max({0} \cup Children(p))
        active == Max({0} \cup {j \in Live : row[j].rev = row[p].rev})
    IN IF ~repeat /\ latest \in Live THEN latest
       ELSE IF fresh /\ active # 0 THEN active
       ELSE IF repeat THEN latest ELSE 0

(* spawn_retry_job_inner: refused, an existing child, or a new one; a fresh  *)
(* attempt discards the staged bytes inside the transaction.                 *)
SpawnChild(t, fresh, repeat, next) ==
    LET p == th[t].job
        child == ExistingChild(p, fresh, repeat)
    IN /\ p \in acked /\ row[p].state \in {"resumable", "fresh"} /\ row[p].dismissed = repeat
       /\ \/ child # 0 /\ Goto(t, next, child) /\ UNCHANGED <<row, staged>>
          \/ /\ child = 0
             /\ Insert(row[p].rev, p) /\ Goto(t, next, NextId)
             /\ staged' = IF fresh THEN staged \ {row[p].rev} ELSE staged

SpawnRefused(t, repeat) ==
    LET p == th[t].job
    IN p \notin acked \/ row[p].state \notin {"resumable", "fresh"} \/ row[p].dismissed # repeat

SpawnRetry(u) ==
    /\ At(u, "spawn")
    /\ \/ SpawnChild(u, th[u].fresh, FALSE, "install")
       \/ SpawnRefused(u, FALSE) /\ Leave(u) /\ UNCHANGED <<row, staged>>
    /\ UNCHANGED <<outbox, acked, library, published, runtime, holder, lifecycle, poll, leftover, settling,
                   budget>>

SpawnRepeat(u) ==
    /\ At(u, "repeat")
    /\ \/ SpawnChild(u, TRUE, TRUE, "install_failed") /\ UNCHANGED lifecycle
       \/ SpawnRefused(u, TRUE) /\ Leave(u) /\ lifecycle' = Nobody /\ UNCHANGED <<row, staged>>
    /\ UNCHANGED <<outbox, acked, library, published, runtime, holder, poll, leftover, settling, budget>>

(* install_retry_runtime_if_current, install_runtime_if_current(.., false).  *)
Install(u) ==
    /\ At(u, "install") /\ lifecycle = Nobody
    /\ InstallRuntime(th[u].job, FALSE) /\ Leave(u)
    /\ UNCHANGED <<durable, holder, lifecycle, poll, leftover, settling, budget>>

(* The end of resolve_existing_enqueue, still in the section. *)
InstallRepeat(u) ==
    /\ At(u, "install_failed")
    /\ InstallRuntime(th[u].job, FALSE) /\ Leave(u) /\ lifecycle' = Nobody
    /\ UNCHANGED <<durable, holder, poll, leftover, settling, budget>>

-----------------------------------------------------------------------------
(* dismiss_transfer_job: validate, tombstone, then forget the runtime.       *)
Dismissible(j) == j \in runtime /\ row[j].state \in Ended /\ j \in acked

Dismiss(u, j) ==
    /\ At(u, "idle") /\ Spend("commands")
    /\ Dismissible(j)
    /\ Goto(u, "tombstone", j)
    /\ UNCHANGED <<durable, runtime, holder, lifecycle, poll, leftover, settling>>

Tombstone(t) ==
    /\ At(t, "tombstone")
    /\ row' = [row EXCEPT ![th[t].job].dismissed = TRUE]
    /\ Goto(t, "retire_runtime", th[t].job)
    /\ UNCHANGED <<outbox, acked, library, published, staged, runtime, holder, lifecycle, poll, leftover,
                   settling, budget>>

(* A user's dismissal ends; the delivery loop goes on to its next job.       *)
DismissalEnds(t) ==
    IF t = Poller THEN Goto(t, "retire", 0) ELSE Leave(t)

(* dismiss_runtime: re-validated in the section; a job another thread forgot *)
(* is accepted.                                                              *)
RetireRuntime(t) ==
    /\ At(t, "retire_runtime") /\ lifecycle = Nobody
    /\ IF Dismissible(th[t].job)
       THEN lifecycle' = t /\ Goto(t, "await", th[t].job)
       ELSE DismissalEnds(t) /\ UNCHANGED lifecycle
    /\ UNCHANGED <<durable, runtime, holder, poll, leftover, settling, budget>>

(* AwaitWorkerRelease, then the maps; or the wait times out and the runtime  *)
(* keeps the job.                                                            *)
Forget(t) ==
    /\ At(t, "await")
    /\ \/ /\ holder # th[t].job /\ runtime' = runtime \ {th[t].job}
          /\ UNCHANGED leftover
       \/ /\ holder = th[t].job /\ leftover' = leftover \cup {th[t].job}
          /\ UNCHANGED runtime
    /\ lifecycle' = Nobody /\ DismissalEnds(t)
    /\ UNCHANGED <<durable, holder, poll, settling, budget>>

-----------------------------------------------------------------------------
(* Attempts. The target lease lets one of them at a time into the session.   *)
Begin(j) ==
    /\ Up /\ holder = 0 /\ j \in runtime \cap Live
    /\ holder' = j
    /\ UNCHANGED <<durable, runtime, lifecycle, th, poll, leftover, settling, budget>>

Fetch(j) ==
    /\ Up /\ holder = j /\ row[j].state = "live" /\ row[j].rev \notin staged
    /\ staged' = staged \cup {row[j].rev}
    /\ UNCHANGED <<row, outbox, acked, library, published, runtime, holder, lifecycle, th, poll, leftover,
                   settling, budget>>

Publish(j) ==
    /\ Up /\ holder = j /\ row[j].state = "live" /\ row[j].rev \in staged
    /\ published' = row[j].rev /\ published' # published
    /\ UNCHANGED <<row, outbox, acked, library, staged, runtime, holder, lifecycle, th, poll, leftover,
                   settling, budget>>

(* The attempt's last commit; success only over its published bundle.        *)
End(j, outcome) ==
    /\ Up /\ j \in runtime /\ row[j].state = "live"
    /\ outcome = "succeeded" => holder = j /\ published = row[j].rev /\ row[j].rev \in staged
    /\ outcome \in Failures => holder = j
    /\ Complete(j, outcome)
    /\ UNCHANGED <<acked, library, published, staged, runtime, holder, lifecycle, th, poll, leftover,
                   settling, budget>>

Release ==
    /\ Up /\ holder # 0 /\ row[holder].state \in Ended
    /\ holder' = 0
    /\ UNCHANGED <<durable, runtime, lifecycle, th, poll, leftover, settling, budget>>

-----------------------------------------------------------------------------
(* Delivery: deliver_terminal_outcomes, one poll of the loop at a time.      *)
(* Mutant: only outcomes of jobs this process runs. *)
PendingInRuntime == {j \in runtime : outbox[j] # 0 /\ j \notin acked}

(* pending_completions. *)
Pending == {j \in Jobs : outbox[j] # 0 /\ j \notin acked}
Succeeded(j) == row[j].state = "succeeded"

(* Outcomes are listed in the order of the outbox. *)
InTurn(j) == \A i \in poll : outbox[j] <= outbox[i]

PollStarts ==
    /\ At(Poller, "idle")
    /\ poll' = Pending /\ Goto(Poller, "load", 0)
    /\ UNCHANGED <<durable, runtime, holder, lifecycle, leftover, settling, budget>>

(* The library row is read; a projection of this sequence or a later one is  *)
(* acknowledged without another look.                                        *)
ReadEntry ==
    /\ At(Poller, "load")
    /\ \E j \in poll :
       /\ InTurn(j)
       /\ IF Succeeded(j) /\ library.sequence >= outbox[j]
          THEN Goto(Poller, "ack", j)
          ELSE th' = [th EXCEPT ![Poller] = [Idle EXCEPT !.pc = "hash", !.job = j, !.entry = library]]
       /\ poll' = poll \ {j}
    /\ UNCHANGED <<durable, runtime, holder, lifecycle, leftover, settling, budget>>

(* Mutant: a success that could not be verified is acknowledged all the same. *)
VerifyBundleAndAck ==
    /\ At(Poller, "hash")
    /\ LET j == th[Poller].job IN
       IF Succeeded(j) /\ published # row[j].rev
       THEN Goto(Poller, "ack", j)
       ELSE th' = [th EXCEPT ![Poller].pc = "commit"]
    /\ UNCHANGED <<durable, runtime, holder, lifecycle, poll, leftover, settling, budget>>

(* prepare_terminal_download: the bundle is verified with no lock held. A    *)
(* success whose bundle is not there is deferred.                            *)
VerifyBundle ==
    /\ At(Poller, "hash")
    /\ LET j == th[Poller].job IN
       IF Succeeded(j) /\ published # row[j].rev
       THEN Goto(Poller, "load", 0)
       ELSE th' = [th EXCEPT ![Poller].pc = "commit"]
    /\ UNCHANGED <<durable, runtime, holder, lifecycle, poll, leftover, settling, budget>>

(* apply_terminal_download: what an outcome makes of the row. A success that *)
(* changes the row's content voids the upload recorded for the old one.      *)
Candidate(j, entry) ==
    IF Succeeded(j)
    THEN [sequence |-> outbox[j], rev |-> row[j].rev,
          uploaded |-> entry.uploaded /\ entry.rev = row[j].rev]
    ELSE entry

(* Mutant: the row is written back without looking at the revision. *)
CommitEntryUnfenced ==
    /\ At(Poller, "commit")
    /\ library' = Candidate(th[Poller].job, th[Poller].entry)
    /\ Goto(Poller, "ack", th[Poller].job)
    /\ UNCHANGED <<row, outbox, acked, published, staged, runtime, holder, lifecycle, poll, leftover,
                   settling, budget>>

(* The second half of apply_download_completion: a moved store revision is   *)
(* an error unless the durable row already is the candidate.                 *)
CommitEntry ==
    /\ At(Poller, "commit")
    /\ LET j == th[Poller].job
           candidate == Candidate(j, th[Poller].entry)
       IN \/ /\ ~th[Poller].moved
             /\ library' = candidate /\ Goto(Poller, "ack", j)
          \/ /\ th[Poller].moved /\ library = candidate
             /\ Goto(Poller, "ack", j) /\ UNCHANGED library
          \/ /\ th[Poller].moved /\ library # candidate
             /\ Goto(Poller, "load", 0) /\ UNCHANGED library
    /\ UNCHANGED <<row, outbox, acked, published, staged, runtime, holder, lifecycle, poll, leftover,
                   settling, budget>>

Acknowledge ==
    /\ At(Poller, "ack")
    /\ acked' = acked \cup {th[Poller].job}
    /\ Goto(Poller, "load", 0)
    /\ UNCHANGED <<row, outbox, library, published, staged, runtime, holder, lifecycle, poll, leftover,
                   settling, budget>>

(* A delivered success is the only outcome that retires its job. *)
DeliveryEnds ==
    /\ At(Poller, "load") /\ poll = {}
    /\ poll' = {j \in acked : Succeeded(j)} /\ Goto(Poller, "retire", 0)
    /\ UNCHANGED <<durable, runtime, holder, lifecycle, leftover, settling, budget>>

(* retire_successful_download: through the dismissal, or, for a job the      *)
(* coordinator has forgotten, on the durable row alone.                      *)
RetireNext ==
    /\ At(Poller, "retire")
    /\ \E j \in poll :
       /\ InTurn(j)
       /\ IF j \in runtime
          THEN Goto(Poller, "tombstone", j) /\ UNCHANGED row
          ELSE row' = [row EXCEPT ![j].dismissed = TRUE] /\ UNCHANGED th
       /\ poll' = poll \ {j}
    /\ UNCHANGED <<outbox, acked, library, published, staged, runtime, holder, lifecycle, leftover,
                   settling, budget>>

PollEnds ==
    /\ At(Poller, "retire") /\ poll = {} /\ Leave(Poller)
    /\ UNCHANGED <<durable, runtime, holder, lifecycle, poll, leftover, settling, budget>>

(* Any other commit of the application store moves its revision; the         *)
(* projection of an upload writes this row.                                  *)
OtherWrite ==
    /\ Up /\ Spend("writes")
    /\ \/ UNCHANGED library
       \/ library.rev # NoRev /\ library' = [library EXCEPT !.uploaded = TRUE]
    /\ th' = [th EXCEPT ![Poller].moved = th[Poller].pc \in {"hash", "commit"}]
    /\ UNCHANGED <<row, outbox, acked, published, staged, runtime, holder, lifecycle, poll, leftover,
                   settling>>

-----------------------------------------------------------------------------
(* The process dies; fail_interrupted_jobs_on_startup settles what is open,  *)
(* one row at a time, before anything else runs.  A step of it that fails    *)
(* ends the start (recovery.rs:84, application.rs:517) before anything else  *)
(* has run; the next start settles anew, as after a Crash while settling.    *)
(* Mutant: the retries of a failure are not listed. *)
RecoverableRoots == {j \in Live : row[j].parent = 0}

(* list_recoverable_jobs; the loop takes them in the order of creation. *)
Recoverable == Live
ToSettle(j) == j \in settling /\ \A i \in settling : j <= i

Crash ==
    /\ Spend("crashes")
    /\ runtime' = {} /\ holder' = 0 /\ lifecycle' = Nobody
    /\ th' = [t \in Threads |-> Idle] /\ poll' = {} /\ leftover' = {}
    /\ settling' = Recoverable
    /\ UNCHANGED durable

SettleDiscard ==
    \E j \in Live :
        /\ ToSettle(j) /\ row[j].rev \in staged
        /\ staged' = staged \ {row[j].rev}
        /\ UNCHANGED <<row, outbox, acked, library, published, runtime, holder, lifecycle, th, poll,
                       leftover, settling, budget>>

SettleComplete ==
    \E j \in Live :
        /\ ToSettle(j) /\ row[j].rev \notin staged
        /\ Complete(j, "fresh")
        /\ UNCHANGED <<acked, library, published, staged, runtime, holder, lifecycle, th, poll,
                       leftover, settling, budget>>

SettleInstall ==
    \E j \in Jobs \ Live :
        /\ ToSettle(j)
        /\ InstallRuntime(j, TRUE) /\ settling' = settling \ {j}
        /\ UNCHANGED <<durable, holder, lifecycle, th, poll, leftover, budget>>

-----------------------------------------------------------------------------
Deliver ==
    \/ PollStarts \/ ReadEntry \/ VerifyBundle \/ CommitEntry \/ Acknowledge
    \/ DeliveryEnds \/ RetireNext \/ PollEnds
Thread(t) == Tombstone(t) \/ RetireRuntime(t) \/ Forget(t)
Command(u) ==
    \/ ResolveExisting(u) \/ SpawnRetry(u) \/ SpawnRepeat(u) \/ Install(u) \/ InstallRepeat(u)
Settle == SettleDiscard \/ SettleComplete \/ SettleInstall

Next ==
    \/ \E u \in Users : \/ Command(u)
                        \/ \E r \in Revisions : Enqueue(u, r)
                        \/ \E j \in Jobs : Retry(u, j) \/ Dismiss(u, j)
    \/ \E t \in Threads : Thread(t)
    \/ \E j \in Jobs : Begin(j) \/ Fetch(j) \/ Publish(j) \/ \E o \in Ended : End(j, o)
    \/ Release \/ Deliver \/ OtherWrite \/ Crash \/ Settle

Spec == Init /\ [][Next]_vars

(* The poll loop and the threads of a command never stop between two steps,  *)
(* and some start settles to the end, none of its steps failing; users,      *)
(* devices and workers owe nothing, except that a worker whose attempt ended *)
(* gives its lease back.                                                     *)
FairSpec ==
    /\ Spec
    /\ WF_vars(Deliver \/ Thread(Poller)) /\ WF_vars(Settle) /\ WF_vars(Release)
    /\ \A u \in Users : WF_vars(Command(u) \/ Thread(u))

-----------------------------------------------------------------------------
(* Every acknowledged success is in the library: an outcome is acknowledged  *)
(* after the library's commit, over every crash, deferral and conflicting    *)
(* write in between (deliver_terminal_outcomes).                             *)
AckedSuccessInLibrary ==
    \A j \in acked : Succeeded(j) => library.sequence >= outbox[j]

(* A projection never overwrites what an upload wrote to the same row while  *)
(* the bundle was being verified: the upload of a revision is forgotten only *)
(* when the row moves to another revision (apply_download_completion).       *)
UploadSurvivesProjection ==
    [][library.uploaded /\ library'.rev = library.rev => library'.uploaded]_vars

(* While the process is up, every open row is one the coordinator runs or    *)
(* that a thread is about to install: a crash between an insertion and its   *)
(* installation, or inside the settlement, strands no row                    *)
(* (fail_interrupted_jobs_on_startup).                                       *)
LiveHasRuntime ==
    Up => \A j \in Live :
        \/ j \in runtime
        \/ \E u \in Users : th[u].job = j /\ th[u].pc \in {"install", "install_failed"}

(* A dismissed job does not come back to the queue: it is in the runtime     *)
(* only while its dismissal is on its way or if the removal timed out, also  *)
(* when an enqueue or a retry that saw it before the dismissal installs it   *)
(* afterwards (install_runtime_from_current_locked).                         *)
DismissedStaysAway ==
    \A j \in runtime : row[j].dismissed =>
        \/ j \in leftover
        \/ \E t \in Threads : th[t].job = j /\ th[t].pc \in {"retire_runtime", "await"}

(* Two retries of one failure share their child, however their transactions  *)
(* and the child's end interleave (spawn_retry_job_inner).                   *)
OneLiveChild ==
    \A p \in Created : Cardinality(Children(p) \cap Live) <= 1

(* The staged bytes of a revision are discarded for a fresh attempt only     *)
(* when no attempt at that revision is open, through whichever parent        *)
(* (spawn_retry_job_inner).                                                  *)
StagingOfLiveAttemptKept ==
    [][\A r \in staged \ staged' : Up => \A j \in Live : row[j].rev # r]_vars

(* The detailed protocol keeps the outbox's promise to the library.          *)
Promise == INSTANCE OutcomeDelivery WITH
    Attempts <- Jobs, Outcomes <- Ended,
    outcome <- [j \in Jobs |-> IF row[j].state \in Ended THEN row[j].state ELSE "none"],
    number <- outbox, delivered <- acked, projected <- library.sequence
KeepsPromise == Promise!Spec

(* Every recorded outcome is acknowledged in the end, unless it is a success *)
(* whose bundle another revision has replaced: a poll that defers one        *)
(* outcome, or whose commit loses against another write, does not hold up    *)
(* the rest (spawn_transfer_poll_loop).                                      *)
OutcomesDelivered ==
    \A j \in Jobs : outbox[j] # 0 ~> (j \in acked \/ (Succeeded(j) /\ published # row[j].rev))

(* README.md:65 and the view's "download again": a session whose download    *)
(* was delivered can be downloaded again. A request that meets the retired   *)
(* success starts an attempt.                                                *)
RedownloadStarts ==
    [][\A u \in Users :
        (/\ th[u].pc = "resolve" /\ th'[u].pc = "idle" /\ budget' = budget
         /\ Succeeded(th[u].job) /\ row[th[u].job].dismissed)
        => \E j \in Jobs : row'[j].state = "live" /\ row'[j].rev = row[th[u].job].rev]_vars
=============================================================================
