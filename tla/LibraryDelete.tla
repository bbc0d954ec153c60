--------------------------- MODULE LibraryDelete ---------------------------
(* Deleting sessions from the local library (library_delete.rs): a small     *)
(* transaction over two authorities, the file system (session directories,   *)
(* a trash directory per operation with one marker per entry) and the        *)
(* application store (library rows, delete intents, operation leases, one    *)
(* revision). It runs beside the downloads that publish into the same        *)
(* directories, the projection that writes the same rows, the uploads that   *)
(* read the same files, and other deletions.                                 *)
EXTENDS Integers, Sequences, FiniteSets, Functions, SequencesExt

CONSTANTS
    Entries,        \* sessions of the library
    Deleters,       \* threads that run remove_library_entries
    MaxDeletes,     \* bound: delete operations
    MaxBundles,     \* bound: bundles ever published
    Budgets         \* bounds: who deletes and how often, bundles published on top, uploads,
                    \* file system or store failures, crashes

ASSUME DeleteAssumption ==
    /\ IsFiniteSet(Entries) /\ MaxDeletes \in Nat /\ MaxBundles \in Nat
    /\ Budgets \subseteq [deleters : SUBSET Deleters, deletes : 0 .. MaxDeletes,
                          bundles : 0 .. MaxBundles - Cardinality(Entries), uploads : Nat,
                          faults : Nat, crashes : Nat]

VARIABLES
    dir,        \* entry -> bundle in its visible directory, 0 for none
    trash,      \* operation -> entry -> bundle in its trash directory
    marker,     \* operation -> entries with a marker there
    row,        \* entry -> bundle its library row describes, 0 for no row
    revision,   \* the application store's revision
    intent,     \* operation -> entry -> none, staged, committed
    lease,      \* entry -> what holds its operation lease
    memory,     \* the process's copy: the revision and the entries it shows
    claimed,    \* entries in library_delete_keys
    del,        \* deleter -> where it is
    proj,       \* the projection of a finished download
    uploading,  \* entries with an open upload job
    reaper,     \* entries whose upload lease a reaper still watches
    budget      \* what is left of the bounds

disk == <<dir, trash, marker>>
store == <<row, revision, intent, lease>>
vars == <<dir, trash, marker, row, revision, intent, lease, memory, claimed, del, proj,
          uploading, reaper, budget>>

Ops == 1 .. MaxDeletes
Bundles == 0 .. MaxBundles
Free == <<"free", 0>>
DeleteLease(o) == <<"delete", o>>
UploadLease == <<"upload", 0>>

Idle == [pc |-> "idle", op |-> 0, keys |-> {}, todo |-> <<>>, expected |-> 0,
         known |-> {}, blocked |-> FALSE, recorded |-> FALSE]
Steps == {"idle", "busy", "lease", "stage", "scan", "orphans", "record", "commit", "rollback",
          "cleanup", "finish"}
NoProjection == [entry |-> "none", bundle |-> 0, expected |-> 0]

TypeOK ==
    /\ dir \in [Entries -> Bundles] /\ row \in [Entries -> Bundles]
    /\ trash \in [Ops -> [Entries -> Bundles]] /\ marker \in [Ops -> SUBSET Entries]
    /\ revision \in Nat /\ memory.rev \in 0 .. revision /\ memory.rows \subseteq Entries
    /\ intent \in [Ops -> [Entries -> {"none", "staged", "committed"}]]
    /\ lease \in [Entries -> {Free, UploadLease} \cup {DeleteLease(o) : o \in Ops}]
    /\ claimed \subseteq Entries /\ uploading \subseteq Entries /\ reaper \subseteq Entries
    /\ \A d \in Deleters :
        /\ del[d].pc \in Steps /\ del[d].op \in Ops \cup {0} /\ del[d].keys \subseteq claimed
        /\ ToSet(del[d].todo) \subseteq del[d].keys

Init ==
    /\ \E f \in [Entries -> 1 .. Cardinality(Entries)] :
        IsInjective(f) /\ dir = f /\ row = f
    /\ trash = [o \in Ops |-> [e \in Entries |-> 0]] /\ marker = [o \in Ops |-> {}]
    /\ revision = 0 /\ memory = [rev |-> 0, rows |-> Entries]
    /\ intent = [o \in Ops |-> [e \in Entries |-> "none"]]
    /\ lease = [e \in Entries |-> Free]
    /\ claimed = {} /\ del = [d \in Deleters |-> Idle] /\ proj = NoProjection
    /\ uploading = {} /\ reaper = {}
    /\ budget \in Budgets

Rows == {e \in Entries : row[e] # 0}
Spend(what) == budget[what] > 0 /\ budget' = [budget EXCEPT ![what] = @ - 1]
Fault == Spend("faults")
NewOp == MaxDeletes - budget.deletes + 1
NewBundle == MaxBundles - budget.bundles + 1
Goto(d, pc) == del' = [del EXCEPT ![d].pc = pc]
Begin(d, pc, todo) == del' = [del EXCEPT ![d].pc = pc, ![d].todo = todo]
Next1(d) == Head(del[d].todo)
Advance(d) == del' = [del EXCEPT ![d].todo = Tail(@)]

(* release_library_delete_keys, on every way out. *)
Leave(d) ==
    /\ del' = [del EXCEPT ![d] = Idle]
    /\ claimed' = claimed \ del[d].keys

Unlease(o) == lease' = [e \in Entries |-> IF lease[e] = DeleteLease(o) THEN Free ELSE lease[e]]

-----------------------------------------------------------------------------
(* remove_library_entries_sync, in the state lock: keys and revision as the  *)
(* process knows them; the batch is claimed as a whole.                      *)
Claim(d, K) ==
    /\ del[d].pc = "idle" /\ K # {} /\ K \subseteq memory.rows \ claimed
    /\ d \in budget.deleters /\ Spend("deletes")
    /\ claimed' = claimed \cup K
    /\ del' = [del EXCEPT ![d] = [Idle EXCEPT !.pc = "busy", !.op = NewOp,
                                              !.keys = K, !.expected = memory.rev]]
    /\ UNCHANGED <<disk, store, memory, proj, uploading, reaper>>

(* entry_busy_reason: the leases, then the open uploads. *)
CheckBusy(d) ==
    /\ del[d].pc = "busy"
    /\ IF \E e \in del[d].keys : lease[e] # Free \/ e \in uploading
       THEN Leave(d)
       ELSE Goto(d, "lease") /\ UNCHANGED claimed
    /\ UNCHANGED <<disk, store, memory, proj, uploading, reaper, budget>>

(* Mutant: a deletion takes an upload's lease over. *)
AcquireLeasesOverUpload(d) ==
    /\ del[d].pc = "lease"
    /\ lease' = [e \in Entries |-> IF e \in del[d].keys THEN DeleteLease(del[d].op) ELSE lease[e]]
    /\ Begin(d, "stage", SetToSeq(del[d].keys))
    /\ UNCHANGED <<disk, row, revision, intent, memory, claimed, proj, uploading, reaper, budget>>

(* acquire_operation_leases: all of the batch or none. *)
AcquireLeases(d) ==
    /\ del[d].pc = "lease"
    /\ IF \E e \in del[d].keys : lease[e] # Free
       THEN Leave(d) /\ UNCHANGED lease
       ELSE /\ lease' = [e \in Entries |-> IF e \in del[d].keys THEN DeleteLease(del[d].op)
                                           ELSE lease[e]]
            /\ Begin(d, "stage", SetToSeq(del[d].keys)) /\ UNCHANGED claimed
    /\ UNCHANGED <<disk, row, revision, intent, memory, proj, uploading, reaper, budget>>

(* stage_entries, per entry: the marker is durable before the rename.        *)
WriteMarker(d) ==
    /\ del[d].pc = "stage" /\ del[d].todo # <<>> /\ Next1(d) \notin marker[del[d].op]
    /\ marker' = [marker EXCEPT ![del[d].op] = @ \cup {Next1(d)}]
    /\ UNCHANGED <<dir, trash, store, memory, claimed, del, proj, uploading, reaper, budget>>

MoveToTrash(d) ==
    /\ del[d].pc = "stage" /\ del[d].todo # <<>> /\ Next1(d) \in marker[del[d].op]
    /\ trash' = [trash EXCEPT ![del[d].op][Next1(d)] = dir[Next1(d)]]
    /\ dir' = [dir EXCEPT ![Next1(d)] = 0]
    /\ Advance(d)
    /\ UNCHANGED <<marker, store, memory, claimed, proj, uploading, reaper, budget>>

(* A failure anywhere in staging is undone by the orphan scan. *)
StageFails(d) ==
    /\ del[d].pc = "stage" /\ Fault
    /\ Goto(d, "scan")
    /\ UNCHANGED <<disk, store, memory, claimed, proj, uploading, reaper>>

(* recover_orphan_markers: the intents are listed once, then every marker of *)
(* every operation that is not among them is undone.                         *)
ScanStarts(d) ==
    /\ del[d].pc = "scan"
    /\ del' = [del EXCEPT ![d].pc = "orphans",
                          ![d].known = {x \in Ops \X Entries : intent[x[1]][x[2]] # "none"}]
    /\ UNCHANGED <<disk, store, memory, claimed, proj, uploading, reaper, budget>>

Orphans(d) == {x \in Ops \X Entries : x[2] \in marker[x[1]]} \ del[d].known

RestoreOrphan(d, o, e) ==
    /\ del[d].pc = "orphans" /\ <<o, e>> \in Orphans(d)
    /\ trash[o][e] # 0 => dir[e] = 0
    /\ IF trash[o][e] # 0
       THEN dir' = [dir EXCEPT ![e] = trash[o][e]] /\ trash' = [trash EXCEPT ![o][e] = 0]
       ELSE UNCHANGED <<dir, trash>>
    /\ marker' = [marker EXCEPT ![o] = @ \ {e}]
    /\ UNCHANGED <<store, memory, claimed, del, proj, uploading, reaper, budget>>

(* The scan is over, or refuses to overwrite a directory; the leases go.     *)
ScanEnds(d) ==
    /\ del[d].pc = "orphans"
    /\ \/ Orphans(d) = {}
       \/ \E x \in Orphans(d) : trash[x[1]][x[2]] # 0 /\ dir[x[2]] # 0
    /\ Unlease(del[d].op) /\ Leave(d)
    /\ UNCHANGED <<disk, row, revision, intent, memory, proj, uploading, reaper, budget>>

StageEnds(d) ==
    /\ del[d].pc = "stage" /\ del[d].todo = <<>>
    /\ Goto(d, "record")
    /\ UNCHANGED <<disk, store, memory, claimed, proj, uploading, reaper, budget>>

RecordIntents(d) ==
    /\ del[d].pc = "record"
    /\ \/ /\ intent' = [intent EXCEPT ![del[d].op] =
                          [e \in Entries |-> IF e \in del[d].keys THEN "staged" ELSE "none"]]
          /\ del' = [del EXCEPT ![d].pc = "commit", ![d].recorded = TRUE]
          /\ UNCHANGED budget
       \/ Fault /\ Begin(d, "rollback", Reverse(SetToSeq(del[d].keys))) /\ UNCHANGED intent
    /\ UNCHANGED <<disk, row, revision, lease, memory, claimed, proj, uploading, reaper>>

(* commit_library_delete_if_revision: the linearization point. *)
Commit(d) ==
    /\ del[d].pc = "commit"
    /\ IF revision = del[d].expected
       THEN /\ row' = [e \in Entries |-> IF e \in del[d].keys THEN 0 ELSE row[e]]
            /\ revision' = revision + (IF Rows \cap del[d].keys # {} THEN 1 ELSE 0)
            /\ intent' = [intent EXCEPT ![del[d].op] =
                            [e \in Entries |-> IF @[e] = "staged" THEN "committed" ELSE @[e]]]
            /\ del' = [del EXCEPT ![d].pc = "cleanup", ![d].todo = SetToSeq(del[d].keys),
                                  ![d].expected = revision']
       ELSE /\ Begin(d, "rollback", Reverse(SetToSeq(del[d].keys)))
            /\ UNCHANGED <<row, revision, intent>>
    /\ UNCHANGED <<disk, lease, memory, claimed, proj, uploading, reaper, budget>>

(* rollback_staged, per path: a directory published meanwhile is not         *)
(* overwritten; the marker goes in any case.                                 *)
RollBack(d) ==
    /\ del[d].pc = "rollback" /\ del[d].todo # <<>>
    /\ LET o == del[d].op
           e == Next1(d)
       IN /\ marker' = [marker EXCEPT ![o] = @ \ {e}]
          /\ IF trash[o][e] # 0 /\ dir[e] = 0
             THEN dir' = [dir EXCEPT ![e] = trash[o][e]] /\ trash' = [trash EXCEPT ![o][e] = 0]
             ELSE UNCHANGED <<dir, trash>>
          /\ del' = [del EXCEPT ![d].todo = Tail(@),
                                ![d].blocked = @ \/ (trash[o][e] # 0 /\ dir[e] # 0)]
    /\ UNCHANGED <<store, memory, claimed, proj, uploading, reaper, budget>>

(* abort_library_delete, unless a recorded operation could not be undone.    *)
Abort(d) ==
    /\ del[d].pc = "rollback" /\ del[d].todo = <<>>
    /\ IF del[d].recorded /\ del[d].blocked
       THEN UNCHANGED <<intent, lease>>
       ELSE /\ intent' = [intent EXCEPT ![del[d].op] =
                            [e \in Entries |-> IF @[e] = "staged" THEN "none" ELSE @[e]]]
            /\ Unlease(del[d].op)
    /\ Leave(d)
    /\ UNCHANGED <<disk, row, revision, memory, proj, uploading, reaper, budget>>

(* cleanup_committed_delete, per path. *)
CleanUp(d) ==
    /\ del[d].pc = "cleanup" /\ del[d].todo # <<>>
    /\ marker' = [marker EXCEPT ![del[d].op] = @ \ {Next1(d)}]
    /\ trash' = [trash EXCEPT ![del[d].op][Next1(d)] = 0]
    /\ Advance(d)
    /\ UNCHANGED <<dir, store, memory, claimed, proj, uploading, reaper, budget>>

(* Mutant: a cleanup that fails is rolled back. *)
CleanupFailsBack(d) ==
    /\ del[d].pc = "cleanup" /\ del[d].todo # <<>> /\ Fault
    /\ Begin(d, "rollback", del[d].todo)
    /\ UNCHANGED <<disk, store, memory, claimed, proj, uploading, reaper>>

(* A cleanup that fails keeps intents and leases. *)
CleanupFails(d) ==
    /\ del[d].pc = "cleanup" /\ del[d].todo # <<>> /\ Fault
    /\ Goto(d, "finish")
    /\ UNCHANGED <<disk, store, memory, claimed, proj, uploading, reaper>>

Finalize(d) ==
    /\ del[d].pc = "cleanup" /\ del[d].todo = <<>>
    /\ intent' = [intent EXCEPT ![del[d].op] =
                    [e \in Entries |-> IF @[e] = "committed" THEN "none" ELSE @[e]]]
    /\ Unlease(del[d].op) /\ Goto(d, "finish")
    /\ UNCHANGED <<disk, row, revision, memory, claimed, proj, uploading, reaper, budget>>

(* The process's copy follows the committed revision. *)
Finish(d) ==
    /\ del[d].pc = "finish"
    /\ memory' = [rev |-> del[d].expected, rows |-> memory.rows \ del[d].keys]
    /\ Leave(d)
    /\ UNCHANGED <<disk, store, proj, uploading, reaper, budget>>

-----------------------------------------------------------------------------
(* Downloads. A bundle becomes visible by a rename that no lease of the      *)
(* application store stops.                                                  *)
PublishBundle(e) ==
    /\ Spend("bundles")
    /\ dir' = [dir EXCEPT ![e] = NewBundle]
    /\ UNCHANGED <<trash, marker, store, memory, claimed, del, proj, uploading, reaper>>

(* apply_download_completion: the bundle is verified without a lock, the row *)
(* written if neither the process nor the store moved.                       *)
Verify(e) ==
    /\ proj = NoProjection /\ dir[e] # 0 /\ dir[e] # row[e]
    /\ proj' = [entry |-> e, bundle |-> dir[e], expected |-> memory.rev]
    /\ UNCHANGED <<disk, store, memory, claimed, del, uploading, reaper, budget>>

(* Mutant: the row is written whatever happened since the verification. *)
ProjectUnfenced ==
    /\ proj # NoProjection
    /\ row' = [row EXCEPT ![proj.entry] = proj.bundle]
    /\ revision' = revision + 1
    /\ memory' = [rev |-> revision', rows |-> memory.rows \cup {proj.entry}]
    /\ proj' = NoProjection
    /\ UNCHANGED <<disk, intent, lease, claimed, del, uploading, reaper, budget>>

Project ==
    /\ proj # NoProjection
    /\ IF memory.rev = proj.expected /\ revision = proj.expected
       THEN /\ row' = [row EXCEPT ![proj.entry] = proj.bundle]
            /\ revision' = revision + 1
            /\ memory' = [rev |-> revision', rows |-> memory.rows \cup {proj.entry}]
       ELSE UNCHANGED <<row, revision, memory>>
    /\ proj' = NoProjection
    /\ UNCHANGED <<disk, intent, lease, claimed, del, uploading, reaper, budget>>

-----------------------------------------------------------------------------
(* Uploads: lease, durable job, and a reaper that gives up after 2400 polls. *)
(* That no deletion has claimed the entry was looked up earlier, under a     *)
(* lock that is free again: it need not be true any more.                    *)
AcquireUploadLease(e) ==
    /\ e \in memory.rows /\ lease[e] = Free /\ Spend("uploads")
    /\ lease' = [lease EXCEPT ![e] = UploadLease]
    /\ UNCHANGED <<disk, row, revision, intent, memory, claimed, del, proj, uploading, reaper>>

(* start_upload, which finds the files, or fails and the lease is released.  *)
StartUpload(e) ==
    /\ lease[e] = UploadLease /\ e \notin uploading \cup reaper
    /\ \/ dir[e] # 0 /\ uploading' = uploading \cup {e} /\ reaper' = reaper \cup {e}
          /\ UNCHANGED lease
       \/ lease' = [lease EXCEPT ![e] = Free] /\ UNCHANGED <<uploading, reaper>>
    /\ UNCHANGED <<disk, row, revision, intent, memory, claimed, del, proj, budget>>

UploadEnds(e) ==
    /\ e \in uploading /\ uploading' = uploading \ {e}
    /\ UNCHANGED <<disk, store, memory, claimed, del, proj, reaper, budget>>

Reap(e) ==
    /\ e \in reaper \ uploading
    /\ reaper' = reaper \ {e} /\ lease' = [lease EXCEPT ![e] = Free]
    /\ UNCHANGED <<disk, row, revision, intent, memory, claimed, del, proj, uploading, budget>>

ReaperGivesUp(e) ==
    /\ e \in reaper \cap uploading
    /\ reaper' = reaper \ {e}
    /\ UNCHANGED <<disk, store, memory, claimed, del, proj, uploading, budget>>

-----------------------------------------------------------------------------
(* A crash and the next start: open uploads are settled and their leases     *)
(* reconciled; delete intents are not replayed (from_boot_config).           *)
Crash ==
    /\ Spend("crashes")
    /\ lease' = [e \in Entries |-> IF lease[e] = UploadLease THEN Free ELSE lease[e]]
    /\ memory' = [rev |-> revision, rows |-> Rows]
    /\ claimed' = {} /\ del' = [d \in Deleters |-> Idle] /\ proj' = NoProjection
    /\ uploading' = {} /\ reaper' = {}
    /\ UNCHANGED <<disk, row, revision, intent>>

Step(d) ==
    \/ CheckBusy(d) \/ AcquireLeases(d) \/ WriteMarker(d) \/ MoveToTrash(d) \/ StageEnds(d)
    \/ ScanStarts(d) \/ ScanEnds(d) \/ (\E o \in Ops, e \in Entries : RestoreOrphan(d, o, e))
    \/ RecordIntents(d) \/ Commit(d) \/ RollBack(d) \/ Abort(d)
    \/ CleanUp(d) \/ Finalize(d) \/ Finish(d)

Next ==
    \/ \E d \in Deleters : \/ Step(d) \/ StageFails(d) \/ CleanupFails(d)
                           \/ \E K \in SUBSET Entries : Claim(d, K)
    \/ \E e \in Entries : \/ PublishBundle(e) \/ Verify(e)
                          \/ AcquireUploadLease(e) \/ StartUpload(e) \/ UploadEnds(e)
                          \/ Reap(e) \/ ReaperGivesUp(e)
    \/ Project \/ Crash

Spec == Init /\ [][Next]_vars

(* Threads run; a user asks for nothing, and nothing has to fail.            *)
FairSpec ==
    /\ Spec
    /\ \A d \in Deleters : WF_vars(Step(d))
    /\ \A e \in Entries : WF_vars(StartUpload(e)) /\ WF_vars(UploadEnds(e)) /\ WF_vars(Reap(e))

-----------------------------------------------------------------------------
(* A library row never outlives its files: they are visible, or in the trash *)
(* of an operation that can still be undone, through crashes, failing steps, *)
(* downloads into the same directory and projections of the same row         *)
(* (delete_entries, apply_download_completion).                              *)
NoFilesLost ==
    \A e \in Rows : dir[e] # 0 \/ \E o \in Ops : trash[o][e] # 0

(* What was committed becomes visible again only by the orphan scan of       *)
(* another deletion that failed and had listed the intents before this one   *)
(* recorded its own (recover_orphan_markers, run on every staging failure):  *)
(* neither a rollback or a failing cleanup, nor a crash, a download into the *)
(* same directory or a second deletion of the entry brings it back.          *)
OnlyAScanRestores ==
    [][\A o \in Ops, e \in Entries :
        intent[o][e] = "committed" /\ trash[o][e] # 0 /\ dir'[e] = trash[o][e] =>
          \E d \in Deleters : /\ del[d].pc = "orphans" /\ del[d].op # o
                              /\ <<o, e>> \notin del[d].known]_vars

(* library_delete.rs:6: "committed intents only clean trash": what a         *)
(* committed operation moved away does not become visible again. The code    *)
(* breaks this: the exception of OnlyAScanRestores happens.                  *)
CommittedOnlyCleansTrash ==
    [][\A o \in Ops, e \in Entries :
        intent[o][e] = "committed" /\ trash[o][e] # 0 => dir'[e] # trash[o][e]]_vars

(* The files of an open upload are never moved away: leases exclude uploads  *)
(* and deletions, although either looks for the other before it takes one    *)
(* (acquire_operation_leases).                                               *)
UploadKeepsFiles ==
    [][\A e \in uploading : dir[e] # 0 => dir'[e] # 0]_vars

(* library_delete.rs:6: "staged intents roll back to the original path": a   *)
(* staged intent belongs to an operation that is under way.                  *)
StagedIntentsRollBack ==
    \A o \in Ops, e \in Entries :
        intent[o][e] = "staged" => \E d \in Deleters : del[d].op = o

(* library_delete.rs:822: the lease of a completed upload is released, so    *)
(* that "a new operation need not wait for restart".                         *)
UploadLeaseReleased == \A e \in Entries : e \in uploading ~> lease[e] = Free
=============================================================================
