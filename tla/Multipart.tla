----------------------------- MODULE Multipart -----------------------------
(* What an upload does at the object store: the content objects of a         *)
(* publication one after the other, each as a multipart upload, then the     *)
(* marker, then the wait for the Console's admission (perform_upload). A     *)
(* multipart upload lives in two places that no transaction spans: the       *)
(* object store, and a row of the transfer store that makes it known to the  *)
(* next process. Every call may fail, with or without its effect; a crash    *)
(* may come between any two calls; the next start cancels the open jobs and  *)
(* aborts what the rows name.                                                *)
EXTENDS Integers, FiniteSets

CONSTANTS
    Jobs,           \* upload jobs of one revision: an attempt and its retries
    Contents,       \* number of content objects
    Parts,          \* parts of an object
    Budgets         \* bounds: failed calls, cancellations, crashes

ASSUME MultipartAssumption ==
    /\ Contents \in Nat \ {0} /\ Parts \in Nat \ {0}
    /\ Budgets \subseteq [faults : Nat, cancels : Nat, crashes : Nat]

VARIABLES
    remote,     \* handle -> what the object store has of it
    marker,     \* the publication marker is there
    admission,  \* the Console has admitted the publication
    row,        \* handle -> its desired state in transfer_uploads, "none" without a row
    receipt,    \* job -> objects with a staged receipt
    state,      \* job -> its durable state
    dismissed,  \* jobs with a tombstone
    worker,     \* job -> where its worker is, with which object and part
    flagged,    \* jobs whose cancel flag is raised
    cancel,     \* job -> the next step of the thread that cancels it
    orphans,    \* handles the cleanup thread has still to look at
    tracked,    \* history: handles that have had a row
    budget      \* what is left of the bounds

store == <<remote, marker, admission>>
durable == <<row, receipt, state, dismissed, tracked>>
vars == <<remote, marker, admission, row, receipt, state, dismissed, worker, flagged, cancel,
          orphans, tracked, budget>>

Objects == 1 .. Contents
Marker == Contents + 1
Admission == Contents + 2
Handles == Jobs \X Objects
Ended == {"succeeded", "failed", "cancelled"}
Gone == [pc |-> "gone", object |-> 1, part |-> 1]
Steps == {"gone", "initiate", "track", "untracked", "part", "complete", "stage", "finish",
          "abort", "abort_remote", "retire", "marker", "readback", "admission", "done", "failed"}

TypeOK ==
    /\ remote \in [Handles -> {"none", "open", "completed", "aborted"}]
    /\ marker \in BOOLEAN /\ admission \in BOOLEAN
    /\ row \in [Handles -> {"none", "running", "aborting"}]
    /\ receipt \in [Jobs -> SUBSET (1 .. Contents + 2)]
    /\ state \in [Jobs -> {"absent", "open"} \cup Ended]
    /\ dismissed \subseteq {j \in Jobs : state[j] \in Ended}
    /\ worker \in [Jobs -> [pc : Steps, object : Objects, part : 1 .. Parts]]
    /\ flagged \subseteq Jobs /\ cancel \in [Jobs -> {"none", "commit", "mark"}]
    /\ orphans \subseteq Handles /\ tracked \subseteq Handles
    /\ budget \in [faults : Nat, cancels : Nat, crashes : Nat]

Init ==
    /\ remote = [h \in Handles |-> "none"] /\ marker = FALSE /\ admission = FALSE
    /\ row = [h \in Handles |-> "none"] /\ receipt = [j \in Jobs |-> {}]
    /\ state = [j \in Jobs |-> "absent"] /\ dismissed = {}
    /\ worker = [j \in Jobs |-> Gone] /\ flagged = {} /\ cancel = [j \in Jobs |-> "none"]
    /\ orphans = {} /\ tracked = {} /\ budget \in Budgets

At(j, pc) == worker[j].pc = pc
Goto(j, pc) == worker' = [worker EXCEPT ![j].pc = pc]
Handle(j) == <<j, worker[j].object>>
Spend(what) == budget[what] > 0 /\ budget' = [budget EXCEPT ![what] = @ - 1]
Fault == Spend("faults")

Rows(j) == {h \in Handles : h[1] = j /\ row[h] # "none"}
Aborted(h) == [remote EXCEPT ![h] = "aborted"]

(* A call that fails has had its effect or not. *)
Either(var, effect) == var' \in {var, effect}

-----------------------------------------------------------------------------
(* The job, as UploadJobs starts, cancels and dismisses it. The worker of a  *)
(* cancelled upload may still be running when the next one starts.           *)
Start(j) ==
    /\ state[j] = "absent" /\ \A i \in Jobs : state[i] # "open"
    /\ state' = [state EXCEPT ![j] = "open"]
    /\ Goto(j, "initiate")
    /\ UNCHANGED <<store, row, receipt, dismissed, flagged, cancel, orphans, tracked, budget>>

(* cancel_durable_upload: the flag, the outcome, the rows. *)
RequestCancel(j) ==
    /\ state[j] = "open" /\ cancel[j] = "none" /\ Spend("cancels")
    /\ flagged' = flagged \cup {j}
    /\ cancel' = [cancel EXCEPT ![j] = "commit"]
    /\ UNCHANGED <<store, durable, worker, orphans>>

CommitCancel(j) ==
    /\ cancel[j] = "commit"
    /\ IF state[j] = "open"
       THEN /\ state' = [state EXCEPT ![j] = "cancelled"]
            /\ cancel' = [cancel EXCEPT ![j] = "mark"]
       ELSE UNCHANGED state /\ cancel' = [cancel EXCEPT ![j] = "none"]
    /\ UNCHANGED <<store, row, receipt, dismissed, worker, flagged, orphans, tracked, budget>>

MarkRows(j) ==
    /\ cancel[j] = "mark" /\ cancel' = [cancel EXCEPT ![j] = "none"]
    /\ row' = [h \in Handles |-> IF h \in Rows(j) THEN "aborting" ELSE row[h]]
    /\ UNCHANGED <<store, receipt, state, dismissed, worker, flagged, orphans, tracked, budget>>

(* dismiss_upload_transfer: no row of the job, and no operation token. *)
Dismiss(j) ==
    /\ state[j] \in Ended /\ At(j, "gone") /\ j \notin dismissed
    /\ Rows(j) = {}
    /\ dismissed' = dismissed \cup {j}
    /\ UNCHANGED <<store, row, receipt, state, worker, flagged, cancel, orphans, tracked, budget>>

-----------------------------------------------------------------------------
(* A content object.                                                         *)
Initiate(j) ==
    /\ At(j, "initiate")
    /\ remote' = [remote EXCEPT ![Handle(j)] = "open"]
    /\ Goto(j, "track")
    /\ UNCHANGED <<marker, admission, durable, flagged, cancel, orphans, budget>>

(* Without the answer the upload id is not known: nothing to clean up.       *)
InitiateFails(j) ==
    /\ At(j, "initiate") /\ Fault
    /\ Either(remote, [remote EXCEPT ![Handle(j)] = "open"])
    /\ Goto(j, "failed")
    /\ UNCHANGED <<marker, admission, durable, flagged, cancel, orphans>>

(* begin_upload_for_job: refused once the job has ended. *)
Track(j) ==
    /\ At(j, "track")
    /\ IF state[j] = "open"
       THEN /\ row' = [row EXCEPT ![Handle(j)] = "running"]
            /\ tracked' = tracked \cup {Handle(j)}
            /\ Goto(j, "part")
       ELSE Goto(j, "untracked") /\ UNCHANGED <<row, tracked>>
    /\ UNCHANGED <<store, receipt, state, dismissed, flagged, cancel, orphans, budget>>

(* abort_multipart_after_track_failure: the row may be there all the same;   *)
(* if it is found it is retired with the upload, if the lookup fails too the *)
(* upload is aborted and the row stays.                                      *)
TrackFails(j) ==
    /\ At(j, "track") /\ Fault
    /\ \/ /\ state[j] = "open"
          /\ row' = [row EXCEPT ![Handle(j)] = "running"]
          /\ tracked' = tracked \cup {Handle(j)}
          /\ Goto(j, "abort") \/ Goto(j, "untracked")
       \/ Goto(j, "untracked") /\ UNCHANGED <<row, tracked>>
    /\ UNCHANGED <<store, receipt, state, dismissed, flagged, cancel, orphans>>

AbortUntracked(j) ==
    /\ At(j, "untracked")
    /\ \/ remote' = Aborted(Handle(j)) /\ UNCHANGED budget
       \/ Fault /\ Either(remote, Aborted(Handle(j)))
    /\ Goto(j, "failed")
    /\ UNCHANGED <<marker, admission, durable, flagged, cancel, orphans>>

(* upload_parts: the flag before and after every part; the record of a part  *)
(* is refused once the job has ended.                                        *)
SendPart(j) ==
    /\ At(j, "part")
    /\ IF j \in flagged \/ state[j] # "open" THEN Goto(j, "abort")
       ELSE IF worker[j].part < Parts THEN worker' = [worker EXCEPT ![j].part = @ + 1]
       ELSE worker' = [worker EXCEPT ![j].pc = "complete", ![j].part = 1]
    /\ UNCHANGED <<store, durable, flagged, cancel, orphans, budget>>

SendPartFails(j) ==
    /\ At(j, "part") /\ Fault
    /\ worker' = [worker EXCEPT ![j].pc = "abort", ![j].part = 1]
    /\ UNCHANGED <<store, durable, flagged, cancel, orphans>>

(* The last look at the flag, and the completion. *)
Complete(j) ==
    /\ At(j, "complete")
    /\ IF j \in flagged \/ remote[Handle(j)] # "open"
       THEN Goto(j, "abort") /\ UNCHANGED remote
       ELSE Goto(j, "stage") /\ remote' = [remote EXCEPT ![Handle(j)] = "completed"]
    /\ UNCHANGED <<marker, admission, durable, flagged, cancel, orphans, budget>>

CompleteFails(j) ==
    /\ At(j, "complete") /\ Fault
    /\ Either(remote, [remote EXCEPT ![Handle(j)] =
                          IF @ = "open" THEN "completed" ELSE @])
    /\ Goto(j, "abort")
    /\ UNCHANGED <<marker, admission, durable, flagged, cancel, orphans>>

Staged(j, o) == [receipt EXCEPT ![j] = @ \cup {o}]

(* The object is verified against its completion, its receipt staged.        *)
StageReceipt(j) ==
    /\ At(j, "stage")
    /\ receipt' = Staged(j, worker[j].object)
    /\ Goto(j, "finish")
    /\ UNCHANGED <<store, row, state, dismissed, flagged, cancel, orphans, tracked, budget>>

StageFails(j) ==
    /\ At(j, "stage") /\ Fault
    /\ Either(receipt, Staged(j, worker[j].object))
    /\ Goto(j, "abort")
    /\ UNCHANGED <<store, row, state, dismissed, flagged, cancel, orphans, tracked>>

Retired(h) == [row EXCEPT ![h] = "none"]

(* Mutant: the marker before the last object. *)
FinishObjectEarly(j) ==
    /\ At(j, "finish")
    /\ row' = Retired(Handle(j))
    /\ worker' = [worker EXCEPT ![j] =
                    IF @.object < Contents - 1
                    THEN [pc |-> "initiate", object |-> @.object + 1, part |-> 1]
                    ELSE [@ EXCEPT !.pc = "marker"]]
    /\ UNCHANGED <<store, receipt, state, dismissed, flagged, cancel, orphans, tracked, budget>>

(* finish_multipart, then the next object or the marker. *)
FinishObject(j) ==
    /\ At(j, "finish")
    /\ row' = Retired(Handle(j))
    /\ worker' = [worker EXCEPT ![j] =
                    IF @.object < Contents
                    THEN [pc |-> "initiate", object |-> @.object + 1, part |-> 1]
                    ELSE [@ EXCEPT !.pc = "marker"]]
    /\ UNCHANGED <<store, receipt, state, dismissed, flagged, cancel, orphans, tracked, budget>>

FinishFails(j) ==
    /\ At(j, "finish") /\ Fault
    /\ Either(row, Retired(Handle(j)))
    /\ Goto(j, "abort")
    /\ UNCHANGED <<store, receipt, state, dismissed, flagged, cancel, orphans, tracked>>

-----------------------------------------------------------------------------
(* abort_multipart_after_failure: mark, abort, retire. An upload the store   *)
(* does not know was aborted or completed before: only a receipt for the     *)
(* object says which, and without one the row stays.                         *)
MarkAborting(j) ==
    /\ At(j, "abort")
    /\ LET marked == IF row[Handle(j)] = "none" THEN row ELSE [row EXCEPT ![Handle(j)] = "aborting"]
       IN \/ row' = marked /\ UNCHANGED budget
          \/ Fault /\ Either(row, marked)
    /\ Goto(j, "abort_remote")
    /\ UNCHANGED <<store, receipt, state, dismissed, flagged, cancel, orphans, tracked>>

(* Mutants: an unknown upload counts as gone; no receipt is looked up. *)
AccountedIfUnknown(h) == TRUE
AccountedNever(h) == FALSE

(* multipart_receipt_proves_completion, for a row that is still there. *)
Accounted(h) == row[h] # "none" /\ h[2] \in receipt[h[1]]

AbortRemote(j) ==
    /\ At(j, "abort_remote")
    /\ LET h == Handle(j) IN
       \/ /\ remote[h] = "open" /\ remote' = Aborted(h)
          /\ Goto(j, "retire") /\ UNCHANGED budget
       \/ /\ remote[h] # "open" /\ UNCHANGED <<remote, budget>>
          /\ Goto(j, IF Accounted(h) THEN "retire" ELSE "failed")
       \/ /\ Fault /\ Goto(j, "failed")
          /\ Either(remote, IF remote[h] = "open" THEN Aborted(h) ELSE remote)
    /\ UNCHANGED <<marker, admission, durable, flagged, cancel, orphans>>

RetireRow(j) ==
    /\ At(j, "retire")
    /\ \/ row' = Retired(Handle(j)) /\ UNCHANGED budget
       \/ Fault /\ Either(row, Retired(Handle(j)))
    /\ Goto(j, "failed")
    /\ UNCHANGED <<store, receipt, state, dismissed, flagged, cancel, orphans, tracked>>

-----------------------------------------------------------------------------
(* The publication: marker, its readback, admission.                         *)

(* put_object_if_absent: an earlier attempt may have written it. *)
PutMarker(j) ==
    /\ At(j, "marker")
    /\ \/ j \in flagged /\ Goto(j, "failed") /\ UNCHANGED <<marker, budget>>
       \/ j \notin flagged /\ marker' = TRUE /\ Goto(j, "readback") /\ UNCHANGED budget
       \/ j \notin flagged /\ Fault /\ Either(marker, TRUE) /\ Goto(j, "failed")
    /\ UNCHANGED <<remote, admission, durable, flagged, cancel, orphans>>

StageMarker(j) ==
    /\ At(j, "readback")
    /\ \/ receipt' = Staged(j, Marker) /\ Goto(j, "admission") /\ UNCHANGED budget
       \/ Fault /\ Either(receipt, Staged(j, Marker)) /\ Goto(j, "failed")
    /\ UNCHANGED <<store, row, state, dismissed, flagged, cancel, orphans, tracked>>

(* The Console consumes a marker in its own time. *)
Admit ==
    /\ marker /\ ~admission /\ admission' = TRUE
    /\ UNCHANGED <<remote, marker, durable, worker, flagged, cancel, orphans, budget>>

(* wait_for_publication_admission: the flag, the answer or 60 seconds. *)
AwaitAdmission(j) ==
    /\ At(j, "admission")
    /\ \/ j \in flagged /\ Goto(j, "failed") /\ UNCHANGED <<receipt, budget>>
       \/ j \notin flagged /\ admission
          /\ receipt' = Staged(j, Admission) /\ Goto(j, "done") /\ UNCHANGED budget
       \/ ~admission /\ Goto(j, "failed") /\ UNCHANGED <<receipt, budget>>
       \/ /\ Fault /\ Goto(j, "failed")
          /\ Either(receipt, IF admission THEN Staged(j, Admission) ELSE receipt)
    /\ UNCHANGED <<store, row, state, dismissed, flagged, cancel, orphans, tracked>>

(* finish_upload: the outcome, unless the cancellation is committed. *)
Finish(j) ==
    /\ At(j, "done") \/ At(j, "failed")
    /\ \E outcome \in IF At(j, "done") THEN {"succeeded"}
                      ELSE IF j \in flagged THEN {"cancelled", "failed"} ELSE {"failed"} :
          state' = [state EXCEPT ![j] = IF @ = "open" THEN outcome ELSE @]
    /\ worker' = [worker EXCEPT ![j] = Gone]
    /\ UNCHANGED <<store, row, receipt, dismissed, flagged, cancel, orphans, tracked, budget>>

-----------------------------------------------------------------------------
(* The process dies; the next start cancels the open jobs, claims all rows   *)
(* (claim_orphan_uploads) and lets a thread abort what they name.            *)
Restart ==
    /\ Spend("crashes")
    /\ worker' = [j \in Jobs |-> Gone] /\ flagged' = {} /\ cancel' = [j \in Jobs |-> "none"]
    /\ state' = [j \in Jobs |-> IF state[j] = "open" THEN "cancelled" ELSE state[j]]
    /\ row' = [h \in Handles |-> IF row[h] = "none" THEN "none" ELSE "aborting"]
    /\ orphans' = {h \in Handles : row[h] # "none"}
    /\ UNCHANGED <<store, receipt, dismissed, tracked>>

(* Mutant: the thread looks at the rows of the moment. *)
ToAbortNow == IF orphans = {} THEN {} ELSE {h \in Handles : row[h] # "none"}

(* The rows as they were claimed. *)
ToAbort == orphans

(* abort_orphan_multipart_uploads, one row; the same reading of an unknown   *)
(* upload. A failure leaves the row to the next start.                       *)
AbortOrphan(h) ==
    /\ h \in ToAbort
    /\ orphans' = orphans \ {h}
    /\ \/ /\ remote[h] = "open" /\ remote' = Aborted(h)
          /\ row' = Retired(h) /\ UNCHANGED budget
       \/ /\ remote[h] # "open" /\ UNCHANGED <<remote, budget>>
          /\ row' = IF Accounted(h) THEN Retired(h) ELSE row
       \/ /\ Fault /\ UNCHANGED row
          /\ Either(remote, IF remote[h] = "open" THEN Aborted(h) ELSE remote)
    /\ UNCHANGED <<marker, admission, receipt, state, dismissed, worker, flagged, cancel, tracked>>

(* No credential: the thread ends. *)
CleanupGivesUp ==
    /\ orphans # {} /\ Fault /\ orphans' = {}
    /\ UNCHANGED <<store, durable, worker, flagged, cancel>>

-----------------------------------------------------------------------------
Work(j) ==
    \/ Initiate(j) \/ Track(j) \/ AbortUntracked(j) \/ SendPart(j) \/ Complete(j)
    \/ StageReceipt(j) \/ FinishObject(j) \/ MarkAborting(j) \/ AbortRemote(j) \/ RetireRow(j)
    \/ PutMarker(j) \/ StageMarker(j) \/ AwaitAdmission(j) \/ Finish(j)

Failing(j) ==
    \/ InitiateFails(j) \/ TrackFails(j) \/ SendPartFails(j) \/ CompleteFails(j)
    \/ StageFails(j) \/ FinishFails(j)

Cleanup == \E h \in Handles : AbortOrphan(h)

Next ==
    \/ \E j \in Jobs : \/ Start(j) \/ RequestCancel(j) \/ CommitCancel(j) \/ MarkRows(j) \/ Dismiss(j)
                      \/ Work(j) \/ Failing(j)
    \/ Admit \/ Restart \/ Cleanup \/ CleanupGivesUp

Spec == Init /\ [][Next]_vars

(* The calls of the cleanup thread have timeouts: it goes through its list.  *)
FairSpec == Spec /\ WF_vars(Cleanup)

-----------------------------------------------------------------------------
(* upload_store.rs says of a row's absence that it is the only sign that an  *)
(* upload is accounted for: once tracked, a multipart upload loses its row,  *)
(* and its job may be dismissed, only when the store has dropped it or a     *)
(* receipt proves its object, through every failing call, lost answer and    *)
(* crash.                                                                    *)
RetiredIsAccounted ==
    \A h \in tracked : row[h] = "none" \/ h[1] \in dismissed =>
        \/ remote[h] = "aborted"
        \/ remote[h] = "completed" /\ h[2] \in receipt[h[1]]

(* The cleanup of a start, which runs beside new uploads of the same         *)
(* objects, never aborts the upload of an open job (claim_orphan_uploads,    *)
(* abort_orphan_multipart_uploads).                                          *)
OpenJobNotAborted ==
    [][\A h \in Handles : remote[h] = "open" /\ remote'[h] = "aborted" =>
        state[h[1]] # "open" \/ worker[h[1]].pc \in {"untracked", "abort_remote"}]_vars

(* The marker is written last: when it is there, one attempt has every       *)
(* content object complete and verified, whoever was cancelled on the way    *)
(* (perform_upload).                                                         *)
MarkerLast ==
    marker => \E j \in Jobs :
        /\ Objects \subseteq receipt[j]
        /\ \A o \in Objects : remote[<<j, o>>] = "completed" /\ row[<<j, o>>] = "none"

(* What a start finds in the rows is settled if no call fails: retired, or   *)
(* consumed without a receipt to say by what.                                *)
OrphansSettle ==
    \A h \in Handles :
        h \in orphans /\ budget.faults = 0 ~>
            row[h] = "none" \/ (remote[h] # "open" /\ h[2] \notin receipt[h[1]])
=============================================================================
