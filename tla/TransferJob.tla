---------------------------- MODULE TransferJob ----------------------------
(***************************************************************************)
(* The pure per-job reducer of transfer/aggregate.rs: the one graph of     *)
(* legal job states, what a device snapshot means for a job, and, for each *)
(* command, the ordered list of effects the coordinator must perform.      *)
(* There is no state here.  Module Coordinator performs the effects.       *)
(*                                                                         *)
(* A failed job keeps only what the code tells apart: the failures that a  *)
(* retry restarts from zero ("failed_network", "failed_interrupted"), the  *)
(* other retryable ones and the permanent ones.                            *)
(***************************************************************************)
EXTENDS Naturals, Sequences

Parked == {"queued", "waiting_for_device", "waiting_for_pairing",
           "paused_capture_active", "retry_wait"}

Failed == {"failed_network", "failed_interrupted", "failed_retryable",
           "failed_permanent"}

Terminal == {"succeeded", "cancelled"} \cup Failed

States == Parked \cup Terminal
            \cup {"preparing", "transferring", "verifying", "committing", "cancelling"}

Edges ==
  UNION { {"queued"} \X {"waiting_for_device", "waiting_for_pairing", "preparing", "cancelling"},
          {"waiting_for_device"} \X {"queued", "preparing", "paused_capture_active", "cancelling"},
          {"waiting_for_pairing"} \X {"queued", "preparing", "cancelling"},
          {"paused_capture_active"} \X {"queued", "preparing", "cancelling"},
          {"preparing"} \X ({"transferring", "waiting_for_device", "cancelling"} \cup Failed),
          {"transferring"} \X ({"verifying", "retry_wait", "paused_capture_active", "cancelling"}
                                 \cup Failed),
          {"verifying"} \X ({"committing", "retry_wait", "cancelling"} \cup Failed),
          {"committing"} \X ({"succeeded", "retry_wait", "cancelling"} \cup Failed),
          {"retry_wait"} \X ({"queued", "preparing", "cancelling"} \cup Failed),
          {"cancelling"} \X ({"cancelled"} \cup Failed) }

IsLegalTransition(from, to) == <<from, to>> \in Edges

(* The commits that lead from one state to another, at most one of them    *)
(* through queued.  Every caller treats "no route" as "nothing to commit". *)
Route(from, to) ==
  CASE IsLegalTransition(from, to) -> <<to>>
    [] ~IsLegalTransition(from, to) /\ from # to
         /\ IsLegalTransition(from, "queued")
         /\ IsLegalTransition("queued", to) -> <<"queued", to>>
    [] OTHER -> <<>>

-----------------------------------------------------------------------------
(* Device snapshots: connection and capture activity, read together.       *)

Connections == {"connected", "pairing", "disconnected", "expired"}
Captures == {"idle", "error", "unknown", "recording", "starting", "stopping"}
Snapshots == [connection : Connections, capture : Captures]

Readinesses == {"ready", "wait_device", "wait_pairing", "capture_paused"}

Readiness(snapshot) ==
  CASE snapshot.connection = "connected"
         /\ snapshot.capture \in {"recording", "starting", "stopping"} -> "capture_paused"
    [] snapshot.connection = "connected"
         /\ snapshot.capture \notin {"recording", "starting", "stopping"} -> "ready"
    [] snapshot.connection = "pairing" -> "wait_pairing"
    [] OTHER -> "wait_device"

(* The state in which a parked job waits out, or uses, a reading. *)
ParkedTarget(readiness) ==
  CASE readiness = "ready" -> "preparing"
    [] readiness = "wait_device" -> "waiting_for_device"
    [] readiness = "wait_pairing" -> "waiting_for_pairing"
    [] OTHER -> "paused_capture_active"

-----------------------------------------------------------------------------
(* Effects and decisions.                                                  *)

Reasons == {"capture_pause", "user_pause", "cancel", "device_lost", "shutdown"}
Desires == {"run", "paused"}

Commit(to) == [kind |-> "commit", arg |-> to]
SetDesired(d) == [kind |-> "desired", arg |-> d]
RequestInterrupt(r) == [kind |-> "interrupt", arg |-> r]
ClearInterrupt == [kind |-> "clear", arg |-> "none"]
Await == [kind |-> "await", arg |-> "none"]
Dispatch == [kind |-> "dispatch", arg |-> "none"]
RecordDeviceVersion == [kind |-> "record", arg |-> "none"]

Commits(chain) == [i \in 1..Len(chain) |-> Commit(chain[i])]

Accepted(effects) == [outcome |-> "accepted", effects |-> effects]
NoOp == [outcome |-> "no_op", effects |-> <<>>]
Rejected(why) == [outcome |-> why, effects |-> <<>>]
Refusals == {"already_terminal", "illegal"}

-----------------------------------------------------------------------------
(* User commands.                                                          *)

DecidePause(s) ==
  IF s \in Terminal THEN Rejected("already_terminal")
  ELSE Accepted(<<SetDesired("paused"), RequestInterrupt("user_pause"), Await, ClearInterrupt>>)

DecideResume(s) ==
  CASE s \in Terminal -> Rejected("already_terminal")
    [] s = "cancelling" -> Rejected("illegal")
    [] s = "retry_wait" -> Accepted(<<SetDesired("run"), Commit("queued"), Dispatch>>)
    [] OTHER -> Accepted(<<SetDesired("run"), Dispatch>>)

\* Mutant: does not wait for the worker.
DecideCancelNoWait(s) ==
  CASE s \in Terminal -> Rejected("already_terminal")
    [] s = "cancelling" -> Accepted(<<RequestInterrupt("cancel"), Dispatch>>)
    [] OTHER -> Accepted(<<RequestInterrupt("cancel"), Commit("cancelling"), Dispatch>>)

DecideCancel(s) ==
  CASE s \in Terminal -> Rejected("already_terminal")
    [] s = "cancelling" -> Accepted(<<RequestInterrupt("cancel"), Dispatch, Await>>)
    [] OTHER -> Accepted(<<RequestInterrupt("cancel"), Commit("cancelling"), Dispatch, Await>>)

DecideFinalizeCancel(s) ==
  CASE s = "cancelled" -> NoOp
    [] s \in Terminal \ {"cancelled"} -> Rejected("already_terminal")
    [] s = "cancelling" -> Accepted(<<Commit("cancelled"), ClearInterrupt>>)
    [] OTHER -> Accepted(<<Commit("cancelling"), Commit("cancelled"), ClearInterrupt>>)

-----------------------------------------------------------------------------
(* Device observations.  fresh is the version fence: the reading is not    *)
(* older than the newest one the job has already acted on.                 *)

DecideDeviceObserved(s, desired, fresh, readiness) ==
  LET towards(target) == Accepted(<<RecordDeviceVersion>> \o Commits(Route(s, target)))
  IN  CASE ~fresh \/ s \in Terminal \/ s = "cancelling" \/ desired = "paused" -> NoOp
        [] OTHER ->
             CASE s \in Parked -> towards(ParkedTarget(readiness))
               [] s = "preparing" /\ readiness # "ready" -> towards("waiting_for_device")
               [] s = "transferring" /\ readiness = "capture_paused" ->
                    Accepted(<<RecordDeviceVersion, RequestInterrupt("capture_pause")>>)
               [] s = "transferring" /\ readiness \in {"wait_device", "wait_pairing"} ->
                    Accepted(<<RecordDeviceVersion, RequestInterrupt("device_lost")>>)
               [] OTHER -> Accepted(<<RecordDeviceVersion>>)

-----------------------------------------------------------------------------
(* Worker reports: a stage that finished, a failure (by the state it leads *)
(* to), an interrupted transfer or a caught panic.                         *)

Stages == {"prepared", "transfer_complete", "verified", "commit_complete",
           "preparation_failed", "transfer_failed_network", "transfer_failed_retryable",
           "transfer_failed_permanent", "commit_failed_retryable", "commit_failed_permanent"}

ExpectedState(stage) ==
  CASE stage \in {"prepared", "preparation_failed"} -> "preparing"
    [] stage \in {"transfer_complete", "transfer_failed_network",
                  "transfer_failed_retryable", "transfer_failed_permanent"} -> "transferring"
    [] stage = "verified" -> "verifying"
    [] OTHER -> "committing"

StageTarget(stage) ==
  CASE stage = "prepared" -> "transferring"
    [] stage = "transfer_complete" -> "verifying"
    [] stage = "verified" -> "committing"
    [] stage = "commit_complete" -> "succeeded"
    [] stage = "transfer_failed_network" -> "failed_network"
    [] stage \in {"transfer_failed_retryable", "commit_failed_retryable"} -> "failed_retryable"
    [] OTHER -> "failed_permanent"

DecideInterrupted(s, reason) ==
  IF s = "cancelling" /\ reason # "cancel" THEN NoOp
  ELSE IF /\ s # "transferring"
          /\ ~(reason = "cancel" /\ s \in {"committing", "cancelling"})
       THEN Rejected("illegal")
  ELSE CASE reason = "cancel" -> DecideFinalizeCancel(s)
         [] reason = "device_lost" -> Accepted(<<ClearInterrupt, Commit("failed_network")>>)
         [] reason = "capture_pause" ->
              Accepted(<<ClearInterrupt, Commit("paused_capture_active")>>)
         [] reason = "user_pause" -> Accepted(<<ClearInterrupt, Commit("retry_wait")>>)
         [] OTHER -> NoOp

DecideWorkerPanic(s) ==
  IF Route(s, "failed_permanent") # <<>> THEN Accepted(Commits(Route(s, "failed_permanent")))
  ELSE Accepted(<<Commit("cancelling"), Commit("failed_permanent")>>)

Reports == Stages \cup Reasons \cup {"panicked"}

\* Mutant: does not compare the state with the one the report is about.
DecideWorkerUnchecked(s, report) ==
  CASE s \in Terminal -> Rejected("already_terminal")
    [] s \notin Terminal /\ report = "panicked" -> DecideWorkerPanic(s)
    [] s \notin Terminal /\ report \in Reasons -> DecideInterrupted(s, report)
    [] OTHER -> Accepted(<<Commit(StageTarget(report))>>)

DecideWorker(s, report) ==
  CASE s \in Terminal -> Rejected("already_terminal")
    [] s \notin Terminal /\ report = "panicked" -> DecideWorkerPanic(s)
    [] s \notin Terminal /\ report \in Reasons -> DecideInterrupted(s, report)
    [] s = "cancelling" /\ report \in Stages -> NoOp
    [] s \notin Terminal \cup {"cancelling"} /\ report \in Stages /\ s # ExpectedState(report) ->
         Rejected("illegal")
    [] OTHER -> Accepted(<<Commit(StageTarget(report))>>)

=============================================================================
