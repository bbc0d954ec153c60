---------------------------- MODULE Coordinator ----------------------------
(***************************************************************************)
(* The transfer coordinator (transfer/coordinator.rs, queue.rs,            *)
(* scheduler.rs, commit.rs and the target leases of aggregate.rs): worker  *)
(* threads, the dispatcher and user command threads that drive jobs        *)
(* through the reducer of TransferJob.                                     *)
(*                                                                         *)
(* A command decides and performs its effects inside the job's serial      *)
(* section, one effect per step, because workers read the interrupt, the   *)
(* desired run state and the commit control outside that section.  An      *)
(* actor with pending effects has them in todo; pc then says where it goes *)
(* on once they are done.                                                  *)
(*                                                                         *)
(* Versions are only ever compared, so their order is kept in place of     *)
(* the counters.  A device reading is stamped with a version when it is    *)
(* started and dropped if the job has acted on a later one: observing[j]   *)
(* holds the actors whose reading of j is under way and not overtaken,     *)
(* oldest version first.  A commit carries the version of the job it was   *)
(* decided against: outdated holds the actors whose pending commits expect *)
(* a version that another actor's commit has replaced since.               *)
(*                                                                         *)
(* Locals of a thread are reset when they go out of scope.                 *)
(***************************************************************************)
EXTENDS TransferJob, FiniteSets, SequencesExt

CONSTANTS
  Jobs, Workers, Users, Dispatcher, None,
  Targets, TargetOf,      \* the (device, session) directory a job writes to
  Devices, DeviceOf,
  DeviceSnapshots,        \* the snapshots the device port can return
  QueueCapacity,          \* WorkQueue capacity
  Files,                  \* files per job
  Commands,               \* the commands the users may issue
  Budgets                 \* bounds: commands, device changes, faults and panics

ASSUME ActorsAssumption ==
  /\ Workers \cap Users = {}
  /\ Dispatcher \notin Workers \cup Users
  /\ None \notin Workers \cup Users \cup {Dispatcher} \cup Jobs
ASSUME MapsAssumption ==
  /\ TargetOf \in [Jobs -> Targets]
  /\ DeviceOf \in [Jobs -> Devices]
  /\ DeviceSnapshots \subseteq Snapshots
ASSUME BoundsAssumption ==
  /\ QueueCapacity \in Nat \ {0}
  /\ Files \in Nat \ {0}
  /\ Commands \subseteq {"pause", "resume", "cancel"}
  /\ Budgets \subseteq [commands : Nat, changes : Nat, faults : Nat, panics : Nat]

Actors == Workers \cup Users \cup {Dispatcher}

VARIABLES
  state, desired,          \* ManagedJob, equal to the durable row
  serial,                  \* JobCell::serial: the actor inside the section
  active, flag, reason,    \* JobControl
  ctl,                     \* DownloadCommitControl
  published,               \* the canonical bundle is visible in the library
  observing,
  queue,                   \* WorkQueue: scheduled jobs, oldest first
  holder,                  \* TargetLeases
  device,                  \* what DeviceStatusPort would return now
  pc, on,                  \* where each actor is, and for which job
  todo, outdated,          \* effects still to perform, and whose commits are stale
  saw,                     \* what a worker or the dispatcher read of the job
  reading,                 \* readiness of the actor's device reading
  report, left,            \* a worker's next report, its files still to fetch
  commands, changes, faults, panics \* what is left of the budget

jobVars == <<state, desired, ctl, published>>
controlVars == <<active, flag, reason>>
sharedVars == <<queue, holder, device, observing>>
localVars == <<on, saw, reading, report, left>>
budgets == <<commands, changes, faults, panics>>
vars == <<jobVars, controlVars, sharedVars, serial, pc, todo, outdated, localVars, budgets>>

NotSeen == [state |-> "queued", desired |-> "run", active |-> FALSE]

(* What rehydrate leaves in the queue: every job was scheduled when it was *)
(* installed, in some order, until the queue was full.                     *)
Rehydrated(q) ==
  /\ IsInjective(q)
  /\ Len(q) = QueueCapacity \/ Range(q) = Jobs

RaiseFlag == [kind |-> "raise", arg |-> "none"]
LowerReason == [kind |-> "lower", arg |-> "none"]

Init ==
  /\ state = [j \in Jobs |-> "queued"]
  /\ desired = [j \in Jobs |-> "run"]
  /\ serial = [j \in Jobs |-> None]
  /\ active = [j \in Jobs |-> FALSE]
  /\ flag = [j \in Jobs |-> FALSE]
  /\ reason = [j \in Jobs |-> None]
  /\ ctl = [j \in Jobs |-> "cancellable"]
  /\ published = [j \in Jobs |-> FALSE]
  /\ observing = [j \in Jobs |-> <<>>]
  /\ \E n \in 0 .. QueueCapacity : queue \in {q \in [1 .. n -> Jobs] : Rehydrated(q)}
  /\ holder = [t \in Targets |-> None]
  /\ device \in [Devices -> DeviceSnapshots]
  /\ pc = [a \in Actors |-> "idle"]
  /\ on = [a \in Actors |-> None]
  /\ todo = [a \in Actors |-> <<>>]
  /\ outdated = {}
  /\ saw = [a \in Actors |-> NotSeen]
  /\ reading = [a \in Actors |-> "ready"]
  /\ report = [a \in Actors |-> "none"]
  /\ left = [a \in Actors |-> 0]
  /\ \E b \in Budgets : /\ commands = b.commands /\ changes = b.changes
                        /\ faults = b.faults /\ panics = b.panics

-----------------------------------------------------------------------------
(* The work queue: bounded, at most one notification per job.              *)

Scheduled(j) == j \in Range(queue)

Schedule(j) ==
  queue' = IF Scheduled(j) \/ Len(queue) >= QueueCapacity THEN queue ELSE Append(queue, j)

-----------------------------------------------------------------------------
(* The serialized entry point: decide, then perform.                       *)

At(a, p) == pc[a] = p /\ todo[a] = <<>>
Goto(a, p) == pc' = [pc EXCEPT ![a] = p]

(* Where an actor goes on when a command it applied returned an error. *)
OnError(a) ==
  CASE a \in Workers /\ report[a] = "panicked" -> "panic_flag"
    [] a \in Workers /\ report[a] # "panicked" -> "leave"
    [] OTHER -> "idle"

Apply(a, j, decision, ok) ==
  /\ serial[j] = None
  /\ Goto(a, IF decision.outcome \in Refusals THEN OnError(a) ELSE ok)
  /\ todo' = [todo EXCEPT ![a] = decision.effects]
  /\ serial' = [serial EXCEPT ![j] = IF decision.effects = <<>> THEN None ELSE a]
  /\ outdated' = outdated \ {a}

Performing(a, kind) ==
  /\ todo[a] # <<>>
  /\ Head(todo[a]).kind = kind
  /\ serial[on[a]] = a

\* Mutant: lets go of the section after every effect.
ContinueUnlocked(a, rest) ==
  /\ todo' = [todo EXCEPT ![a] = rest]
  /\ serial' = [serial EXCEPT ![on[a]] = None]

(* The section is left at the end of the list and across an await. *)
Continue(a, rest) ==
  /\ todo' = [todo EXCEPT ![a] = rest]
  /\ serial' = IF rest = <<>> \/ Head(rest) = Await
               THEN [serial EXCEPT ![on[a]] = None] ELSE serial

(* An effect that fails ends the command: the rest is not performed. *)
Abort(a) ==
  /\ Goto(a, OnError(a))
  /\ todo' = [todo EXCEPT ![a] = <<>>]
  /\ serial' = [serial EXCEPT ![on[a]] = None]

PerformCommit(a) ==
  LET j == on[a] IN
  /\ Performing(a, "commit")
  /\ a \notin outdated
  /\ state' = [state EXCEPT ![j] = Head(todo[a]).arg]
  /\ outdated' = outdated \cup {b \in Actors \ {a} : on[b] = j /\ todo[b] # <<>>}
  /\ Continue(a, Tail(todo[a]))
  /\ UNCHANGED <<desired, ctl, published, controlVars, sharedVars, pc, localVars, budgets>>

(* A commit decided against a version that is gone, or that the store refuses. *)
CommitFails(a) ==
  /\ Performing(a, "commit")
  /\ a \in outdated \/ faults > 0
  /\ faults' = IF a \in outdated THEN faults ELSE faults - 1
  /\ Abort(a)
  /\ UNCHANGED <<jobVars, controlVars, sharedVars, outdated, localVars, commands, changes, panics>>

PerformDesired(a) ==
  /\ Performing(a, "desired")
  /\ desired' = [desired EXCEPT ![on[a]] = Head(todo[a]).arg]
  /\ Continue(a, Tail(todo[a]))
  /\ UNCHANGED <<state, ctl, published, controlVars, sharedVars, pc, outdated,
                 localVars, budgets>>

DesiredFails(a) ==
  /\ Performing(a, "desired")
  /\ faults > 0
  /\ faults' = faults - 1
  /\ Abort(a)
  /\ UNCHANGED <<jobVars, controlVars, sharedVars, outdated, localVars, commands, changes, panics>>

(* request_cancel first, then the reason, then (PerformRaise) the flag. *)
PerformInterrupt(a) ==
  LET j == on[a]
      why == Head(todo[a]).arg
  IN
  /\ Performing(a, "interrupt")
  /\ ~(why = "cancel" /\ ctl[j] = "irreversible")
  /\ ctl' = IF why = "cancel" THEN [ctl EXCEPT ![j] = "cancel_requested"] ELSE ctl
  /\ reason' = [reason EXCEPT ![j] = why]
  /\ Continue(a, <<RaiseFlag>> \o Tail(todo[a]))
  /\ UNCHANGED <<state, desired, published, active, flag, sharedVars, pc, outdated,
                 localVars, budgets>>

(* The publication owns the outcome: CommitIrreversible. *)
CancelTooLate(a) ==
  /\ Performing(a, "interrupt")
  /\ Head(todo[a]).arg = "cancel"
  /\ ctl[on[a]] = "irreversible"
  /\ Abort(a)
  /\ UNCHANGED <<jobVars, controlVars, sharedVars, outdated, localVars, budgets>>

PerformRaise(a) ==
  /\ Performing(a, "raise")
  /\ flag' = [flag EXCEPT ![on[a]] = TRUE]
  /\ Continue(a, Tail(todo[a]))
  /\ UNCHANGED <<jobVars, active, reason, sharedVars, pc, outdated, localVars, budgets>>

(* clear_interrupt: the flag first, then (PerformLower) the reason. *)
PerformClear(a) ==
  /\ Performing(a, "clear")
  /\ flag' = [flag EXCEPT ![on[a]] = FALSE]
  /\ Continue(a, <<LowerReason>> \o Tail(todo[a]))
  /\ UNCHANGED <<jobVars, active, reason, sharedVars, pc, outdated, localVars, budgets>>

PerformLower(a) ==
  /\ Performing(a, "lower")
  /\ reason' = [reason EXCEPT ![on[a]] = None]
  /\ Continue(a, Tail(todo[a]))
  /\ UNCHANGED <<jobVars, active, flag, sharedVars, pc, outdated, localVars, budgets>>

PerformDispatch(a) ==
  /\ Performing(a, "dispatch")
  /\ Schedule(on[a])
  /\ Continue(a, Tail(todo[a]))
  /\ UNCHANGED <<jobVars, controlVars, holder, device, observing, pc, outdated, localVars, budgets>>

(* The place of a's reading among the readings of j under way. *)
Fresh(a, j) == a \in Range(observing[j])
Place(a, j) == CHOOSE i \in DOMAIN observing[j] : observing[j][i] = a

(* Readings with an older version than a's are overtaken from here on. *)
PerformRecord(a) ==
  /\ Performing(a, "record")
  /\ Fresh(a, on[a])
  /\ observing' = [observing EXCEPT ![on[a]] = SubSeq(@, Place(a, on[a]) + 1, Len(@))]
  /\ Continue(a, Tail(todo[a]))
  /\ UNCHANGED <<jobVars, controlVars, queue, holder, device, pc, outdated, localVars, budgets>>

(* wait_for_inactive: outside the section, until active is seen clear or   *)
(* WORKER_RELEASE_TIMEOUT has passed.                                      *)
Awaiting(a) == todo[a] # <<>> /\ Head(todo[a]) = Await

AwaitDone(a) ==
  /\ Awaiting(a)
  /\ ~active[on[a]]
  /\ todo' = [todo EXCEPT ![a] = Tail(@)]
  /\ UNCHANGED <<jobVars, controlVars, sharedVars, serial, pc, outdated, localVars, budgets>>

AwaitTimeout(a) ==
  /\ Awaiting(a)
  /\ active[on[a]]
  /\ todo' = [todo EXCEPT ![a] = <<>>]
  /\ Goto(a, OnError(a))
  /\ UNCHANGED <<jobVars, controlVars, sharedVars, serial, outdated, localVars, budgets>>

Reenter(a) ==
  /\ todo[a] # <<>>
  /\ Head(todo[a]) # Await
  /\ serial[on[a]] = None
  /\ serial' = [serial EXCEPT ![on[a]] = a]
  /\ UNCHANGED <<jobVars, controlVars, sharedVars, pc, todo, outdated, localVars, budgets>>

-----------------------------------------------------------------------------
(* One versioned device reading: mint the version, read the port, apply.   *)

MintReading(a) ==
  /\ At(a, "mint")
  /\ observing' = [observing EXCEPT ![on[a]] = Append(@, a)]
  /\ Goto(a, "read")
  /\ UNCHANGED <<jobVars, controlVars, queue, holder, device, serial, todo, outdated,
                 localVars, budgets>>

ReadDevice(a) ==
  /\ At(a, "read")
  /\ reading' = [reading EXCEPT ![a] = Readiness(device[DeviceOf[on[a]]])]
  /\ Goto(a, "observe")
  /\ UNCHANGED <<jobVars, controlVars, sharedVars, serial, todo, outdated, on, saw, report, left,
                 budgets>>

ObserveDevice(a) ==
  LET j == on[a]
      decision == DecideDeviceObserved(state[j], desired[j], Fresh(a, j), reading[a])
  IN
  /\ At(a, "observe")
  /\ Apply(a, j, decision, "observed")
  /\ observing' = IF decision = NoOp /\ Fresh(a, j)
                  THEN [observing EXCEPT ![j] = RemoveAt(@, Place(a, j))] ELSE observing
  /\ UNCHANGED <<jobVars, controlVars, queue, holder, device, localVars, budgets>>

-----------------------------------------------------------------------------
(* Worker threads: worker_loop and process_job.                            *)

Claim(w) ==
  /\ At(w, "idle")
  /\ queue # <<>>
  /\ on' = [on EXCEPT ![w] = Head(queue)]
  /\ queue' = Tail(queue)
  /\ Goto(w, "claimed")
  /\ UNCHANGED <<jobVars, controlVars, holder, device, observing, serial, todo, outdated, saw,
                 reading, report, left, budgets>>

\* Mutant: sets active without looking at what it was.
TryClaimBlind(w) ==
  /\ At(w, "claimed")
  /\ active' = [active EXCEPT ![on[w]] = TRUE]
  /\ Goto(w, "lease")
  /\ UNCHANGED <<jobVars, flag, reason, sharedVars, serial, todo, outdated, localVars, budgets>>

TryClaim(w) ==
  /\ At(w, "claimed")
  /\ active' = [active EXCEPT ![on[w]] = TRUE]
  /\ Goto(w, IF active[on[w]] THEN "idle" ELSE "lease")
  /\ on' = IF active[on[w]] THEN [on EXCEPT ![w] = None] ELSE on
  /\ UNCHANGED <<jobVars, flag, reason, sharedVars, serial, todo, outdated, saw, reading, report,
                 left, budgets>>

\* Mutant: a worker that was refused the target gives it back all the same.
AcquireTargetLeaks(w) ==
  LET t == TargetOf[on[w]] IN
  /\ At(w, "lease")
  /\ holder' = IF holder[t] = None THEN [holder EXCEPT ![t] = on[w]] ELSE holder
  /\ Goto(w, IF holder[t] = None THEN "loop" ELSE "leave")
  /\ UNCHANGED <<jobVars, controlVars, queue, device, observing, serial, todo, outdated,
                 localVars, budgets>>

AcquireTarget(w) ==
  LET t == TargetOf[on[w]] IN
  /\ At(w, "lease")
  /\ holder' = IF holder[t] = None THEN [holder EXCEPT ![t] = on[w]] ELSE holder
  /\ Goto(w, IF holder[t] = None THEN "loop" ELSE "release")
  /\ UNCHANGED <<jobVars, controlVars, queue, device, observing, serial, todo, outdated,
                 localVars, budgets>>

\* Mutant: has no arm for a job that is being cancelled.
ArmForgetsCancelling(s, d) ==
  CASE s \in Parked -> IF d = "paused" THEN "leave" ELSE "mint"
    [] s = "preparing" -> "verify"
    [] s = "transferring" -> "precheck_flag"
    [] s = "verifying" -> "report"
    [] s = "committing" -> "export"
    [] OTHER -> "leave"

(* The top of process_job's loop: read the state, take its arm. *)
Arm(s, d) ==
  CASE s \in Parked -> IF d = "paused" THEN "leave" ELSE "mint"
    [] s = "preparing" -> "verify"
    [] s = "transferring" -> "precheck_flag"
    [] s = "verifying" -> "report"
    [] s = "committing" -> "export"
    [] s = "cancelling" -> "unwind_flag"
    [] OTHER -> "leave"

ReadJob(w) ==
  LET s == state[on[w]] IN
  /\ At(w, "loop")
  /\ saw' = [saw EXCEPT ![w].state = s]
  /\ report' = [report EXCEPT ![w] = CASE s = "verifying" -> "verified"
                                       [] s = "cancelling" -> "cancel"
                                       [] OTHER -> "none"]
  /\ left' = [left EXCEPT ![w] = IF s = "transferring" THEN Files ELSE 0]
  /\ Goto(w, Arm(s, desired[on[w]]))
  /\ UNCHANGED <<jobVars, controlVars, sharedVars, serial, todo, outdated, on, reading, budgets>>

ForgetReading(a) ==
  /\ saw' = [saw EXCEPT ![a] = NotSeen]
  /\ reading' = [reading EXCEPT ![a] = "ready"]

(* A job just parked for its device gets one follow-up notification. *)
WorkerObserved(w) ==
  /\ At(w, "observed")
  /\ IF saw[w].state \in {"queued", "retry_wait"} /\ reading[w] \in {"wait_device", "wait_pairing"}
     THEN Schedule(on[w]) ELSE UNCHANGED queue
  /\ Goto(w, IF reading[w] = "ready" THEN "loop" ELSE "leave")
  /\ ForgetReading(w)
  /\ UNCHANGED <<jobVars, controlVars, holder, device, observing, serial, todo, outdated, on,
                 report, left, budgets>>

(* The next thing w reports, and the step it takes before that. *)
Conclude(w, what, next) ==
  /\ report' = [report EXCEPT ![w] = what]
  /\ Goto(w, next)
  /\ UNCHANGED <<controlVars, sharedVars, serial, todo, outdated, on, saw, reading>>

VerifyPublication(w) ==
  /\ At(w, "verify")
  /\ \E what \in {"prepared", "preparation_failed"} : Conclude(w, what, "report")
  /\ UNCHANGED <<jobVars, left, budgets>>

(* run_transfer: before each file the interrupt flag is tested, then the   *)
(* desired run state and the device; while it is read only the flag is.    *)
TestFlag(w) ==
  /\ At(w, "precheck_flag")
  /\ Goto(w, IF flag[on[w]] THEN "unwound" ELSE "precheck")
  /\ UNCHANGED <<jobVars, controlVars, sharedVars, serial, todo, outdated, localVars, budgets>>

TestFile(w) ==
  LET r == Readiness(device[DeviceOf[on[w]]]) IN
  /\ At(w, "precheck")
  /\ CASE desired[on[w]] = "paused" -> Conclude(w, "user_pause", "unwind_flag")
       [] desired[on[w]] # "paused" /\ r = "ready" -> Conclude(w, "none", "fetch")
       [] desired[on[w]] # "paused" /\ r = "capture_paused" ->
            Conclude(w, "capture_pause", "unwind_flag")
       [] OTHER -> Conclude(w, "device_lost", "unwind_flag")
  /\ UNCHANGED <<jobVars, left, budgets>>

FetchInterrupted(w) ==
  /\ At(w, "fetch")
  /\ flag[on[w]]
  /\ Goto(w, "unwound")
  /\ UNCHANGED <<jobVars, controlVars, sharedVars, serial, todo, outdated, localVars, budgets>>

\* Mutant: goes round once more after the last file.
FetchFileOffByOne(w) ==
  /\ At(w, "fetch")
  /\ left' = [left EXCEPT ![w] = @ - 1]
  /\ IF left[w] = 0 THEN Conclude(w, "transfer_complete", "report")
                    ELSE Conclude(w, "none", "precheck_flag")
  /\ UNCHANGED <<jobVars, budgets>>

FetchFile(w) ==
  /\ At(w, "fetch")
  /\ left' = [left EXCEPT ![w] = @ - 1]
  /\ IF left[w] = 1 THEN Conclude(w, "transfer_complete", "report")
                    ELSE Conclude(w, "none", "precheck_flag")
  /\ UNCHANGED <<jobVars, budgets>>

(* Preparing the staging directory may fail before the first file does. *)
FetchFails(w) ==
  /\ \/ At(w, "fetch")
     \/ At(w, "precheck_flag") /\ left[w] = Files
  /\ \E what \in {"transfer_failed_network", "transfer_failed_retryable",
                  "transfer_failed_permanent"} : Conclude(w, what, "report")
  /\ UNCHANGED <<jobVars, left, budgets>>

(* interrupt_outcome: the reason as it is now; no reason reads as a cancel. *)
ReadReason(w) ==
  /\ At(w, "unwound")
  /\ Conclude(w, IF reason[on[w]] = None THEN "cancel" ELSE reason[on[w]], "unwind_flag")
  /\ UNCHANGED <<jobVars, left, budgets>>

(* The worker's own clear_interrupt, outside the serial section. *)
UnwindFlag(w) ==
  /\ At(w, "unwind_flag") \/ At(w, "panic_flag")
  /\ flag' = [flag EXCEPT ![on[w]] = FALSE]
  /\ Goto(w, IF pc[w] = "unwind_flag" THEN "unwind_reason" ELSE "panic_reason")
  /\ UNCHANGED <<jobVars, active, reason, sharedVars, serial, todo, outdated, localVars, budgets>>

UnwindReason(w) ==
  /\ At(w, "unwind_reason") \/ At(w, "panic_reason")
  /\ reason' = [reason EXCEPT ![on[w]] = None]
  /\ Goto(w, CASE pc[w] = "panic_reason" -> "release"
               [] pc[w] # "panic_reason" /\ report[w] = "device_lost" -> "reread"
               [] OTHER -> "report")
  /\ UNCHANGED <<jobVars, active, flag, sharedVars, serial, todo, outdated, localVars, budgets>>

(* NotReady asks the device once more which interruption this was. *)
RereadDevice(w) ==
  /\ At(w, "reread")
  /\ Conclude(w, IF Readiness(device[DeviceOf[on[w]]]) = "capture_paused"
                 THEN "capture_pause" ELSE "device_lost", "report")
  /\ UNCHANGED <<jobVars, left, budgets>>

(* The commit port: everything before begin_irreversible is cancellable. *)
ExportFails(w) ==
  /\ At(w, "export")
  /\ \E what \in {"commit_failed_retryable", "commit_failed_permanent"} :
       Conclude(w, what, "report")
  /\ UNCHANGED <<jobVars, left, budgets>>

\* Mutant: publishes although a cancellation has been requested.
BeginIrreversibleUnchecked(w) ==
  /\ At(w, "export")
  /\ Conclude(w, "none", "publish")
  /\ ctl' = [ctl EXCEPT ![on[w]] = "irreversible"]
  /\ UNCHANGED <<state, desired, published, left, budgets>>

BeginIrreversible(w) ==
  /\ At(w, "export")
  /\ IF ctl[on[w]] = "cancel_requested"
     THEN /\ Conclude(w, "commit_failed_permanent", "report")
          /\ UNCHANGED ctl
     ELSE /\ Conclude(w, "none", "publish")
          /\ ctl' = [ctl EXCEPT ![on[w]] = "irreversible"]
  /\ UNCHANGED <<state, desired, published, left, budgets>>

(* The visible rename may fail, and cleaning up may fail after it. *)
Publish(w) ==
  /\ At(w, "publish")
  /\ \/ /\ published' = [published EXCEPT ![on[w]] = TRUE]
        /\ \E what \in {"commit_complete", "commit_failed_retryable"} :
             Conclude(w, what, "report")
     \/ /\ UNCHANGED published
        /\ \E what \in {"commit_failed_retryable", "commit_failed_permanent"} :
             Conclude(w, what, "report")
  /\ UNCHANGED <<state, desired, ctl, left, budgets>>

(* A report that finished a stage loops; any other one leaves process_job. *)
AfterReport(what) ==
  CASE what \in {"prepared", "transfer_complete", "verified"} -> "loop"
    [] what = "panicked" -> "panic_flag"
    [] OTHER -> "leave"

Report(w) ==
  /\ At(w, "report")
  /\ Apply(w, on[w], DecideWorker(state[on[w]], report[w]), AfterReport(report[w]))
  /\ UNCHANGED <<jobVars, controlVars, sharedVars, localVars, budgets>>

(* A panic in a stage unwinds process_job (dropping the target lease) and  *)
(* is reported while the worker still owns the job.                        *)
Panic(w) ==
  /\ \E p \in {"verify", "fetch", "export", "publish"} : At(w, p)
  /\ panics > 0
  /\ panics' = panics - 1
  /\ holder' = [holder EXCEPT ![TargetOf[on[w]]] = None]
  /\ report' = [report EXCEPT ![w] = "panicked"]
  /\ Goto(w, "report")
  /\ UNCHANGED <<jobVars, controlVars, queue, device, observing, serial, todo, outdated, on, saw,
                 reading, left, commands, changes, faults>>

LeaveTarget(w) ==
  /\ At(w, "leave")
  /\ holder' = [holder EXCEPT ![TargetOf[on[w]]] = None]
  /\ Goto(w, "release")
  /\ UNCHANGED <<jobVars, controlVars, queue, device, observing, serial, todo, outdated,
                 localVars, budgets>>

\* Mutant: the job stays active when its worker lets go of it.
ReleaseJobKeepsActive(w) ==
  /\ At(w, "release")
  /\ Goto(w, "idle")
  /\ on' = [on EXCEPT ![w] = None]
  /\ report' = [report EXCEPT ![w] = "none"]
  /\ left' = [left EXCEPT ![w] = 0]
  /\ ForgetReading(w)
  /\ UNCHANGED <<jobVars, controlVars, sharedVars, serial, todo, outdated, budgets>>

ReleaseJob(w) ==
  /\ At(w, "release")
  /\ active' = [active EXCEPT ![on[w]] = FALSE]
  /\ Goto(w, "idle")
  /\ on' = [on EXCEPT ![w] = None]
  /\ report' = [report EXCEPT ![w] = "none"]
  /\ left' = [left EXCEPT ![w] = 0]
  /\ ForgetReading(w)
  /\ UNCHANGED <<jobVars, flag, reason, sharedVars, serial, todo, outdated, budgets>>

-----------------------------------------------------------------------------
(* The dispatcher: tick, one job at a time.                                *)

TickRead(j) ==
  /\ At(Dispatcher, "idle")
  /\ state[j] \notin Terminal
  /\ on' = [on EXCEPT ![Dispatcher] = j]
  /\ saw' = [saw EXCEPT ![Dispatcher].state = state[j], ![Dispatcher].desired = desired[j]]
  /\ Goto(Dispatcher, "check")
  /\ UNCHANGED <<jobVars, controlVars, sharedVars, serial, todo, outdated, reading, report, left,
                 budgets>>

(* Jobs whose target another job holds, and queued jobs already on their   *)
(* way to a worker, are left alone.                                        *)
TickCheck ==
  LET d == Dispatcher
      j == on[d]
      skip == \/ holder[TargetOf[j]] \notin {None, j}
              \/ saw[d].state = "queued" /\ (Scheduled(j) \/ active[j])
  IN
  /\ At(d, "check")
  /\ saw' = [saw EXCEPT ![d] = IF skip THEN NotSeen ELSE @]
  /\ Goto(d, IF skip THEN "idle" ELSE "probe")
  /\ UNCHANGED <<jobVars, controlVars, sharedVars, serial, todo, outdated, on, reading, report, left,
                 budgets>>

\* Mutant: parked jobs are not looked at again.
TickProbeNotParked ==
  LET d == Dispatcher
      j == on[d]
      skip == ~active[j] /\ (saw[d].desired = "paused" \/ saw[d].state \in Parked \ {"queued"})
      observe == active[j] \/ saw[d].state = "queued"
  IN
  /\ At(d, "probe")
  /\ saw' = [saw EXCEPT ![d] = IF ~skip /\ observe THEN [@ EXCEPT !.active = active[j]] ELSE NotSeen]
  /\ IF ~skip /\ ~observe THEN Schedule(j) ELSE UNCHANGED queue
  /\ Goto(d, IF ~skip /\ observe THEN "mint" ELSE "idle")
  /\ UNCHANGED <<jobVars, controlVars, holder, device, observing, serial, todo, outdated, on,
                 reading, report, left, budgets>>

(* An active job is observed for its worker's sake; an inactive one is     *)
(* observed if it is parked and offered to the workers if it is not.       *)
TickProbe ==
  LET d == Dispatcher
      j == on[d]
      skip == ~active[j] /\ saw[d].desired = "paused"
      observe == active[j] \/ saw[d].state \in Parked
  IN
  /\ At(d, "probe")
  /\ saw' = [saw EXCEPT ![d] = IF ~skip /\ observe THEN [@ EXCEPT !.active = active[j]] ELSE NotSeen]
  /\ IF ~skip /\ ~observe THEN Schedule(j) ELSE UNCHANGED queue
  /\ Goto(d, IF ~skip /\ observe THEN "mint" ELSE "idle")
  /\ UNCHANGED <<jobVars, controlVars, holder, device, observing, serial, todo, outdated, on,
                 reading, report, left, budgets>>

TickObserved ==
  LET d == Dispatcher IN
  /\ At(d, "observed")
  /\ IF ~saw[d].active /\ reading[d] = "ready" THEN Schedule(on[d]) ELSE UNCHANGED queue
  /\ Goto(d, "idle")
  /\ ForgetReading(d)
  /\ UNCHANGED <<jobVars, controlVars, holder, device, observing, serial, todo, outdated, on,
                 report, left, budgets>>

-----------------------------------------------------------------------------
(* User threads: pause, resume, cancel.                                    *)

Issue(u, j, command) ==
  /\ At(u, "idle")
  /\ command \in Commands
  /\ commands > 0
  /\ commands' = commands - 1
  /\ on' = [on EXCEPT ![u] = j]
  /\ UNCHANGED <<jobVars, controlVars, sharedVars, saw, reading, report, left, changes, faults,
                 panics>>

Pause(u, j) == Issue(u, j, "pause") /\ Apply(u, j, DecidePause(state[j]), "idle")

Resume(u, j) == Issue(u, j, "resume") /\ Apply(u, j, DecideResume(state[j]), "idle")

(* Cancelling a job that is already cancelled is a success. *)
Cancel(u, j) ==
  /\ Issue(u, j, "cancel")
  /\ IF state[j] = "cancelled"
     THEN serial[j] = None /\ Goto(u, "cancel_ok") /\ UNCHANGED <<serial, todo, outdated>>
     ELSE Apply(u, j, DecideCancel(state[j]), "finalize")

FinalizeCancel(u) ==
  /\ At(u, "finalize")
  /\ Apply(u, on[u], DecideFinalizeCancel(state[on[u]]), "cancel_ok")
  /\ UNCHANGED <<jobVars, controlVars, sharedVars, localVars, budgets>>

CancelReturns(u) ==
  /\ At(u, "cancel_ok")
  /\ Goto(u, "idle")
  /\ UNCHANGED <<jobVars, controlVars, sharedVars, serial, todo, outdated, localVars, budgets>>

-----------------------------------------------------------------------------
DeviceChanges(d) ==
  /\ changes > 0
  /\ changes' = changes - 1
  /\ \E s \in DeviceSnapshots \ {device[d]} : device' = [device EXCEPT ![d] = s]
  /\ UNCHANGED <<jobVars, controlVars, queue, holder, observing, serial, pc, todo, outdated,
                 localVars, commands, faults, panics>>

(* Nothing is left to do: every job is terminal and every thread idle. *)
Quiescent ==
  /\ \A j \in Jobs : state[j] \in Terminal
  /\ \A a \in Actors : At(a, "idle")
  /\ UNCHANGED vars

Perform(a) ==
  \/ PerformCommit(a) \/ PerformDesired(a) \/ PerformInterrupt(a) \/ CancelTooLate(a)
  \/ PerformRaise(a) \/ PerformClear(a) \/ PerformLower(a) \/ PerformDispatch(a)
  \/ PerformRecord(a) \/ AwaitDone(a) \/ Reenter(a)

Fails(a) == CommitFails(a) \/ DesiredFails(a) \/ AwaitTimeout(a)

Observe(a) == MintReading(a) \/ ReadDevice(a) \/ ObserveDevice(a)

WorkerRuns(w) ==
  \/ Claim(w) \/ TryClaim(w) \/ AcquireTarget(w) \/ ReadJob(w) \/ WorkerObserved(w)
  \/ VerifyPublication(w) \/ TestFlag(w) \/ TestFile(w) \/ FetchInterrupted(w) \/ FetchFile(w)
  \/ ReadReason(w) \/ UnwindFlag(w) \/ UnwindReason(w) \/ RereadDevice(w)
  \/ BeginIrreversible(w) \/ Publish(w) \/ Report(w) \/ LeaveTarget(w) \/ ReleaseJob(w)

WorkerBreaks(w) == FetchFails(w) \/ ExportFails(w) \/ Panic(w)

DispatcherRuns == (\E j \in Jobs : TickRead(j)) \/ TickCheck \/ TickProbe \/ TickObserved

UserRuns(u) == FinalizeCancel(u) \/ CancelReturns(u)

UserIssues(u) == \E j \in Jobs : Pause(u, j) \/ Resume(u, j) \/ Cancel(u, j)

Next ==
  \/ \E a \in Actors : Perform(a) \/ Fails(a) \/ Observe(a)
  \/ \E w \in Workers : WorkerRuns(w) \/ WorkerBreaks(w)
  \/ DispatcherRuns
  \/ \E u \in Users : UserRuns(u) \/ UserIssues(u)
  \/ \E d \in Devices : DeviceChanges(d)
  \/ Quiescent

Spec == Init /\ [][Next]_vars

(* Fairness.  Every thread keeps running; the dispatcher ticks for ever,   *)
(* and each tick goes through all the jobs.                                *)
(* A thread that waits for a serial section or for active to clear waits   *)
(* at most for other threads that leave it in turn: a dispatcher that      *)
(* sleeps between ticks cannot pass it over for ever, hence the strong     *)
(* fairness.  No failure, timeout or user command is fair.                 *)
Runs(a) ==
  \/ Perform(a) \/ Observe(a)
  \/ a \in Workers /\ WorkerRuns(a)
  \/ a \in Users /\ UserRuns(a)
  \/ a = Dispatcher /\ DispatcherRuns

Waits(a) ==
  \/ Reenter(a) \/ ObserveDevice(a) \/ AwaitDone(a)
  \/ a \in Workers /\ Report(a)
  \/ a \in Users /\ FinalizeCancel(a)

Fairness ==
  /\ \A a \in Actors : WF_vars(Runs(a))
  /\ \A a \in Workers \cup Users : SF_vars(Waits(a))
  /\ \A j \in Jobs : SF_vars(TickRead(j))

FairSpec == Spec /\ Fairness

-----------------------------------------------------------------------------
(* Properties.                                                             *)

Effects ==
  UNION { [kind : {"commit"}, arg : States],
          [kind : {"desired"}, arg : Desires],
          [kind : {"interrupt"}, arg : Reasons],
          [kind : {"clear", "await", "dispatch", "record", "raise", "lower"}, arg : {"none"}] }

Pcs == {"idle", "claimed", "lease", "loop", "mint", "read", "observe", "observed", "verify",
        "precheck_flag", "precheck", "fetch", "unwound", "unwind_flag", "unwind_reason", "reread",
        "export", "publish", "report", "panic_flag", "panic_reason", "leave", "release",
        "check", "probe", "finalize", "cancel_ok"}

(* Every variable keeps the type its field has in the code. *)
TypeOK ==
  /\ state \in [Jobs -> States]
  /\ desired \in [Jobs -> Desires]
  /\ serial \in [Jobs -> Actors \cup {None}]
  /\ active \in [Jobs -> BOOLEAN]
  /\ flag \in [Jobs -> BOOLEAN]
  /\ reason \in [Jobs -> Reasons \cup {None}]
  /\ ctl \in [Jobs -> {"cancellable", "cancel_requested", "irreversible"}]
  /\ published \in [Jobs -> BOOLEAN]
  /\ observing \in [Jobs -> Seq(Actors)]
  /\ queue \in Seq(Jobs)
  /\ holder \in [Targets -> Jobs \cup {None}]
  /\ device \in [Devices -> Snapshots]
  /\ pc \in [Actors -> Pcs]
  /\ on \in [Actors -> Jobs \cup {None}]
  /\ todo \in [Actors -> Seq(Effects)]
  /\ outdated \subseteq Actors
  /\ saw \in [Actors -> [state : States, desired : Desires, active : BOOLEAN]]
  /\ reading \in [Actors -> Readinesses]
  /\ report \in [Actors -> Reports \cup {"none"}]
  /\ left \in [Actors -> Nat]
  /\ commands \in Nat /\ changes \in Nat /\ faults \in Nat /\ panics \in Nat

Owning == Pcs \ {"idle", "claimed"}
Writing == {"fetch", "export", "publish"}

(* A job is driven by one worker at a time, however often it is scheduled  *)
(* (JobControl::try_claim).                                                *)
OneWorkerPerJob ==
  \A v, w \in Workers :
    v # w /\ pc[v] \in Owning /\ pc[w] \in Owning => on[v] # on[w]

(* Two jobs with the same target directory never write it at the same time *)
(* (TargetLeases), retries and panics included.                            *)
OneWriterPerTarget ==
  \A v, w \in Workers :
    v # w /\ pc[v] \in Writing /\ pc[w] \in Writing => TargetOf[on[v]] # TargetOf[on[w]]

(* A cancelled job has no worker left with a file of it open ("cancel()    *)
(* never observes cancelled with a dangling handle still open").           *)
CancelledIsClosed ==
  \A j \in Jobs : state[j] = "cancelled" =>
    \A w \in Workers : on[w] = j => pc[w] \notin Writing

(* Either the cancellation prevents the publication or the publication     *)
(* owns the outcome (DownloadCommitControl): what is visible in the        *)
(* library is never a cancelled job, not even one being cancelled.         *)
PublishedNeverCancelled ==
  \A j \in Jobs : published[j] => state[j] \notin {"cancelling", "cancelled"}

(* The version a decision was made against is still the job's version when *)
(* the decision is committed: Stale is never the outcome of a race.        *)
CommitsAreCurrent ==
  \A a \in Actors : Performing(a, "commit") => a \notin outdated

(* A state changes only along an edge of the one graph; in particular no   *)
(* step of any actor leaves a terminal state.                              *)
LegalTransitions ==
  [][\A j \in Jobs : state'[j] # state[j] => IsLegalTransition(state[j], state'[j])]_vars

(* Only a job somebody asked to cancel ends up cancelled. *)
CancelledOnlyIfRequested ==
  \A j \in Jobs : state[j] = "cancelled" => ctl[j] = "cancel_requested"

(* A transfer still running in a cancelling job has been asked to unwind.  *)
CancelReachesWorker ==
  \A j \in Jobs : state[j] = "cancelling" /\ serial[j] = None =>
    \A w \in Workers : pc[w] = "fetch" /\ on[w] = j => flag[j]

(* A job the user wants to run, on a device that stays ready, finishes,    *)
(* whatever notifications, readings and interrupts were lost on the way.   *)
JobsFinish ==
  \A j \in Jobs :
    <>[](desired[j] = "run" /\ Readiness(device[DeviceOf[j]]) = "ready")
      => <>(state[j] \in Terminal)

(* A command that waits for the worker to let go of a job returns without  *)
(* the help of its timeout: nobody holds what the other waits for.         *)
CommandsReturn ==
  \A u \in Users : todo[u] # <<>> ~> todo[u] = <<>>

(* A cancellation that has begun ends. *)
CancellingEnds ==
  \A j \in Jobs : state[j] = "cancelling" ~> state[j] \in Terminal

=============================================================================
