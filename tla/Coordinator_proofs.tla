------------------------ MODULE Coordinator_proofs ------------------------
(***************************************************************************)
(* Proofs about Coordinator, for every number of jobs, workers, users,     *)
(* devices and target directories and every bound.  The first part is the  *)
(* ownership of jobs and directories.  The second is how a job reaches its *)
(* outcome: commits are made by their author alone, along the one graph of *)
(* states; a job whose publication has begun is not cancelled; a cancelled *)
(* one has no file open.                                                   *)
(***************************************************************************)
EXTENDS Coordinator, TLAPS

-----------------------------------------------------------------------------
(* What the reducer returns.                                               *)

Outcomes == {"accepted", "no_op"} \cup Refusals
Decisions == [outcome : Outcomes, effects : Seq(Effects)]

(* Every effect the decisions use is an effect. *)
LEMMA EffectTypes ==
  /\ \A s \in States : Commit(s) \in Effects
  /\ \A d \in Desires : SetDesired(d) \in Effects
  /\ \A r \in Reasons : RequestInterrupt(r) \in Effects
  /\ {ClearInterrupt, Await, Dispatch, RecordDeviceVersion, RaiseFlag, LowerReason} \subseteq Effects
BY DEF Effects, Commit, SetDesired, RequestInterrupt, ClearInterrupt, Await, Dispatch,
       RecordDeviceVersion, RaiseFlag, LowerReason

(* The commits of a route are a list of effects. *)
LEMMA RouteType ==
  ASSUME NEW s, NEW target \in States
  PROVE  Commits(Route(s, target)) \in Seq(Effects)
<1>1. Route(s, target) = <<target>> \/ Route(s, target) = <<"queued", target>> \/ Route(s, target) = <<>>
  BY DEF Route, IsLegalTransition
<1>2. "queued" \in States
  BY DEF States, Parked
<1>3. <<target>> \in Seq(States) /\ <<"queued", target>> \in Seq(States) /\ <<>> \in Seq(States)
  BY <1>2
<1>4. Route(s, target) \in Seq(States)
  BY <1>1, <1>3
<1> QED
  BY <1>4, EffectTypes DEF Commits

(* The commands decide on lists of effects. *)
LEMMA DecisionTypes ==
  ASSUME NEW s \in States
  PROVE  /\ DecidePause(s) \in Decisions
         /\ DecideResume(s) \in Decisions
         /\ DecideCancel(s) \in Decisions
         /\ DecideFinalizeCancel(s) \in Decisions
<1> USE EffectTypes
<1>1. {"queued", "cancelling", "cancelled"} \subseteq States
  BY DEF States, Parked, Terminal
<1>2. DecidePause(s) \in Decisions
  BY DEF DecidePause, Decisions, Accepted, Rejected, Outcomes, Refusals, Desires, Reasons
<1>3. DecideResume(s) \in Decisions
  BY <1>1 DEF DecideResume, Decisions, Accepted, Rejected, Outcomes, Refusals, Desires
<1>4. DecideCancel(s) \in Decisions
  BY <1>1 DEF DecideCancel, Decisions, Accepted, Rejected, Outcomes, Refusals, Reasons
<1>5. DecideFinalizeCancel(s) \in Decisions
  BY <1>1 DEF DecideFinalizeCancel, Decisions, Accepted, Rejected, NoOp, Outcomes, Refusals
<1> QED
  BY <1>2, <1>3, <1>4, <1>5

(* So does a device observation. *)
LEMMA ObservationTypes ==
  ASSUME NEW s \in States, NEW d, NEW fresh, NEW readiness
  PROVE  DecideDeviceObserved(s, d, fresh, readiness) \in Decisions
<1> DEFINE towards(target) == Accepted(<<RecordDeviceVersion>> \o Commits(Route(s, target)))
<1>1. ASSUME NEW target \in States PROVE towards(target) \in Decisions
  <2>1. <<RecordDeviceVersion>> \in Seq(Effects) /\ Commits(Route(s, target)) \in Seq(Effects)
    BY EffectTypes, RouteType
  <2> QED
    BY <2>1 DEF Decisions, Accepted, Outcomes
<1>2. ParkedTarget(readiness) \in States /\ "waiting_for_device" \in States
  BY DEF ParkedTarget, States, Parked
<1>3. NoOp \in Decisions /\ Accepted(<<RecordDeviceVersion>>) \in Decisions
  BY EffectTypes DEF NoOp, Accepted, Decisions, Outcomes
<1>4. /\ Accepted(<<RecordDeviceVersion, RequestInterrupt("capture_pause")>>) \in Decisions
      /\ Accepted(<<RecordDeviceVersion, RequestInterrupt("device_lost")>>) \in Decisions
  BY EffectTypes DEF Accepted, Decisions, Outcomes, Reasons
<1>5. towards(ParkedTarget(readiness)) \in Decisions /\ towards("waiting_for_device") \in Decisions
  BY <1>1, <1>2
<1> QED
  BY <1>3, <1>4, <1>5 DEF DecideDeviceObserved

(* So does a worker's report. *)
LEMMA WorkerTypes ==
  ASSUME NEW s \in States, NEW what
  PROVE  DecideWorker(s, what) \in Decisions
<1>1. {"cancelling", "cancelled", "failed_network", "failed_permanent", "paused_capture_active",
       "retry_wait"} \subseteq States
  BY DEF States, Parked, Terminal, Failed
<1>2. StageTarget(what) \in States
  BY DEF StageTarget, States, Terminal, Failed
<1>3. DecideWorkerPanic(s) \in Decisions
  BY <1>1, RouteType, EffectTypes DEF DecideWorkerPanic, Decisions, Accepted, Outcomes
<1>4. DecideInterrupted(s, what) \in Decisions
  BY <1>1, DecisionTypes, EffectTypes
     DEF DecideInterrupted, Decisions, Accepted, Rejected, NoOp, Outcomes, Refusals
<1>5. Accepted(<<Commit(StageTarget(what))>>) \in Decisions
  BY <1>2, EffectTypes DEF Decisions, Accepted, Outcomes
<1>6. NoOp \in Decisions /\ \A why \in Refusals : Rejected(why) \in Decisions
  BY DEF NoOp, Rejected, Decisions, Outcomes
<1> QED
  BY <1>3, <1>4, <1>5, <1>6 DEF DecideWorker, Refusals

-----------------------------------------------------------------------------
(* Type correctness.                                                       *)

(* An actor with something to do has a job. *)
Engaged == \A a \in Actors : pc[a] # "idle" \/ todo[a] # <<>> => on[a] \in Jobs

(* A worker inside the file loop has a file left. *)
FilesLeft == \A w \in Workers : pc[w] \in {"precheck_flag", "precheck", "fetch"} => left[w] > 0

TypeInv == TypeOK /\ Engaged /\ FilesLeft

(* Where an actor goes when an effect fails. *)
LEMMA OnErrorType ==
  ASSUME NEW a PROVE OnError(a) \in {"panic_flag", "leave", "idle"}
BY DEF OnError

(* Entering a serial section keeps the types of what it writes. *)
LEMMA ApplyTypes ==
  ASSUME TypeOK, NEW a \in Actors, NEW j, NEW decision \in Decisions, NEW ok \in Pcs,
         Apply(a, j, decision, ok)
  PROVE  /\ pc' \in [Actors -> Pcs]
         /\ todo' \in [Actors -> Seq(Effects)]
         /\ serial' \in [Jobs -> Actors \cup {None}]
         /\ outdated' \subseteq Actors
<1>1. OnError(a) \in Pcs
  BY OnErrorType DEF Pcs
<1> QED
  BY <1>1 DEF Apply, Goto, TypeOK, Decisions

(* So does going on to the next effect. *)
LEMMA ContinueTypes ==
  ASSUME TypeOK, NEW a \in Actors, NEW rest \in Seq(Effects), Continue(a, rest)
  PROVE  todo' \in [Actors -> Seq(Effects)] /\ serial' \in [Jobs -> Actors \cup {None}]
BY DEF Continue, TypeOK

(* So does giving the section up. *)
LEMMA AbortTypes ==
  ASSUME TypeOK, NEW a \in Actors, Abort(a)
  PROVE  /\ pc' \in [Actors -> Pcs]
         /\ todo' \in [Actors -> Seq(Effects)]
         /\ serial' \in [Jobs -> Actors \cup {None}]
<1>1. OnError(a) \in Pcs /\ <<>> \in Seq(Effects)
  BY OnErrorType DEF Pcs
<1> QED
  BY <1>1 DEF Abort, Goto, TypeOK

(* A scheduled job joins a queue of jobs, or nothing happens. *)
LEMMA ScheduleType ==
  ASSUME TypeOK, NEW j \in Jobs, Schedule(j)
  PROVE  queue' \in Seq(Jobs)
BY DEF Schedule, TypeOK

(* The next effect of a list that is not empty, and the rest of the list. *)
LEMMA NextEffect ==
  ASSUME TypeOK, NEW a \in Actors, todo[a] # <<>>
  PROVE  /\ Tail(todo[a]) \in Seq(Effects)
         /\ Head(todo[a]).kind = "commit" => Head(todo[a]).arg \in States
         /\ Head(todo[a]).kind = "desired" => Head(todo[a]).arg \in Desires
         /\ Head(todo[a]).kind = "interrupt" => Head(todo[a]).arg \in Reasons
<1>1. todo[a] \in Seq(Effects)
  BY DEF TypeOK
<1>2. Head(todo[a]) \in Effects /\ Tail(todo[a]) \in Seq(Effects)
  BY <1>1
<1> QED
  BY <1>2 DEF Effects

(* An actor that observes a job freshly has a place among its observers. *)
LEMMA PlaceType ==
  ASSUME TypeOK, NEW a, NEW j \in Jobs, Fresh(a, j)
  PROVE  Place(a, j) \in 1..Len(observing[j]) /\ observing[j][Place(a, j)] = a
<1>1. observing[j] \in Seq(Actors) /\ DOMAIN observing[j] = 1..Len(observing[j])
  BY DEF TypeOK
<1>2. \E i \in DOMAIN observing[j] : observing[j][i] = a
  BY DEF Fresh, Range
<1> QED
  BY <1>1, <1>2 DEF Place

(* An actor that stays where it is, or gives up, keeps its place. *)
LEMMA StepsOn ==
  ASSUME TypeInv, NEW a \in Actors, todo[a] # <<>>, NEW rest,
         todo' = [todo EXCEPT ![a] = rest], UNCHANGED <<on, left>>,
         UNCHANGED pc \/ Goto(a, OnError(a))
  PROVE  Engaged' /\ FilesLeft'
BY OnErrorType DEF TypeInv, TypeOK, Engaged, FilesLeft, Goto, Actors

(* Performing one effect, or failing at it, keeps the types. *)
LEMMA PerformTypes ==
  ASSUME TypeInv, NEW a \in Actors, Perform(a) \/ Fails(a)
  PROVE  TypeInv'
<1> USE DEF TypeInv, jobVars, controlVars, sharedVars, localVars, budgets
<1>1. CASE PerformCommit(a)
  <2>1. Continue(a, Tail(todo[a])) /\ Tail(todo[a]) \in Seq(Effects) /\ Head(todo[a]).arg \in States
    BY <1>1, NextEffect DEF PerformCommit, Performing
  <2> QED
    BY <1>1, <2>1, ContinueTypes, StepsOn DEF PerformCommit, Performing, Continue, TypeOK
<1>2. CASE CommitFails(a)
  <2>1. faults' \in Nat
    BY <1>2 DEF CommitFails, TypeOK
  <2> QED
    BY <1>2, <2>1, AbortTypes, StepsOn DEF CommitFails, Performing, Abort, TypeOK
<1>3. CASE PerformDesired(a)
  <2>1. Continue(a, Tail(todo[a])) /\ Tail(todo[a]) \in Seq(Effects) /\ Head(todo[a]).arg \in Desires
    BY <1>3, NextEffect DEF PerformDesired, Performing
  <2> QED
    BY <1>3, <2>1, ContinueTypes, StepsOn DEF PerformDesired, Performing, Continue, TypeOK
<1>4. CASE DesiredFails(a)
  <2>1. faults' \in Nat
    BY <1>4 DEF DesiredFails, TypeOK
  <2> QED
    BY <1>4, <2>1, AbortTypes, StepsOn DEF DesiredFails, Performing, Abort, TypeOK
<1>5. CASE PerformInterrupt(a)
  <2>1. Tail(todo[a]) \in Seq(Effects) /\ Head(todo[a]).arg \in Reasons
    BY <1>5, NextEffect DEF PerformInterrupt, Performing
  <2>2. <<RaiseFlag>> \o Tail(todo[a]) \in Seq(Effects)
    BY <2>1, EffectTypes
  <2> QED
    BY <1>5, <2>1, <2>2, ContinueTypes, StepsOn DEF PerformInterrupt, Performing, Continue, TypeOK
<1>6. CASE CancelTooLate(a)
  BY <1>6, AbortTypes, StepsOn DEF CancelTooLate, Performing, Abort, TypeOK
<1>7. CASE PerformRaise(a)
  <2>1. Tail(todo[a]) \in Seq(Effects)
    BY <1>7, NextEffect DEF PerformRaise, Performing
  <2> QED
    BY <1>7, <2>1, ContinueTypes, StepsOn DEF PerformRaise, Performing, Continue, TypeOK
<1>8. CASE PerformClear(a)
  <2>1. Tail(todo[a]) \in Seq(Effects)
    BY <1>8, NextEffect DEF PerformClear, Performing
  <2>2. <<LowerReason>> \o Tail(todo[a]) \in Seq(Effects)
    BY <2>1, EffectTypes
  <2> QED
    BY <1>8, <2>2, ContinueTypes, StepsOn DEF PerformClear, Performing, Continue, TypeOK
<1>9. CASE PerformLower(a)
  <2>1. Tail(todo[a]) \in Seq(Effects)
    BY <1>9, NextEffect DEF PerformLower, Performing
  <2> QED
    BY <1>9, <2>1, ContinueTypes, StepsOn DEF PerformLower, Performing, Continue, TypeOK
<1>10. CASE PerformDispatch(a)
  <2>1. Tail(todo[a]) \in Seq(Effects) /\ on[a] \in Jobs
    BY <1>10, NextEffect DEF PerformDispatch, Performing, Engaged
  <2>2. queue' \in Seq(Jobs)
    BY <1>10, <2>1, ScheduleType DEF PerformDispatch
  <2> QED
    BY <1>10, <2>1, <2>2, ContinueTypes, StepsOn DEF PerformDispatch, Performing, Continue, TypeOK
<1>11. CASE PerformRecord(a)
  <2>1. Tail(todo[a]) \in Seq(Effects) /\ on[a] \in Jobs
    BY <1>11, NextEffect DEF PerformRecord, Performing, Engaged
  <2>2. observing' \in [Jobs -> Seq(Actors)]
    <3>1. Place(a, on[a]) \in 1..Len(observing[on[a]])
      BY <1>11, <2>1, PlaceType DEF PerformRecord
    <3>2. SubSeq(observing[on[a]], Place(a, on[a]) + 1, Len(observing[on[a]])) \in Seq(Actors)
      BY <2>1, <3>1 DEF TypeOK
    <3> QED
      BY <1>11, <2>1, <3>2 DEF PerformRecord, TypeOK
  <2> QED
    BY <1>11, <2>1, <2>2, ContinueTypes, StepsOn DEF PerformRecord, Performing, Continue, TypeOK
<1>12. CASE AwaitDone(a)
  <2>1. Tail(todo[a]) \in Seq(Effects)
    BY <1>12, NextEffect DEF AwaitDone, Awaiting
  <2> QED
    BY <1>12, <2>1, StepsOn DEF AwaitDone, Awaiting, TypeOK
<1>13. CASE AwaitTimeout(a)
  <2>1. OnError(a) \in Pcs /\ <<>> \in Seq(Effects)
    BY OnErrorType DEF Pcs
  <2> QED
    BY <1>13, <2>1, StepsOn DEF AwaitTimeout, Awaiting, Goto, TypeOK
<1>14. CASE Reenter(a)
  BY <1>14 DEF Reenter, TypeOK, Engaged, FilesLeft
<1> QED
  BY <1>1, <1>2, <1>3, <1>4, <1>5, <1>6, <1>7, <1>8, <1>9, <1>10, <1>11, <1>12, <1>13, <1>14
     DEF Perform, Fails

(* A device reading keeps the types. *)
LEMMA ObserveTypes ==
  ASSUME TypeInv, NEW a \in Actors, Observe(a)
  PROVE  TypeInv'
<1> USE DEF TypeInv, jobVars, controlVars, sharedVars, localVars, budgets
<1>1. CASE MintReading(a)
  BY <1>1 DEF MintReading, At, Goto, Pcs, TypeOK, Engaged, FilesLeft, Actors
<1>2. CASE ReadDevice(a)
  <2>1. Readiness(device[DeviceOf[on[a]]]) \in Readinesses
    BY DEF Readiness, Readinesses
  <2> QED
    BY <1>2, <2>1 DEF ReadDevice, At, Goto, Pcs, TypeOK, Engaged, FilesLeft, Actors
<1>3. CASE ObserveDevice(a)
  <2> DEFINE j == on[a]
             decision == DecideDeviceObserved(state[j], desired[j], Fresh(a, j), reading[a])
  <2>1. j \in Jobs /\ state[j] \in States
    BY <1>3 DEF ObserveDevice, At, Engaged, TypeOK
  <2>2. decision \in Decisions /\ "observed" \in Pcs
    BY <2>1, ObservationTypes DEF Pcs
  <2>3. Apply(a, j, decision, "observed")
    BY <1>3 DEF ObserveDevice
  <2>4. observing' \in [Jobs -> Seq(Actors)]
    <3>1. ASSUME Fresh(a, j) PROVE RemoveAt(observing[j], Place(a, j)) \in Seq(Actors)
      <4>1. observing[j] \in Seq(Actors) /\ Place(a, j) \in 1..Len(observing[j])
        BY <2>1, <3>1, PlaceType DEF TypeOK
      <4>2. /\ SubSeq(observing[j], 1, Place(a, j) - 1) \in Seq(Actors)
            /\ SubSeq(observing[j], Place(a, j) + 1, Len(observing[j])) \in Seq(Actors)
        BY <4>1
      <4> QED
        BY <4>2 DEF RemoveAt
    <3> QED
      BY <1>3, <2>1, <3>1 DEF ObserveDevice, TypeOK
  <2>5. TypeOK'
    BY <1>3, <2>2, <2>3, <2>4, ApplyTypes DEF ObserveDevice, TypeOK
  <2>6. Engaged' /\ FilesLeft'
    BY <1>3, <2>1, <2>3, OnErrorType
       DEF ObserveDevice, Apply, Goto, Engaged, FilesLeft, TypeOK, Actors
  <2> QED
    BY <2>5, <2>6
<1> QED
  BY <1>1, <1>2, <1>3 DEF Observe

(* A step of a worker keeps the types. *)
LEMMA WorkerStepTypes ==
  ASSUME TypeInv, NEW w \in Workers, WorkerRuns(w) \/ WorkerBreaks(w)
  PROVE  TypeInv'
<1> USE DEF TypeInv, jobVars, controlVars, sharedVars, localVars, budgets
<1>0. w \in Actors /\ Files > 0 /\ Files \in Nat
  BY BoundsAssumption DEF Actors
<1>1. CASE Claim(w)
  <2>1. Head(queue) \in Jobs /\ Tail(queue) \in Seq(Jobs)
    BY <1>1 DEF Claim, TypeOK
  <2> QED
    BY <1>0, <1>1, <2>1 DEF Claim, At, Goto, Pcs, TypeOK, Engaged, FilesLeft, Actors
<1>2. CASE TryClaim(w)
  BY <1>0, <1>2 DEF TryClaim, At, Goto, Pcs, TypeOK, Engaged, FilesLeft, Actors
<1>3. CASE AcquireTarget(w)
  BY <1>0, <1>3 DEF AcquireTarget, At, Goto, Pcs, TypeOK, Engaged, FilesLeft, Actors
<1>4. CASE ReadJob(w)
  <2>1. on[w] \in Jobs
    BY <1>0, <1>4 DEF ReadJob, At, Engaged
  <2>2. Arm(state[on[w]], desired[on[w]]) \in Pcs
    BY DEF Arm, Pcs
  <2>3. Arm(state[on[w]], desired[on[w]]) \in {"precheck_flag", "precheck", "fetch"}
          => state[on[w]] = "transferring"
    BY DEF Arm
  <2>4. report' \in [Actors -> Reports \cup {"none"}]
    BY <1>0, <1>4 DEF ReadJob, TypeOK, Reports, Stages, Reasons
  <2>5. saw' \in [Actors -> [state : States, desired : Desires, active : BOOLEAN]]
    BY <1>0, <1>4, <2>1 DEF ReadJob, TypeOK
  <2>6. TypeOK'
    BY <1>0, <1>4, <2>2, <2>4, <2>5 DEF ReadJob, Goto, TypeOK
  <2>7. Engaged' /\ FilesLeft'
    BY <1>0, <1>4, <2>1, <2>3 DEF ReadJob, Goto, Engaged, FilesLeft, TypeOK, Actors
  <2> QED
    BY <2>6, <2>7
<1>5. CASE WorkerObserved(w)
  <2>1. on[w] \in Jobs
    BY <1>0, <1>5 DEF WorkerObserved, At, Engaged
  <2>2. queue' \in Seq(Jobs)
    BY <1>5, <2>1, ScheduleType DEF WorkerObserved, TypeOK
  <2>3. NotSeen \in [state : States, desired : Desires, active : BOOLEAN] /\ "ready" \in Readinesses
    BY DEF NotSeen, States, Parked, Desires, Readinesses
  <2> QED
    BY <1>0, <1>5, <2>1, <2>2, <2>3
       DEF WorkerObserved, ForgetReading, Goto, Pcs, TypeOK, Engaged, FilesLeft, Actors
<1>6. CASE VerifyPublication(w)
  BY <1>0, <1>6 DEF VerifyPublication, Conclude, At, Goto, Pcs, Reports, Stages, TypeOK, Engaged,
                    FilesLeft, Actors
<1>7. CASE TestFlag(w)
  BY <1>0, <1>7 DEF TestFlag, At, Goto, Pcs, TypeOK, Engaged, FilesLeft, Actors
<1>8. CASE TestFile(w)
  BY <1>0, <1>8 DEF TestFile, Conclude, At, Goto, Pcs, Reports, Reasons, TypeOK, Engaged,
                    FilesLeft, Actors
<1>9. CASE FetchInterrupted(w)
  BY <1>0, <1>9 DEF FetchInterrupted, At, Goto, Pcs, TypeOK, Engaged, FilesLeft, Actors
<1>10. CASE FetchFile(w)
  <2>1. left[w] > 0 /\ left[w] - 1 \in Nat /\ left' = [left EXCEPT ![w] = left[w] - 1]
    BY <1>0, <1>10 DEF FetchFile, At, TypeOK, FilesLeft
  <2>2. /\ report' \in [Actors -> Reports \cup {"none"}]
        /\ pc' = [pc EXCEPT ![w] = IF left[w] = 1 THEN "report" ELSE "precheck_flag"]
        /\ UNCHANGED on
    BY <1>0, <1>10 DEF FetchFile, Conclude, Goto, Reports, Stages, TypeOK
  <2>3. TypeOK'
    BY <1>0, <1>10, <2>1, <2>2 DEF FetchFile, Conclude, Pcs, TypeOK
  <2>4. Engaged'
    BY <1>0, <1>10, <2>2 DEF FetchFile, Conclude, At, TypeOK, Engaged
  <2>5. FilesLeft'
    BY <1>0, <2>1, <2>2 DEF TypeOK, FilesLeft, Actors
  <2> QED
    BY <2>3, <2>4, <2>5
<1>11. CASE FetchFails(w)
  BY <1>0, <1>11 DEF FetchFails, Conclude, At, Goto, Pcs, Reports, Stages, TypeOK, Engaged,
                     FilesLeft, Actors
<1>12. CASE ReadReason(w)
  <2>1. on[w] \in Jobs
    BY <1>0, <1>12 DEF ReadReason, At, Engaged
  <2> QED
    BY <1>0, <1>12, <2>1 DEF ReadReason, Conclude, At, Goto, Pcs, Reports, Reasons, TypeOK, Engaged,
                             FilesLeft, Actors
<1>13. CASE UnwindFlag(w)
  BY <1>0, <1>13 DEF UnwindFlag, At, Goto, Pcs, TypeOK, Engaged, FilesLeft, Actors
<1>14. CASE UnwindReason(w)
  BY <1>0, <1>14 DEF UnwindReason, At, Goto, Pcs, TypeOK, Engaged, FilesLeft, Actors
<1>15. CASE RereadDevice(w)
  BY <1>0, <1>15 DEF RereadDevice, Conclude, At, Goto, Pcs, Reports, Reasons, TypeOK, Engaged,
                     FilesLeft, Actors
<1>16. CASE ExportFails(w)
  BY <1>0, <1>16 DEF ExportFails, Conclude, At, Goto, Pcs, Reports, Stages, TypeOK, Engaged,
                     FilesLeft, Actors
<1>17. CASE BeginIrreversible(w)
  <2>1. ctl' \in [Jobs -> {"cancellable", "cancel_requested", "irreversible"}]
    BY <1>0, <1>17 DEF BeginIrreversible, TypeOK
  <2>2. /\ report' \in [Actors -> Reports \cup {"none"}]
        /\ pc' \in {[pc EXCEPT ![w] = "report"], [pc EXCEPT ![w] = "publish"]}
        /\ UNCHANGED <<on, todo>>
    BY <1>0, <1>17 DEF BeginIrreversible, Conclude, Goto, Reports, Stages, TypeOK
  <2>3. TypeOK'
    BY <1>0, <1>17, <2>1, <2>2 DEF BeginIrreversible, Conclude, Pcs, TypeOK
  <2>4. Engaged' /\ FilesLeft'
    BY <1>0, <1>17, <2>2 DEF BeginIrreversible, At, TypeOK, Engaged, FilesLeft, Actors
  <2> QED
    BY <2>3, <2>4
<1>18. CASE Publish(w)
  <2>1. published' \in [Jobs -> BOOLEAN]
    BY <1>0, <1>18 DEF Publish, TypeOK
  <2>2. /\ report' \in [Actors -> Reports \cup {"none"}]
        /\ pc' \in {[pc EXCEPT ![w] = "report"], [pc EXCEPT ![w] = "publish"]}
        /\ UNCHANGED <<on, todo>>
    BY <1>0, <1>18 DEF Publish, Conclude, Goto, Reports, Stages, TypeOK
  <2>3. TypeOK'
    BY <1>0, <1>18, <2>1, <2>2 DEF Publish, Conclude, Pcs, TypeOK
  <2>4. Engaged' /\ FilesLeft'
    BY <1>0, <1>18, <2>2 DEF Publish, At, TypeOK, Engaged, FilesLeft, Actors
  <2> QED
    BY <2>3, <2>4
<1>19. CASE Report(w)
  <2> DEFINE decision == DecideWorker(state[on[w]], report[w])
             ok == AfterReport(report[w])
  <2>1. on[w] \in Jobs
    BY <1>0, <1>19 DEF Report, At, Engaged
  <2>2. decision \in Decisions
    BY <2>1, WorkerTypes DEF TypeOK
  <2>3. ok \in {"loop", "panic_flag", "leave"} /\ ok \in Pcs
    BY DEF AfterReport, Pcs
  <2>4. Apply(w, on[w], decision, ok)
    BY <1>19 DEF Report
  <2>5. TypeOK'
    <3> HIDE DEF decision, ok
    <3> QED
      BY <1>0, <1>19, <2>2, <2>3, <2>4, ApplyTypes DEF Report, TypeOK
  <2>6. Engaged' /\ FilesLeft'
    <3> HIDE DEF decision, ok
    <3> QED
      BY <1>0, <1>19, <2>1, <2>3, <2>4, OnErrorType
         DEF Report, Apply, Goto, Engaged, FilesLeft, TypeOK, Actors
  <2> QED
    BY <2>5, <2>6
<1>20. CASE Panic(w)
  <2>0. pc[w] # "idle"
    BY <1>20 DEF Panic, At
  <2>1. panics' \in Nat /\ holder' \in [Targets -> Jobs \cup {None}] /\ on[w] \in Jobs
    <3>1. panics' \in Nat
      BY <1>20 DEF Panic, TypeOK
    <3>2. holder' \in [Targets -> Jobs \cup {None}]
      BY <1>20 DEF Panic, TypeOK
    <3> QED
      BY <1>0, <2>0, <3>1, <3>2 DEF Engaged
  <2>2. /\ pc' = [pc EXCEPT ![w] = "report"]
        /\ report' = [report EXCEPT ![w] = "panicked"]
        /\ UNCHANGED <<on, todo, left>>
    BY <1>20 DEF Panic, Goto
  <2>3. TypeOK'
    BY <1>0, <1>20, <2>1, <2>2 DEF Panic, Pcs, Reports, TypeOK
  <2>4. Engaged' /\ FilesLeft'
    BY <1>0, <2>1, <2>2 DEF TypeOK, Engaged, FilesLeft, Actors
  <2> QED
    BY <2>3, <2>4
<1>21. CASE LeaveTarget(w)
  BY <1>0, <1>21 DEF LeaveTarget, At, Goto, Pcs, TypeOK, Engaged, FilesLeft, Actors
<1>22. CASE ReleaseJob(w)
  <2>1. NotSeen \in [state : States, desired : Desires, active : BOOLEAN] /\ "ready" \in Readinesses
    BY DEF NotSeen, States, Parked, Desires, Readinesses
  <2> QED
    BY <1>0, <1>22, <2>1
       DEF ReleaseJob, ForgetReading, At, Goto, Pcs, TypeOK, Engaged, FilesLeft, Actors
<1> QED
  BY <1>1, <1>2, <1>3, <1>4, <1>5, <1>6, <1>7, <1>8, <1>9, <1>10, <1>11, <1>12, <1>13, <1>14,
     <1>15, <1>16, <1>17, <1>18, <1>19, <1>20, <1>21, <1>22 DEF WorkerRuns, WorkerBreaks

(* A step of the dispatcher keeps the types. *)
LEMMA DispatcherTypes ==
  ASSUME TypeInv, DispatcherRuns
  PROVE  TypeInv'
<1> USE DEF TypeInv, jobVars, controlVars, sharedVars, localVars, budgets
<1>0. Dispatcher \in Actors /\ Dispatcher \notin Workers
  BY ActorsAssumption DEF Actors
<1>1. NotSeen \in [state : States, desired : Desires, active : BOOLEAN] /\ "ready" \in Readinesses
  BY DEF NotSeen, States, Parked, Desires, Readinesses
<1>2. ASSUME NEW j \in Jobs, TickRead(j) PROVE TypeInv'
  <2>1. saw' \in [Actors -> [state : States, desired : Desires, active : BOOLEAN]]
    BY <1>0, <1>2 DEF TickRead, TypeOK
  <2> QED
    BY <1>0, <1>2, <2>1 DEF TickRead, At, Goto, Pcs, TypeOK, Engaged, FilesLeft, Actors
<1>3. CASE TickCheck
  <2>1. on[Dispatcher] \in Jobs
    BY <1>0, <1>3 DEF TickCheck, At, Engaged
  <2>2. saw' \in [Actors -> [state : States, desired : Desires, active : BOOLEAN]]
    BY <1>0, <1>1, <1>3, <2>1 DEF TickCheck, TypeOK
  <2>3. pc' \in [Actors -> Pcs] /\ \A a \in Actors \ {Dispatcher} : pc'[a] = pc[a]
    BY <1>0, <1>3 DEF TickCheck, Goto, Pcs, TypeOK
  <2> QED
    BY <1>0, <1>3, <2>1, <2>2, <2>3 DEF TickCheck, TypeOK, Engaged, FilesLeft, Actors
<1>4. CASE TickProbe
  <2>1. on[Dispatcher] \in Jobs
    BY <1>0, <1>4 DEF TickProbe, At, Engaged
  <2>2. queue' \in Seq(Jobs)
    BY <1>4, <2>1, ScheduleType DEF TickProbe, TypeOK
  <2>3. saw' \in [Actors -> [state : States, desired : Desires, active : BOOLEAN]]
    BY <1>0, <1>1, <1>4, <2>1 DEF TickProbe, TypeOK
  <2>4. pc' \in [Actors -> Pcs] /\ \A a \in Actors \ {Dispatcher} : pc'[a] = pc[a]
    BY <1>0, <1>4 DEF TickProbe, Goto, Pcs, TypeOK
  <2> QED
    BY <1>0, <1>4, <2>1, <2>2, <2>3, <2>4 DEF TickProbe, TypeOK, Engaged, FilesLeft, Actors
<1>5. CASE TickObserved
  <2>1. on[Dispatcher] \in Jobs
    BY <1>0, <1>5 DEF TickObserved, At, Engaged
  <2>2. queue' \in Seq(Jobs)
    BY <1>5, <2>1, ScheduleType DEF TickObserved, TypeOK
  <2> QED
    BY <1>0, <1>1, <1>5, <2>1, <2>2
       DEF TickObserved, ForgetReading, Goto, Pcs, TypeOK, Engaged, FilesLeft, Actors
<1> QED
  BY <1>2, <1>3, <1>4, <1>5 DEF DispatcherRuns

(* A step of a user thread keeps the types. *)
LEMMA UserTypes ==
  ASSUME TypeInv, NEW u \in Users, UserRuns(u) \/ UserIssues(u)
  PROVE  TypeInv'
<1> USE DEF TypeInv, jobVars, controlVars, sharedVars, localVars, budgets
<1>0. u \in Actors /\ u \notin Workers
  BY ActorsAssumption DEF Actors
<1>1. ASSUME NEW j \in Jobs, NEW command, NEW decision \in Decisions, NEW ok \in Pcs,
             Issue(u, j, command), Apply(u, j, decision, ok)
      PROVE  TypeInv'
  <2>0. commands' \in Nat /\ on' \in [Actors -> Jobs \cup {None}]
    BY <1>0, <1>1 DEF Issue, TypeOK
  <2>1. TypeOK'
    BY <1>0, <1>1, <2>0, ApplyTypes DEF Issue, TypeOK
  <2>2. Engaged' /\ FilesLeft'
    BY <1>0, <1>1 DEF Issue, Apply, Goto, Engaged, FilesLeft, TypeOK, Actors
  <2> QED
    BY <2>1, <2>2
<1>2. ASSUME NEW j \in Jobs, Pause(u, j) \/ Resume(u, j) \/ Cancel(u, j) PROVE TypeInv'
  <2>1. state[j] \in States /\ "idle" \in Pcs /\ "finalize" \in Pcs
    BY DEF TypeOK, Pcs
  <2>2. CASE Pause(u, j)
    BY <1>1, <2>1, <2>2, DecisionTypes DEF Pause
  <2>3. CASE Resume(u, j)
    BY <1>1, <2>1, <2>3, DecisionTypes DEF Resume
  <2>4. CASE Cancel(u, j) /\ state[j] = "cancelled"
    <3>1. commands' \in Nat /\ on' = [on EXCEPT ![u] = j] /\ pc' = [pc EXCEPT ![u] = "cancel_ok"]
      BY <1>0, <2>4 DEF Cancel, Issue, Goto, TypeOK
    <3> QED
      BY <1>0, <2>4, <3>1 DEF Cancel, Issue, Pcs, TypeOK, Engaged, FilesLeft, Actors
  <2>5. CASE Cancel(u, j) /\ state[j] # "cancelled"
    BY <1>1, <2>1, <2>5, DecisionTypes DEF Cancel
  <2> QED
    BY <1>2, <2>2, <2>3, <2>4, <2>5
<1>3. CASE FinalizeCancel(u)
  <2> DEFINE decision == DecideFinalizeCancel(state[on[u]])
  <2>1. on[u] \in Jobs
    BY <1>0, <1>3 DEF FinalizeCancel, At, Engaged
  <2>2. decision \in Decisions /\ "cancel_ok" \in Pcs
    BY <2>1, DecisionTypes DEF TypeOK, Pcs
  <2>3. Apply(u, on[u], decision, "cancel_ok")
    BY <1>3 DEF FinalizeCancel
  <2> HIDE DEF decision
  <2>4. TypeOK'
    BY <1>0, <1>3, <2>2, <2>3, ApplyTypes DEF FinalizeCancel, TypeOK
  <2>5. Engaged' /\ FilesLeft'
    BY <1>0, <1>3, <2>1, <2>3 DEF FinalizeCancel, Apply, Goto, Engaged, FilesLeft, TypeOK, Actors
  <2> QED
    BY <2>4, <2>5
<1>4. CASE CancelReturns(u)
  BY <1>0, <1>4 DEF CancelReturns, At, Goto, Pcs, TypeOK, Engaged, FilesLeft, Actors
<1> QED
  BY <1>2, <1>3, <1>4 DEF UserRuns, UserIssues

(* The initial state has the types. *)
LEMMA InitTypes == Init => TypeInv
<1> SUFFICES ASSUME Init PROVE TypeInv
  OBVIOUS
<1>1. /\ "queued" \in States /\ "run" \in Desires /\ "ready" \in Readinesses /\ "idle" \in Pcs
      /\ NotSeen \in [state : States, desired : Desires, active : BOOLEAN]
  BY DEF States, Parked, Desires, Readinesses, Pcs, NotSeen
<1>2. commands \in Nat /\ changes \in Nat /\ faults \in Nat /\ panics \in Nat
  <2>1. PICK b \in Budgets : /\ commands = b.commands /\ changes = b.changes
                             /\ faults = b.faults /\ panics = b.panics
    BY DEF Init
  <2> QED
    BY <2>1, BoundsAssumption
<1>3. TypeOK
  BY <1>1, <1>2, MapsAssumption, BoundsAssumption DEF Init, TypeOK
<1>4. Engaged /\ FilesLeft
  BY DEF Init, Engaged, FilesLeft, Actors
<1> QED
  BY <1>3, <1>4 DEF TypeInv

(* Every step keeps the types. *)
LEMMA TypeStep == TypeInv /\ [Next]_vars => TypeInv'
<1> SUFFICES ASSUME TypeInv, [Next]_vars PROVE TypeInv'
  OBVIOUS
<1>1. ASSUME NEW a \in Actors, Perform(a) \/ Fails(a) \/ Observe(a) PROVE TypeInv'
  BY <1>1, PerformTypes, ObserveTypes
<1>2. ASSUME NEW w \in Workers, WorkerRuns(w) \/ WorkerBreaks(w) PROVE TypeInv'
  BY <1>2, WorkerStepTypes
<1>3. ASSUME DispatcherRuns PROVE TypeInv'
  BY <1>3, DispatcherTypes
<1>4. ASSUME NEW u \in Users, UserRuns(u) \/ UserIssues(u) PROVE TypeInv'
  BY <1>4, UserTypes
<1>5. ASSUME NEW d \in Devices, DeviceChanges(d) PROVE TypeInv'
  BY <1>5, MapsAssumption
     DEF DeviceChanges, TypeInv, TypeOK, Engaged, FilesLeft, jobVars, controlVars, localVars
<1>6. CASE UNCHANGED vars
  BY <1>6 DEF vars, jobVars, controlVars, sharedVars, localVars, budgets, TypeInv, TypeOK,
              Engaged, FilesLeft
<1> QED
  BY <1>1, <1>2, <1>3, <1>4, <1>5, <1>6 DEF Next, Quiescent

(* Every variable keeps its type, whatever the workers, the dispatcher and *)
(* the users do: in particular no job enters a state outside the graph,    *)
(* the file counter of a worker never underflows and every notification in *)
(* the ready set is for a job.                                             *)
THEOREM TypeCorrect == Spec => []TypeOK
<1>1. TypeInv => TypeOK
  BY DEF TypeInv
<1> QED
  BY <1>1, InitTypes, TypeStep, PTL DEF Spec

-----------------------------------------------------------------------------
(* Ownership of jobs and target directories.                               *)

(* Where a worker holds the target lease of its job. *)
Holding == {"loop", "mint", "read", "observe", "observed", "verify", "precheck_flag", "precheck",
            "fetch", "unwound", "unwind_flag", "unwind_reason", "reread", "export", "publish",
            "report", "leave"}

(* A worker that drives a job has made it active. *)
DriverIsActive == \A w \in Workers : pc[w] \in Owning => active[on[w]]

(* Only a worker that drives a job has effects of it to perform. *)
EffectsInside == \A w \in Workers : todo[w] # <<>> => pc[w] \in Holding \cup {"panic_flag"}

(* The lease is held except between a panic and its report. *)
LeaseHeld ==
  \A w \in Workers : pc[w] \in Holding =>
    \/ holder[TargetOf[on[w]]] = on[w]
    \/ pc[w] = "report" /\ report[w] = "panicked"

PanicPath ==
  \A w \in Workers :
    /\ report[w] = "panicked" => pc[w] \in {"report", "panic_flag", "panic_reason", "release"}
    /\ pc[w] = "panic_flag" => report[w] = "panicked"

OwnerInv == DriverIsActive /\ OneWorkerPerJob /\ EffectsInside /\ LeaseHeld /\ PanicPath

(* A worker that holds the lease, writes, or is about to give either back *)
(* has the job activated.                                                 *)
LEMMA HoldingOwns ==
  /\ Holding \subseteq Owning
  /\ {"lease", "panic_flag", "panic_reason", "release"} \subseteq Owning
  /\ Writing \subseteq Holding \ {"report"}
BY DEF Holding, Owning, Pcs, Writing

(* A step that no worker's place is touched by. *)
LEMMA OwnersUntouched ==
  ASSUME OwnerInv, UNCHANGED <<active, holder>>,
         \A w \in Workers : /\ pc'[w] = pc[w] /\ on'[w] = on[w] /\ report'[w] = report[w]
                            /\ todo'[w] = todo[w] \/ todo[w] # <<>>
  PROVE  OwnerInv'
<1>1. DriverIsActive' /\ OneWorkerPerJob'
  BY DEF OwnerInv, DriverIsActive, OneWorkerPerJob
<1>2. EffectsInside'
  BY DEF OwnerInv, EffectsInside
<1>3. LeaseHeld' /\ PanicPath'
  BY DEF OwnerInv, LeaseHeld, PanicPath
<1> QED
  BY <1>1, <1>2, <1>3 DEF OwnerInv

(* A step of a worker that drives its job before and after it. *)
LEMMA OwnerMoves ==
  ASSUME TypeOK, OwnerInv, NEW w \in Workers, NEW p, UNCHANGED <<active, on>>,
         pc[w] \in Owning, p \in Owning, pc' = [pc EXCEPT ![w] = p],
         \A v \in Workers \ {w} : report'[v] = report[v] /\ todo'[v] = todo[v],
         \A v \in Workers \ {w} : pc[v] \in Holding =>
            holder'[TargetOf[on[v]]] = holder[TargetOf[on[v]]] \/ holder[TargetOf[on[v]]] # on[v],
         todo'[w] # <<>> => p \in Holding \cup {"panic_flag"},
         p \in Holding => \/ holder'[TargetOf[on[w]]] = on[w]
                          \/ p = "report" /\ report'[w] = "panicked",
         report'[w] = "panicked" => p \in {"report", "panic_flag", "panic_reason", "release"},
         p = "panic_flag" => report'[w] = "panicked"
  PROVE  OwnerInv'
<1>1. pc'[w] = p /\ \A v \in Workers \ {w} : pc'[v] = pc[v]
  BY DEF TypeOK, Actors
<1>2. DriverIsActive' /\ OneWorkerPerJob'
  BY <1>1 DEF OwnerInv, DriverIsActive, OneWorkerPerJob
<1>3. EffectsInside'
  BY <1>1 DEF OwnerInv, EffectsInside
<1>4. LeaseHeld'
  BY <1>1 DEF OwnerInv, LeaseHeld
<1>5. PanicPath'
  BY <1>1 DEF OwnerInv, PanicPath
<1> QED
  BY <1>2, <1>3, <1>4, <1>5 DEF OwnerInv

(* An actor whose command failed. *)
LEMMA OwnerGivesUp ==
  ASSUME TypeOK, OwnerInv, NEW a \in Actors, todo[a] # <<>>, todo' = [todo EXCEPT ![a] = <<>>],
         Goto(a, OnError(a)), UNCHANGED <<active, on, holder, report>>
  PROVE  OwnerInv'
<1>1. CASE a \in Workers
  <2>1. pc[a] \in Holding \cup {"panic_flag"} /\ pc[a] \in Owning
    BY <1>1, HoldingOwns DEF OwnerInv, EffectsInside
  <2>2. /\ report[a] = "panicked" => OnError(a) = "panic_flag"
        /\ report[a] # "panicked" => OnError(a) = "leave"
    BY <1>1 DEF OnError
  <2>3. OnError(a) \in Owning /\ "leave" \in Holding /\ "panic_flag" \notin Holding
    BY <2>2, HoldingOwns DEF Holding
  <2>4. report[a] # "panicked" => holder[TargetOf[on[a]]] = on[a]
    BY <1>1, <2>1 DEF OwnerInv, LeaseHeld, PanicPath
  <2>5. todo'[a] = <<>> /\ \A v \in Workers \ {a} : todo'[v] = todo[v]
    BY DEF TypeOK, Actors
  <2> QED
    BY <1>1, <2>1, <2>2, <2>3, <2>4, <2>5, OwnerMoves DEF Goto
<1>2. CASE a \notin Workers
  <2>1. \A w \in Workers : pc'[w] = pc[w] /\ todo'[w] = todo[w]
    BY <1>2 DEF Goto, TypeOK, Actors
  <2> QED
    BY <2>1, OwnersUntouched
<1> QED
  BY <1>1, <1>2

(* Performing an effect, or failing at it, keeps the owners. *)
LEMMA PerformKeepsOwners ==
  ASSUME TypeInv, OwnerInv, NEW a \in Actors, Perform(a) \/ Fails(a)
  PROVE  OwnerInv'
<1> USE DEF TypeInv, jobVars, controlVars, sharedVars, localVars, budgets
<1>1. CASE CommitFails(a) \/ DesiredFails(a) \/ CancelTooLate(a) \/ AwaitTimeout(a)
  <2>1. /\ todo[a] # <<>> /\ todo' = [todo EXCEPT ![a] = <<>>] /\ Goto(a, OnError(a))
        /\ UNCHANGED <<active, on, holder, report>>
    BY <1>1 DEF CommitFails, DesiredFails, CancelTooLate, AwaitTimeout, Performing, Awaiting, Abort
  <2> QED
    BY <2>1, OwnerGivesUp
<1>2. CASE Perform(a) /\ ~CancelTooLate(a)
  <2>1. /\ todo[a] # <<>> /\ UNCHANGED <<pc, on, active, holder, report>>
        /\ \A w \in Workers \ {a} : todo'[w] = todo[w]
    <3>1. CASE PerformCommit(a) \/ PerformDesired(a) \/ PerformInterrupt(a) \/ PerformRaise(a)
      BY <3>1 DEF PerformCommit, PerformDesired, PerformInterrupt, PerformRaise, Performing,
                  Continue, TypeOK, Actors
    <3>2. CASE PerformClear(a) \/ PerformLower(a) \/ PerformDispatch(a) \/ PerformRecord(a)
      BY <3>2 DEF PerformClear, PerformLower, PerformDispatch, PerformRecord, Performing,
                  Continue, TypeOK, Actors
    <3>3. CASE AwaitDone(a) \/ Reenter(a)
      BY <3>3 DEF AwaitDone, Reenter, Awaiting, TypeOK, Actors
    <3> QED
      BY <1>2, <3>1, <3>2, <3>3 DEF Perform
  <2> QED
    BY <2>1, OwnersUntouched
<1> QED
  BY <1>1, <1>2 DEF Perform, Fails

(* A device reading keeps the owners. *)
LEMMA ObserveKeepsOwners ==
  ASSUME TypeInv, OwnerInv, NEW a \in Actors, Observe(a)
  PROVE  OwnerInv'
<1> USE DEF TypeInv, jobVars, controlVars, sharedVars, localVars, budgets
<1> DEFINE p == pc'[a]
<1>1. /\ UNCHANGED <<active, on, holder, report>>
      /\ pc' = [pc EXCEPT ![a] = p]
      /\ \A v \in Workers \ {a} : todo'[v] = todo[v]
      /\ pc[a] \in {"mint", "read", "observe"}
  BY DEF Observe, MintReading, ReadDevice, ObserveDevice, Apply, At, Goto, TypeOK, Actors
<1>2. p \in {"read", "observe", "observed", OnError(a)}
  BY DEF Observe, MintReading, ReadDevice, ObserveDevice, Apply, Goto, TypeOK
<1>3. CASE a \in Workers
  <2>1. holder[TargetOf[on[a]]] = on[a] /\ report[a] # "panicked"
    BY <1>1, <1>3 DEF OwnerInv, LeaseHeld, PanicPath, Holding
  <2>2. OnError(a) = "leave"
    BY <1>3, <2>1 DEF OnError
  <2>3. p \in Holding /\ p # "panic_flag" /\ p \in Owning /\ pc[a] \in Owning
    BY <1>1, <1>2, <2>2, HoldingOwns DEF Holding
  <2> HIDE DEF p
  <2> QED
    BY <1>1, <1>3, <2>1, <2>3, OwnerMoves
<1>4. CASE a \notin Workers
  <2>1. \A w \in Workers : pc'[w] = pc[w] /\ todo'[w] = todo[w]
    BY <1>1, <1>4 DEF TypeOK, Actors
  <2> QED
    BY <1>1, <2>1, OwnersUntouched
<1> QED
  BY <1>3, <1>4

(* A worker that moves on inside process_job with its lease. *)
LEMMA OwnerStays ==
  ASSUME TypeOK, OwnerInv, NEW w \in Workers, NEW p \in Holding, UNCHANGED <<active, on, holder>>,
         pc[w] \in Holding \ {"report"}, pc' = [pc EXCEPT ![w] = p],
         \A v \in Workers \ {w} : report'[v] = report[v],
         UNCHANGED todo, report'[w] # "panicked"
  PROVE  OwnerInv'
<1>1. holder[TargetOf[on[w]]] = on[w] /\ pc[w] \in Owning /\ p \in Owning /\ p # "panic_flag"
  BY HoldingOwns DEF OwnerInv, LeaseHeld, Holding
<1> QED
  BY <1>1, OwnerMoves

(* A worker that concludes a step of process_job. *)
LEMMA ConcludeKeepsOwners ==
  ASSUME TypeOK, OwnerInv, NEW w \in Workers, NEW what, NEW next \in Holding, Conclude(w, what, next),
         pc[w] \in Holding \ {"report"}, what # "panicked"
  PROVE  OwnerInv'
<1>1. /\ pc' = [pc EXCEPT ![w] = next] /\ UNCHANGED <<active, on, holder, todo>>
      /\ report'[w] = what /\ \A v \in Workers \ {w} : report'[v] = report[v]
  BY DEF Conclude, Goto, controlVars, sharedVars, TypeOK, Actors
<1> QED
  BY <1>1, OwnerStays

(* A step of a worker keeps the owners. *)
LEMMA WorkerKeepsOwners ==
  ASSUME TypeInv, OwnerInv, NEW w \in Workers, WorkerRuns(w) \/ WorkerBreaks(w)
  PROVE  OwnerInv'
<1> USE DEF TypeInv, jobVars, controlVars, sharedVars, localVars, budgets
<1>0. w \in Actors
  BY DEF Actors
<1>1. CASE Claim(w)
  <2>1. /\ pc'[w] = "claimed" /\ pc[w] = "idle" /\ todo[w] = <<>>
        /\ UNCHANGED <<active, holder, report, todo>>
        /\ \A v \in Workers \ {w} : pc'[v] = pc[v] /\ on'[v] = on[v]
    BY <1>0, <1>1 DEF Claim, At, Goto, TypeOK, Actors
  <2>2. pc'[w] \notin Owning /\ pc'[w] \notin Holding /\ pc'[w] # "panic_flag"
    BY <2>1 DEF Owning, Holding
  <2>3. DriverIsActive' /\ OneWorkerPerJob'
    BY <2>1, <2>2 DEF OwnerInv, DriverIsActive, OneWorkerPerJob
  <2>4. EffectsInside' /\ LeaseHeld'
    BY <2>1, <2>2 DEF OwnerInv, EffectsInside, LeaseHeld
  <2>5. PanicPath'
    BY <2>1, <2>2 DEF OwnerInv, PanicPath
  <2> QED
    BY <2>3, <2>4, <2>5 DEF OwnerInv
<1>2. CASE TryClaim(w)
  <2>1. /\ on[w] \in Jobs /\ pc[w] = "claimed" /\ todo[w] = <<>> /\ report[w] # "panicked"
        /\ UNCHANGED <<holder, report, todo>>
    BY <1>0, <1>2 DEF TryClaim, At, Engaged, OwnerInv, PanicPath
  <2>2. \A v \in Workers \ {w} : pc'[v] = pc[v] /\ on'[v] = on[v]
    BY <1>0, <1>2 DEF TryClaim, Goto, TypeOK, Actors
  <2>3. \A v \in Workers \ {w} : pc[v] \in Owning /\ on[v] = on[w] => active[on[w]]
    BY DEF OwnerInv, DriverIsActive
  <2>4. active'[on[w]] /\ \A j \in Jobs : active[j] => active'[j]
    BY <1>2, <2>1 DEF TryClaim, TypeOK
  <2>5. CASE active[on[w]]
    <3>1. pc'[w] = "idle"
      BY <1>0, <1>2, <2>5 DEF TryClaim, Goto, TypeOK
    <3>2. UNCHANGED active
      BY <1>2, <2>1, <2>5 DEF TryClaim, TypeOK
    <3>3. pc'[w] \notin Owning /\ pc'[w] \notin Holding /\ pc'[w] # "panic_flag"
      BY <3>1 DEF Owning, Holding
    <3>4. DriverIsActive' /\ OneWorkerPerJob'
      BY <2>2, <3>2, <3>3 DEF OwnerInv, DriverIsActive, OneWorkerPerJob
    <3>5. EffectsInside' /\ LeaseHeld'
      BY <2>1, <2>2, <3>3 DEF OwnerInv, EffectsInside, LeaseHeld
    <3>6. PanicPath'
      BY <2>1, <2>2, <3>3 DEF OwnerInv, PanicPath
    <3> QED
      BY <3>4, <3>5, <3>6 DEF OwnerInv
  <2>6. CASE ~active[on[w]]
    <3>1. pc'[w] = "lease" /\ on'[w] = on[w]
      BY <1>0, <1>2, <2>6 DEF TryClaim, Goto, TypeOK
    <3>2. \A v \in Workers \ {w} : pc[v] \in Owning => on[v] # on[w] /\ on[v] \in Jobs
      BY <2>3, <2>6 DEF Engaged, Owning, Actors
    <3>3. pc'[w] \notin Holding /\ pc'[w] # "panic_flag"
      BY <3>1 DEF Holding
    <3>4. DriverIsActive' /\ OneWorkerPerJob'
      BY <2>2, <2>4, <3>1, <3>2 DEF OwnerInv, DriverIsActive, OneWorkerPerJob
    <3>5. EffectsInside' /\ LeaseHeld'
      BY <2>1, <2>2, <3>3 DEF OwnerInv, EffectsInside, LeaseHeld
    <3>6. PanicPath'
      BY <2>1, <2>2, <3>3 DEF OwnerInv, PanicPath
    <3> QED
      BY <3>4, <3>5, <3>6 DEF OwnerInv
  <2> QED
    BY <2>5, <2>6
<1>3. CASE AcquireTarget(w)
  <2> DEFINE t == TargetOf[on[w]]
             p == IF holder[t] = None THEN "loop" ELSE "release"
  <2>1. /\ on[w] \in Jobs /\ t \in Targets /\ pc[w] = "lease" /\ todo[w] = <<>>
        /\ report[w] # "panicked" /\ UNCHANGED <<active, on, report, todo>>
        /\ pc' = [pc EXCEPT ![w] = p]
    BY <1>0, <1>3, MapsAssumption DEF AcquireTarget, At, Goto, Engaged, OwnerInv, PanicPath
  <2>2. \A v \in Workers \ {w} : pc[v] \in Holding =>
          holder'[TargetOf[on[v]]] = holder[TargetOf[on[v]]] \/ holder[TargetOf[on[v]]] # on[v]
    <3>1. SUFFICES ASSUME NEW v \in Workers \ {w}, pc[v] \in Holding,
                          holder[TargetOf[on[v]]] = on[v]
                   PROVE  holder'[TargetOf[on[v]]] = holder[TargetOf[on[v]]]
      OBVIOUS
    <3>2. CASE TargetOf[on[v]] # t
      BY <1>3, <2>1, <3>2 DEF AcquireTarget, TypeOK
    <3>3. CASE TargetOf[on[v]] = t /\ holder[t] # None
      BY <1>3, <3>3 DEF AcquireTarget
    <3>4. CASE TargetOf[on[v]] = t /\ holder[t] = None
      <4>1. on[v] \in Jobs
        BY <3>1 DEF Engaged, Holding, Actors
      <4> QED
        BY <3>1, <3>4, <4>1, ActorsAssumption
    <3> QED
      BY <3>2, <3>3, <3>4
  <2>3. holder[t] = None => holder'[t] = on[w]
    BY <1>3, <2>1 DEF AcquireTarget, TypeOK
  <2>4. /\ pc[w] \in Owning /\ p \in Owning /\ p # "panic_flag" /\ (p \in Holding => p = "loop")
    BY <2>1, HoldingOwns DEF Owning, Pcs, Holding
  <2> QED
    BY <2>1, <2>2, <2>3, <2>4, OwnerMoves
<1>4. CASE ReadJob(w)
  <2> DEFINE p == Arm(state[on[w]], desired[on[w]])
  <2>1. p \in Holding
    BY DEF Arm, Holding
  <2>2. /\ pc[w] = "loop" /\ pc' = [pc EXCEPT ![w] = p] /\ UNCHANGED <<active, on, holder, todo>>
        /\ report'[w] \in {"verified", "cancel", "none"}
        /\ \A v \in Workers \ {w} : report'[v] = report[v]
    BY <1>0, <1>4 DEF ReadJob, At, Goto, TypeOK, Actors
  <2>3. pc[w] \in Holding \ {"report"}
    BY <2>2 DEF Holding
  <2> QED
    BY <2>1, <2>2, <2>3, OwnerStays
<1>5. CASE WorkerObserved(w)
  <2> DEFINE p == IF reading[w] = "ready" THEN "loop" ELSE "leave"
  <2>1. /\ pc[w] \in Holding \ {"report"} /\ pc' = [pc EXCEPT ![w] = p] /\ p \in Holding
        /\ UNCHANGED <<active, on, holder, todo, report>>
    BY <1>5 DEF WorkerObserved, At, Goto, Holding
  <2>2. report[w] # "panicked"
    BY <1>5 DEF WorkerObserved, At, OwnerInv, PanicPath
  <2> QED
    BY <2>1, <2>2, OwnerStays
<1>6. CASE VerifyPublication(w)
  BY <1>6, ConcludeKeepsOwners DEF VerifyPublication, At, Holding
<1>7. CASE TestFlag(w) \/ FetchInterrupted(w)
  <2> DEFINE p == pc'[w]
  <2>1. /\ pc[w] \in {"precheck_flag", "fetch"} /\ pc' = [pc EXCEPT ![w] = p]
        /\ p \in {"unwound", "precheck"}
        /\ UNCHANGED <<active, on, holder, todo, report>>
    BY <1>0, <1>7 DEF TestFlag, FetchInterrupted, At, Goto, TypeOK
  <2>2. report[w] # "panicked" /\ pc[w] \in Holding \ {"report"} /\ p \in Holding
    BY <2>1 DEF OwnerInv, PanicPath, Holding
  <2> HIDE DEF p
  <2> QED
    BY <2>1, <2>2, OwnerStays
<1>8. CASE TestFile(w)
  BY <1>8, ConcludeKeepsOwners DEF TestFile, At, Holding
<1>9. CASE FetchFile(w) \/ FetchFails(w)
  BY <1>9, ConcludeKeepsOwners DEF FetchFile, FetchFails, At, Holding
<1>10. CASE ReadReason(w)
  <2> DEFINE what == IF reason[on[w]] = None THEN "cancel" ELSE reason[on[w]]
  <2>1. what # "panicked"
    <3>1. on[w] \in Jobs
      BY <1>0, <1>10 DEF ReadReason, At, Engaged
    <3> QED
      BY <3>1 DEF TypeOK, Reasons
  <2>2. Conclude(w, what, "unwind_flag") /\ pc[w] \in Holding \ {"report"} /\ "unwind_flag" \in Holding
    BY <1>10 DEF ReadReason, At, Holding
  <2> QED
    BY <2>1, <2>2, ConcludeKeepsOwners
<1>11. CASE UnwindFlag(w) \/ UnwindReason(w)
  <2> DEFINE p == pc'[w]
  <2>1. /\ pc' = [pc EXCEPT ![w] = p] /\ todo[w] = <<>>
        /\ UNCHANGED <<active, on, holder, todo, report>>
    BY <1>0, <1>11 DEF UnwindFlag, UnwindReason, At, Goto, TypeOK
  <2>2. \/ pc[w] = "unwind_flag" /\ p = "unwind_reason"
        \/ pc[w] = "unwind_reason" /\ p \in {"reread", "report"}
        \/ pc[w] = "panic_flag" /\ p = "panic_reason"
        \/ pc[w] = "panic_reason" /\ p = "release"
    BY <1>0, <1>11 DEF UnwindFlag, UnwindReason, At, Goto, TypeOK
  <2> HIDE DEF p
  <2>3. CASE pc[w] \in {"unwind_flag", "unwind_reason"}
    <3>1. report[w] # "panicked" /\ pc[w] \in Holding \ {"report"} /\ p \in Holding
      BY <2>2, <2>3 DEF OwnerInv, PanicPath, Holding
    <3> QED
      BY <2>1, <3>1, OwnerStays
  <2>4. CASE pc[w] \in {"panic_flag", "panic_reason"}
    <3>1. pc[w] \in Owning /\ p \in Owning /\ p \notin Holding \cup {"panic_flag"}
          /\ p \in {"panic_reason", "release"}
      BY <2>2, <2>4, HoldingOwns DEF Holding
    <3> QED
      BY <2>1, <3>1, OwnerMoves
  <2> QED
    BY <2>2, <2>3, <2>4
<1>12. CASE RereadDevice(w)
  BY <1>12, ConcludeKeepsOwners DEF RereadDevice, At, Holding
<1>13. CASE ExportFails(w) \/ BeginIrreversible(w)
  BY <1>13, ConcludeKeepsOwners DEF ExportFails, BeginIrreversible, At, Holding
<1>14. CASE Publish(w)
  BY <1>14, ConcludeKeepsOwners DEF Publish, At, Holding
<1>15. CASE Report(w)
  <2> DEFINE p == pc'[w]
  <2>1. /\ pc[w] = "report" /\ pc' = [pc EXCEPT ![w] = p]
        /\ p \in {AfterReport(report[w]), OnError(w)}
        /\ UNCHANGED <<active, on, holder, report>>
        /\ \A v \in Workers \ {w} : todo'[v] = todo[v]
    BY <1>0, <1>15 DEF Report, Apply, At, Goto, TypeOK, Actors
  <2>2. /\ report[w] = "panicked" => p = "panic_flag"
        /\ report[w] # "panicked" => p \in {"loop", "leave"}
    BY <2>1 DEF AfterReport, OnError
  <2> HIDE DEF p
  <2>3. report[w] # "panicked" => holder[TargetOf[on[w]]] = on[w]
    BY <2>1 DEF OwnerInv, LeaseHeld, Holding
  <2>4. /\ pc[w] \in Owning /\ p \in Owning /\ p \in Holding \cup {"panic_flag"}
        /\ p \in Holding => p \in {"loop", "leave"}
    BY <2>1, <2>2, HoldingOwns DEF Holding
  <2> QED
    BY <2>1, <2>2, <2>3, <2>4, OwnerMoves
<1>16. CASE Panic(w) \/ LeaveTarget(w)
  <2> DEFINE t == TargetOf[on[w]]
             p == pc'[w]
  <2>1. pc[w] \in Holding \ {"report"} /\ todo[w] = <<>> /\ on[w] \in Jobs
    BY <1>0, <1>16 DEF Panic, LeaveTarget, At, Engaged, Holding
  <2>2. /\ UNCHANGED <<active, on, todo>> /\ pc' = [pc EXCEPT ![w] = p]
        /\ holder' = [holder EXCEPT ![t] = None]
        /\ \A v \in Workers \ {w} : report'[v] = report[v]
    BY <1>0, <1>16 DEF Panic, LeaveTarget, Goto, TypeOK, Actors
  <2>3. \/ p = "report" /\ report'[w] = "panicked"
        \/ p = "release" /\ report'[w] = report[w]
    <3>1. CASE Panic(w)
      <4>1. pc' = [pc EXCEPT ![w] = "report"] /\ report' = [report EXCEPT ![w] = "panicked"]
        BY <3>1 DEF Panic, Goto
      <4> QED
        BY <1>0, <4>1 DEF TypeOK
    <3>2. CASE LeaveTarget(w)
      BY <1>0, <3>2 DEF LeaveTarget, Goto, TypeOK
    <3> QED
      BY <1>16, <3>1, <3>2
  <2> HIDE DEF p
  <2>4. holder[t] = on[w] /\ t \in Targets /\ pc[w] \in Owning
    BY <2>1, MapsAssumption, HoldingOwns DEF OwnerInv, LeaseHeld
  <2>5. \A v \in Workers \ {w} : pc[v] \in Holding =>
          holder'[TargetOf[on[v]]] = holder[TargetOf[on[v]]] \/ holder[TargetOf[on[v]]] # on[v]
    <3> SUFFICES ASSUME NEW v \in Workers \ {w}, pc[v] \in Holding
                 PROVE  \/ holder'[TargetOf[on[v]]] = holder[TargetOf[on[v]]]
                        \/ holder[TargetOf[on[v]]] # on[v]
      OBVIOUS
    <3>1. on[v] # on[w]
      BY <2>4, HoldingOwns DEF OwnerInv, OneWorkerPerJob
    <3>2. CASE TargetOf[on[v]] = t
      BY <2>4, <3>1, <3>2
    <3>3. CASE TargetOf[on[v]] # t
      BY <2>2, <3>3 DEF TypeOK
    <3> QED
      BY <3>2, <3>3
  <2>6. p \in Owning /\ p # "panic_flag" /\ (p \in Holding => p = "report")
        /\ p \in {"report", "panic_flag", "panic_reason", "release"}
    BY <2>3, HoldingOwns DEF Holding
  <2> QED
    BY <2>1, <2>2, <2>3, <2>4, <2>5, <2>6, OwnerMoves DEF Holding
<1>17. CASE ReleaseJob(w)
  <2>1. /\ pc[w] = "release" /\ todo[w] = <<>> /\ on[w] \in Jobs
        /\ pc'[w] = "idle" /\ report'[w] = "none" /\ UNCHANGED <<holder, todo>>
        /\ \A v \in Workers \ {w} : pc'[v] = pc[v] /\ on'[v] = on[v] /\ report'[v] = report[v]
        /\ \A j \in Jobs \ {on[w]} : active'[j] = active[j]
    BY <1>0, <1>17 DEF ReleaseJob, At, Goto, Engaged, TypeOK, Actors
  <2>2. pc'[w] \notin Owning /\ pc'[w] \notin Holding /\ pc'[w] # "panic_flag"
    BY <2>1 DEF Owning, Holding
  <2>3. \A v \in Workers \ {w} : pc[v] \in Owning => on[v] \in Jobs \ {on[w]}
    BY <2>1, HoldingOwns DEF OwnerInv, OneWorkerPerJob, Engaged, Actors, Owning
  <2>4. DriverIsActive' /\ OneWorkerPerJob'
    BY <2>1, <2>2, <2>3 DEF OwnerInv, DriverIsActive, OneWorkerPerJob
  <2>5. EffectsInside' /\ LeaseHeld'
    BY <2>1, <2>2 DEF OwnerInv, EffectsInside, LeaseHeld
  <2>6. PanicPath'
    BY <2>1, <2>2 DEF OwnerInv, PanicPath
  <2> QED
    BY <2>4, <2>5, <2>6 DEF OwnerInv
<1> QED
  BY <1>1, <1>2, <1>3, <1>4, <1>5, <1>6, <1>7, <1>8, <1>9, <1>10, <1>11, <1>12, <1>13, <1>14,
     <1>15, <1>16, <1>17 DEF WorkerRuns, WorkerBreaks

(* A step of the dispatcher, of a user or of a device does not touch the workers. *)
LEMMA OthersKeepOwners ==
  ASSUME TypeInv, OwnerInv,
         \/ DispatcherRuns
         \/ \E u \in Users : UserRuns(u) \/ UserIssues(u)
         \/ \E d \in Devices : DeviceChanges(d)
  PROVE  OwnerInv'
<1> USE DEF TypeInv, jobVars, controlVars, sharedVars, localVars, budgets
<1>1. CASE DispatcherRuns
  <2>1. /\ UNCHANGED <<active, holder>>
        /\ \A w \in Workers : pc'[w] = pc[w] /\ on'[w] = on[w] /\ report'[w] = report[w]
                              /\ todo'[w] = todo[w]
    BY <1>1, ActorsAssumption
       DEF DispatcherRuns, TickRead, TickCheck, TickProbe, TickObserved, Goto, TypeOK, Actors
  <2> QED
    BY <2>1, OwnersUntouched
<1>2. ASSUME NEW u \in Users, UserRuns(u) \/ UserIssues(u) PROVE OwnerInv'
  <2>1. /\ UNCHANGED <<active, holder>>
        /\ \A w \in Workers : pc'[w] = pc[w] /\ on'[w] = on[w] /\ report'[w] = report[w]
                              /\ todo'[w] = todo[w]
    <3>1. u \notin Workers
      BY ActorsAssumption
    <3>2. CASE UserRuns(u)
      BY <3>1, <3>2 DEF UserRuns, FinalizeCancel, CancelReturns, Apply, Goto, TypeOK, Actors
    <3>3. CASE UserIssues(u)
      BY <3>1, <3>3 DEF UserIssues, Pause, Resume, Cancel, Issue, Apply, Goto, TypeOK, Actors
    <3> QED
      BY <1>2, <3>2, <3>3
  <2> QED
    BY <2>1, OwnersUntouched
<1>3. ASSUME NEW d \in Devices, DeviceChanges(d) PROVE OwnerInv'
  BY <1>3, OwnersUntouched DEF DeviceChanges
<1> QED
  BY <1>1, <1>2, <1>3

(* The ownership invariant holds in every reachable state. *)
LEMMA Ownership == Spec => [](TypeInv /\ OwnerInv)
<1>1. Init => TypeInv /\ OwnerInv
  <2>1. Init => OwnerInv
    BY DEF Init, OwnerInv, DriverIsActive, OneWorkerPerJob, EffectsInside, LeaseHeld, PanicPath,
           Owning, Holding, Actors
  <2> QED
    BY <2>1, InitTypes
<1>2. TypeInv /\ OwnerInv /\ [Next]_vars => (TypeInv /\ OwnerInv)'
  <2> SUFFICES ASSUME TypeInv, OwnerInv, [Next]_vars PROVE OwnerInv'
    BY TypeStep
  <2>1. ASSUME NEW a \in Actors, Perform(a) \/ Fails(a) \/ Observe(a) PROVE OwnerInv'
    BY <2>1, PerformKeepsOwners, ObserveKeepsOwners
  <2>2. ASSUME NEW w \in Workers, WorkerRuns(w) \/ WorkerBreaks(w) PROVE OwnerInv'
    BY <2>2, WorkerKeepsOwners
  <2>3. CASE UNCHANGED vars
    BY <2>3, OwnersUntouched DEF vars, controlVars, sharedVars, localVars
  <2> QED
    BY <2>1, <2>2, <2>3, OthersKeepOwners DEF Next, Quiescent
<1> QED
  BY <1>1, <1>2, PTL DEF Spec

(* JobControl::try_claim: however often a job is scheduled, and however    *)
(* many workers pop it, at most one of them drives it.                     *)
THEOREM SingleWorker == Spec => []OneWorkerPerJob
<1>1. OwnerInv => OneWorkerPerJob
  BY DEF OwnerInv
<1> QED
  BY <1>1, Ownership, PTL

(* TargetLeases: two jobs for the same directory never write it at the     *)
(* same time, through any number of panics, failures and retries.          *)
THEOREM SingleWriter == Spec => []OneWriterPerTarget
<1>1. TypeInv /\ OwnerInv => OneWriterPerTarget
  <2> SUFFICES ASSUME OwnerInv, NEW v \in Workers, NEW w \in Workers, v # w,
                      pc[v] \in Writing, pc[w] \in Writing, TargetOf[on[v]] = TargetOf[on[w]]
               PROVE  FALSE
    BY DEF OneWriterPerTarget
  <2>1. holder[TargetOf[on[v]]] = on[v] /\ holder[TargetOf[on[w]]] = on[w]
    BY HoldingOwns DEF OwnerInv, LeaseHeld
  <2>2. on[v] # on[w]
    BY HoldingOwns DEF OwnerInv, OneWorkerPerJob
  <2> QED
    BY <2>1, <2>2
<1> QED
  BY <1>1, Ownership, PTL

-----------------------------------------------------------------------------
(* Lists of effects.                                                       *)

IsCommit(e) == e.kind = "commit"

(* The commits of a list lead to states of S. *)
CommitsIn(list, S) == \A i \in 1..Len(list) : IsCommit(list[i]) => list[i].arg \in S
NoCommit(list) == CommitsIn(list, {})

(* One or two commits along the graph, and none after them. *)
Route1(s, list) ==
  /\ list # <<>> /\ IsCommit(Head(list)) /\ IsLegalTransition(s, Head(list).arg)
  /\ NoCommit(Tail(list))
Route2(s, list) ==
  /\ list # <<>> /\ IsCommit(Head(list)) /\ IsLegalTransition(s, Head(list).arg)
  /\ Route1(Head(list).arg, Tail(list))
Routed(s, list) == Route1(s, list) \/ Route2(s, list)

(* A plan for a job in state s: its commits, if it has any, are a route from *)
(* s, with at most one effect, not an await, before them.                    *)
Plan(s, list) ==
  \/ NoCommit(list)
  \/ Routed(s, list)
  \/ list # <<>> /\ ~IsCommit(Head(list)) /\ Head(list) # Await /\ Routed(s, Tail(list))

(* The states a list commits are those of its first effect and of the rest. *)
LEMMA Commitless ==
  ASSUME NEW list \in Seq(Effects), list # <<>>, NEW S
  PROVE  CommitsIn(list, S) <=> (IsCommit(Head(list)) => Head(list).arg \in S)
                                 /\ CommitsIn(Tail(list), S)
<1>1. Len(Tail(list)) = Len(list) - 1 /\ \A i \in 1..Len(Tail(list)) : Tail(list)[i] = list[i + 1]
  OBVIOUS
<1>2. Len(list) \in Nat /\ Len(list) > 0 /\ Head(list) = list[1]
  OBVIOUS
<1>3. ASSUME CommitsIn(list, S)
      PROVE  (IsCommit(Head(list)) => Head(list).arg \in S) /\ CommitsIn(Tail(list), S)
  <2>1. IsCommit(list[1]) => list[1].arg \in S
    BY <1>2, <1>3 DEF CommitsIn
  <2>2. ASSUME NEW i \in 1..Len(Tail(list)), IsCommit(Tail(list)[i]) PROVE Tail(list)[i].arg \in S
    BY <1>1, <1>2, <1>3, <2>2 DEF CommitsIn
  <2> QED
    BY <1>2, <2>1, <2>2 DEF CommitsIn
<1>4. ASSUME IsCommit(Head(list)) => Head(list).arg \in S, CommitsIn(Tail(list), S)
      PROVE  CommitsIn(list, S)
  <2> SUFFICES ASSUME NEW i \in 1..Len(list), IsCommit(list[i]) PROVE list[i].arg \in S
    BY DEF CommitsIn
  <2>1. CASE i = 1
    BY <1>2, <1>4, <2>1
  <2>2. CASE i # 1
    <3>1. i - 1 \in 1..Len(Tail(list)) /\ Tail(list)[i - 1] = list[i]
      BY <1>1, <1>2, <2>2
    <3> QED
      BY <1>4, <3>1 DEF CommitsIn
  <2> QED
    BY <2>1, <2>2
<1> QED
  BY <1>3, <1>4

(* An effect put in front of a list is its head. *)
LEMMA PrependFacts ==
  ASSUME NEW e \in Effects, NEW list \in Seq(Effects)
  PROVE  /\ <<e>> \o list \in Seq(Effects) /\ <<e>> \o list # <<>>
         /\ Head(<<e>> \o list) = e /\ Tail(<<e>> \o list) = list
<1>1. <<e>> \in Seq(Effects) /\ Len(<<e>>) = 1
  OBVIOUS
<1>2. /\ <<e>> \o list \in Seq(Effects) /\ Len(<<e>> \o list) = 1 + Len(list)
      /\ (<<e>> \o list)[1] = e /\ \A i \in 1..Len(list) : (<<e>> \o list)[i + 1] = list[i]
  BY <1>1
<1>3. Tail(<<e>> \o list) = list
  BY <1>2
<1> QED
  BY <1>2, <1>3

(* An empty list commits nothing. *)
LEMMA NothingToCommit ==
  ASSUME NEW S PROVE CommitsIn(<<>>, S)
BY DEF CommitsIn

(* What is left of a plan once its first effect is performed is a plan.    *)
LEMMA PlanContinues ==
  ASSUME NEW s, NEW list \in Seq(Effects), list # <<>>, Plan(s, list)
  PROVE  /\ IsCommit(Head(list)) =>
              IsLegalTransition(s, Head(list).arg) /\ Plan(Head(list).arg, Tail(list))
         /\ ~IsCommit(Head(list)) => Plan(s, Tail(list))
         /\ ~IsCommit(Head(list)) =>
              \A e \in Effects : ~IsCommit(e) /\ e # Await => Plan(s, <<e>> \o Tail(list))
         /\ Head(list) = Await => NoCommit(list) /\ NoCommit(Tail(list))
<1>0. Tail(list) \in Seq(Effects) /\ ~IsCommit(Await)
  BY DEF IsCommit, Await
<1>1. NoCommit(list) => ~IsCommit(Head(list)) /\ NoCommit(Tail(list))
  BY Commitless DEF NoCommit
<1>2. ASSUME IsCommit(Head(list))
      PROVE  IsLegalTransition(s, Head(list).arg) /\ Plan(Head(list).arg, Tail(list))
  BY <1>1, <1>2 DEF Plan, Routed, Route1, Route2
<1>3. ASSUME ~IsCommit(Head(list)) PROVE Plan(s, Tail(list))
  BY <1>1, <1>3 DEF Plan, Routed, Route1, Route2
<1>4. ASSUME ~IsCommit(Head(list)), NEW e \in Effects, ~IsCommit(e), e # Await
      PROVE  Plan(s, <<e>> \o Tail(list))
  <2> DEFINE next == <<e>> \o Tail(list)
  <2>1. next \in Seq(Effects) /\ next # <<>> /\ Head(next) = e /\ Tail(next) = Tail(list)
    BY <1>0, <1>4, PrependFacts
  <2> HIDE DEF next
  <2>2. NoCommit(list) => NoCommit(next)
    BY <1>1, <1>4, <2>1, Commitless DEF NoCommit
  <2>3. Plan(s, next)
    BY <1>4, <2>1, <2>2 DEF Plan, Routed, Route1, Route2
  <2> QED
    BY <2>3 DEF next
<1>5. ASSUME Head(list) = Await PROVE NoCommit(list) /\ NoCommit(Tail(list))
  BY <1>0, <1>1, <1>5 DEF Plan, Routed, Route1, Route2
<1> QED
  BY <1>2, <1>3, <1>4, <1>5

(* Plans with no, one and two commits. *)
LEMMA PlansOf ==
  ASSUME NEW s, NEW list \in Seq(Effects), NoCommit(list)
  PROVE  /\ Plan(s, list)
         /\ \A x \in States : IsLegalTransition(s, x) => Routed(s, <<Commit(x)>> \o list)
         /\ \A x, y \in States : IsLegalTransition(s, x) /\ IsLegalTransition(x, y) =>
              Routed(s, <<Commit(x)>> \o (<<Commit(y)>> \o list))
<1>1. ASSUME NEW t, NEW x \in States, IsLegalTransition(t, x)
      PROVE  <<Commit(x)>> \o list \in Seq(Effects) /\ Route1(t, <<Commit(x)>> \o list)
  <2> DEFINE next == <<Commit(x)>> \o list
  <2>0. Commit(x) \in Effects /\ Commit(x).kind = "commit" /\ Commit(x).arg = x
    BY EffectTypes DEF Commit
  <2>1. next \in Seq(Effects) /\ next # <<>> /\ Head(next) = Commit(x) /\ Tail(next) = list
    BY <2>0, PrependFacts
  <2> HIDE DEF next
  <2>2. Route1(t, next)
    BY <1>1, <2>0, <2>1 DEF Route1, IsCommit
  <2> QED
    BY <2>1, <2>2 DEF next
<1>2. ASSUME NEW x \in States, NEW y \in States, IsLegalTransition(s, x), IsLegalTransition(x, y)
      PROVE  Route2(s, <<Commit(x)>> \o (<<Commit(y)>> \o list))
  <2> DEFINE rest == <<Commit(y)>> \o list
             next == <<Commit(x)>> \o rest
  <2>1. rest \in Seq(Effects) /\ Route1(x, rest)
    BY <1>1, <1>2
  <2> HIDE DEF rest
  <2>0. Commit(x) \in Effects /\ Commit(x).kind = "commit" /\ Commit(x).arg = x
    BY EffectTypes DEF Commit
  <2>2. next \in Seq(Effects) /\ next # <<>> /\ Head(next) = Commit(x) /\ Tail(next) = rest
    BY <2>0, <2>1, PrependFacts
  <2> HIDE DEF next
  <2>3. Route2(s, next)
    BY <1>2, <2>0, <2>1, <2>2 DEF Route2, IsCommit
  <2> QED
    BY <2>3 DEF next, rest
<1> QED
  BY <1>1, <1>2 DEF Plan, Routed

(* The states a device reading leads to. *)
ParkTargets == {"queued", "waiting_for_device", "waiting_for_pairing", "paused_capture_active",
                "preparing"}

(* A job in one of these states is not written again. *)
Ending == {"cancelling"} \cup Terminal

-----------------------------------------------------------------------------
(* Every decision of the reducer is a plan from the state it was made on.  *)

(* Only Commit moves a job; no other effect is taken for it or for Await. *)
LEMMA EffectKinds ==
  /\ \A d : ~IsCommit(SetDesired(d))
  /\ \A r : ~IsCommit(RequestInterrupt(r))
  /\ ~IsCommit(ClearInterrupt) /\ ~IsCommit(Await) /\ ~IsCommit(Dispatch)
  /\ ~IsCommit(RecordDeviceVersion) /\ ~IsCommit(RaiseFlag) /\ ~IsCommit(LowerReason)
  /\ \A r : RequestInterrupt(r) # Await
  /\ \A d : SetDesired(d) # Await
  /\ Await \notin {ClearInterrupt, Dispatch, RecordDeviceVersion, RaiseFlag, LowerReason}
BY DEF IsCommit, SetDesired, RequestInterrupt, ClearInterrupt, Await, Dispatch,
       RecordDeviceVersion, RaiseFlag, LowerReason

(* The lists the reducer writes down, as one effect after the other. *)
LEMMA ListForms ==
  ASSUME NEW a \in Effects, NEW b \in Effects, NEW c \in Effects, NEW d \in Effects
  PROVE  /\ <<a, b>> = <<a>> \o <<b>>
         /\ <<a, b, c>> = <<a>> \o <<b, c>>
         /\ <<a, b, c, d>> = <<a>> \o <<b, c, d>>
         /\ <<a>> = <<a>> \o <<>>
<1>1. <<a, b>> = <<a>> \o <<b>>
  <2> DEFINE x == <<a>> \o <<b>>
             y == <<a, b>>
  <2>1. x \in Seq(Effects) /\ Len(x) = 2 /\ x[1] = a /\ x[2] = b
    OBVIOUS
  <2>2. y \in Seq(Effects) /\ Len(y) = 2 /\ y[1] = a /\ y[2] = b
    OBVIOUS
  <2> HIDE DEF x, y
  <2>3. x = y
    BY <2>1, <2>2
  <2> QED
    BY <2>3 DEF x, y
<1>2. <<a, b, c>> = <<a>> \o <<b, c>>
  OBVIOUS
<1>3. <<a, b, c, d>> = <<a>> \o <<b, c, d>>
  OBVIOUS
<1>4. <<a>> = <<a>> \o <<>>
  OBVIOUS
<1> QED
  BY <1>1, <1>2, <1>3, <1>4

(* An effect that is no commit, put before a list. *)
LEMMA PrependPlan ==
  ASSUME NEW s, NEW e \in Effects, NEW list \in Seq(Effects), ~IsCommit(e)
  PROVE  /\ \A S : CommitsIn(list, S) => CommitsIn(<<e>> \o list, S)
         /\ Routed(s, list) /\ e # Await => Plan(s, <<e>> \o list)
<1> DEFINE next == <<e>> \o list
<1>1. next \in Seq(Effects) /\ next # <<>> /\ Head(next) = e /\ Tail(next) = list
  BY PrependFacts
<1> HIDE DEF next
<1>2. ASSUME NEW S, CommitsIn(list, S) PROVE CommitsIn(next, S)
  BY <1>1, <1>2, Commitless
<1>3. Routed(s, list) /\ e # Await => Plan(s, next)
  BY <1>1 DEF Plan
<1> QED
  BY <1>2, <1>3 DEF next

(* A commit put in front of a list adds its state to those committed. *)
LEMMA PrependCommit ==
  ASSUME NEW x \in States, NEW list \in Seq(Effects), NEW S, x \in S, CommitsIn(list, S)
  PROVE  <<Commit(x)>> \o list \in Seq(Effects) /\ CommitsIn(<<Commit(x)>> \o list, S)
<1> DEFINE next == <<Commit(x)>> \o list
<1>0. Commit(x) \in Effects /\ Commit(x).arg = x
  BY EffectTypes DEF Commit
<1>1. next \in Seq(Effects) /\ next # <<>> /\ Head(next) = Commit(x) /\ Tail(next) = list
  BY <1>0, PrependFacts
<1> HIDE DEF next
<1>2. CommitsIn(next, S)
  BY <1>0, <1>1, Commitless
<1> QED
  BY <1>1, <1>2 DEF next

(* The commits of a route lead where it was asked to lead, or to queued first. *)
LEMMA RoutePlan ==
  ASSUME NEW s \in States, NEW target \in States
  PROVE  /\ Plan(s, <<RecordDeviceVersion>> \o Commits(Route(s, target)))
         /\ CommitsIn(<<RecordDeviceVersion>> \o Commits(Route(s, target)), {"queued", target})
         /\ Route(s, target) # <<>> => Routed(s, Commits(Route(s, target)))
<1> DEFINE list == Commits(Route(s, target))
<1>0. <<>> \in Seq(Effects) /\ NoCommit(<<>>) /\ "queued" \in States
  BY NothingToCommit DEF NoCommit, States, Parked
<1>1. \/ Route(s, target) = <<target>> /\ IsLegalTransition(s, target)
      \/ /\ Route(s, target) = <<"queued", target>>
         /\ IsLegalTransition(s, "queued") /\ IsLegalTransition("queued", target)
      \/ Route(s, target) = <<>>
  BY DEF Route
<1>2. /\ Commit(target) \in Effects /\ Commit("queued") \in Effects
      /\ RecordDeviceVersion \in Effects /\ ~IsCommit(RecordDeviceVersion)
      /\ RecordDeviceVersion # Await
  BY <1>0, EffectTypes, EffectKinds
<1>3. CASE Route(s, target) = <<target>> /\ IsLegalTransition(s, target)
  <2>1. list = <<Commit(target)>>
    BY <1>3 DEF Commits
  <2>2. list = <<Commit(target)>> \o <<>>
    BY <1>2, <2>1, ListForms
  <2>3. Routed(s, list) /\ list \in Seq(Effects) /\ CommitsIn(list, {"queued", target})
    BY <1>0, <1>3, <2>2, PlansOf, PrependCommit, NothingToCommit
  <2> HIDE DEF list
  <2>4. /\ Plan(s, <<RecordDeviceVersion>> \o list)
        /\ CommitsIn(<<RecordDeviceVersion>> \o list, {"queued", target})
    BY <1>2, <2>3, PrependPlan
  <2> QED
    BY <2>3, <2>4 DEF list
<1>4. CASE /\ Route(s, target) = <<"queued", target>>
           /\ IsLegalTransition(s, "queued") /\ IsLegalTransition("queued", target)
  <2>1. list = <<Commit("queued"), Commit(target)>>
    BY <1>4 DEF Commits
  <2>2. list = <<Commit("queued")>> \o (<<Commit(target)>> \o <<>>)
    BY <1>2, <2>1, ListForms
  <2>3. Routed(s, list)
    BY <1>0, <1>4, <2>2, PlansOf
  <2>4. /\ <<Commit(target)>> \o <<>> \in Seq(Effects)
        /\ CommitsIn(<<Commit(target)>> \o <<>>, {"queued", target})
    BY <1>0, PrependCommit, NothingToCommit
  <2>5. list \in Seq(Effects) /\ CommitsIn(list, {"queued", target})
    BY <1>0, <2>2, <2>4, PrependCommit
  <2> HIDE DEF list
  <2>6. /\ Plan(s, <<RecordDeviceVersion>> \o list)
        /\ CommitsIn(<<RecordDeviceVersion>> \o list, {"queued", target})
    BY <1>2, <2>3, <2>5, PrependPlan
  <2> QED
    BY <2>3, <2>6 DEF list
<1>5. CASE Route(s, target) = <<>>
  <2>1. list = <<>>
    BY <1>5 DEF Commits
  <2> HIDE DEF list
  <2>2. \A S : CommitsIn(<<RecordDeviceVersion>> \o list, S)
    BY <1>0, <1>2, <2>1, PrependPlan, NothingToCommit
  <2>3. Plan(s, <<RecordDeviceVersion>> \o list)
    BY <2>2 DEF Plan, NoCommit
  <2> QED
    BY <1>5, <2>2, <2>3 DEF list
<1> QED
  BY <1>1, <1>3, <1>4, <1>5

(* A commit first, then effects that are none. *)
LEMMA CommitThen ==
  ASSUME NEW s, NEW x \in States, IsLegalTransition(s, x), NEW list \in Seq(Effects),
         NoCommit(list), NEW S, x \in S
  PROVE  /\ <<Commit(x)>> \o list \in Seq(Effects)
         /\ Routed(s, <<Commit(x)>> \o list) /\ Plan(s, <<Commit(x)>> \o list)
         /\ CommitsIn(<<Commit(x)>> \o list, S)
<1>1. CommitsIn(list, S)
  BY DEF NoCommit, CommitsIn
<1> QED
  BY <1>1, PlansOf, PrependCommit DEF Plan

(* Two legal edges in a row, then effects that commit nothing, are a plan: *)
(* the route through queued.                                               *)
LEMMA CommitCommitThen ==
  ASSUME NEW s, NEW x \in States, NEW y \in States, IsLegalTransition(s, x),
         IsLegalTransition(x, y), NEW list \in Seq(Effects), NoCommit(list), NEW S, x \in S, y \in S
  PROVE  /\ Plan(s, <<Commit(x)>> \o (<<Commit(y)>> \o list))
         /\ CommitsIn(<<Commit(x)>> \o (<<Commit(y)>> \o list), S)
<1>1. <<Commit(y)>> \o list \in Seq(Effects) /\ CommitsIn(<<Commit(y)>> \o list, S)
  BY CommitThen
<1> QED
  BY <1>1, PlansOf, PrependCommit DEF Plan

(* One or two effects that are no commits make a list that commits nothing. *)
LEMMA ShortLists ==
  /\ \A e \in Effects : ~IsCommit(e) => <<e>> \in Seq(Effects) /\ NoCommit(<<e>>)
  /\ \A e, f \in Effects : ~IsCommit(e) /\ ~IsCommit(f) =>
       <<e, f>> \in Seq(Effects) /\ NoCommit(<<e, f>>)
<1>1. ASSUME NEW e \in Effects, ~IsCommit(e) PROVE <<e>> \in Seq(Effects) /\ NoCommit(<<e>>)
  BY <1>1 DEF NoCommit, CommitsIn
<1>2. ASSUME NEW e \in Effects, NEW f \in Effects, ~IsCommit(e), ~IsCommit(f)
      PROVE  <<e, f>> \in Seq(Effects) /\ NoCommit(<<e, f>>)
  BY <1>2 DEF NoCommit, CommitsIn
<1> QED
  BY <1>1, <1>2

(* pause commits nothing; resume at most queued, from retry_wait. *)
LEMMA PauseAndResume ==
  ASSUME NEW s \in States
  PROVE  /\ NoCommit(DecidePause(s).effects)
         /\ Plan(s, DecideResume(s).effects) /\ CommitsIn(DecideResume(s).effects, {"queued"})
<1> USE EffectTypes, EffectKinds
<1>1. NoCommit(DecidePause(s).effects)
  <2>1. NoCommit(<<>>)
    BY NothingToCommit DEF NoCommit
  <2>2. NoCommit(<<SetDesired("paused"), RequestInterrupt("user_pause"), Await, ClearInterrupt>>)
    BY DEF NoCommit, CommitsIn
  <2> QED
    BY <2>1, <2>2 DEF DecidePause, Accepted, Rejected
<1>2. ASSUME NEW list, NoCommit(list) PROVE Plan(s, list) /\ CommitsIn(list, {"queued"})
  BY <1>2 DEF Plan, NoCommit, CommitsIn
<1>3. NoCommit(<<>>) /\ NoCommit(<<SetDesired("run"), Dispatch>>)
  <2>1. SetDesired("run") \in Effects
    BY DEF Desires
  <2> QED
    BY <2>1, ShortLists, NothingToCommit DEF NoCommit
<1>4. ASSUME s = "retry_wait"
      PROVE  /\ Plan(s, <<SetDesired("run"), Commit("queued"), Dispatch>>)
             /\ CommitsIn(<<SetDesired("run"), Commit("queued"), Dispatch>>, {"queued"})
  <2>1. IsLegalTransition(s, "queued") /\ "queued" \in States
    BY <1>4 DEF IsLegalTransition, Edges, States, Parked
  <2>2. <<Dispatch>> \in Seq(Effects) /\ NoCommit(<<Dispatch>>)
    BY ShortLists
  <2> DEFINE rest == <<Commit("queued")>> \o <<Dispatch>>
             list == <<SetDesired("run"), Commit("queued"), Dispatch>>
  <2>3. rest \in Seq(Effects) /\ Routed(s, rest) /\ CommitsIn(rest, {"queued"})
    BY <2>1, <2>2, CommitThen
  <2>4. /\ SetDesired("run") \in Effects /\ Commit("queued") \in Effects
        /\ ~IsCommit(SetDesired("run")) /\ SetDesired("run") # Await
    BY <2>1 DEF Desires
  <2>5. list = <<SetDesired("run")>> \o rest
    BY <2>4, ListForms
  <2> HIDE DEF rest, list
  <2>6. Plan(s, list) /\ CommitsIn(list, {"queued"})
    BY <2>3, <2>4, <2>5, PrependPlan
  <2> QED
    BY <2>6 DEF list
<1>5. Plan(s, DecideResume(s).effects) /\ CommitsIn(DecideResume(s).effects, {"queued"})
  <2>1. \/ DecideResume(s).effects = <<>>
        \/ s = "retry_wait"
           /\ DecideResume(s).effects = <<SetDesired("run"), Commit("queued"), Dispatch>>
        \/ DecideResume(s).effects = <<SetDesired("run"), Dispatch>>
    BY DEF DecideResume, Accepted, Rejected
  <2> QED
    BY <2>1, <1>2, <1>3, <1>4
<1> QED
  BY <1>1, <1>5

(* From every state that is not terminal a job can be cancelled, in two steps. *)
LEMMA CancelEdges ==
  /\ \A s \in States \ (Terminal \cup {"cancelling"}) : IsLegalTransition(s, "cancelling")
  /\ IsLegalTransition("cancelling", "cancelled")
  /\ IsLegalTransition("cancelling", "failed_permanent")
  /\ {"cancelling", "cancelled", "failed_permanent"} \subseteq States
BY DEF IsLegalTransition, Edges, States, Parked, Terminal, Failed

(* cancel asks for the interrupt first and waits last. *)
LEMMA CancelPlan ==
  ASSUME NEW s \in States
  PROVE  LET list == DecideCancel(s).effects IN
         /\ Plan(s, list) /\ CommitsIn(list, {"cancelling"})
         /\ s \in Terminal => list = <<>> /\ DecideCancel(s).outcome \in Refusals
         /\ s \notin Terminal => /\ list # <<>> /\ Head(list) = RequestInterrupt("cancel")
                                 /\ list[Len(list)] = Await
                                 /\ DecideCancel(s).outcome \notin Refusals
         /\ NoCommit(list) => s \in Ending
<1> USE EffectTypes, EffectKinds
<1> DEFINE cancel == RequestInterrupt("cancel")
<1>0. cancel \in Effects /\ ~IsCommit(cancel) /\ cancel # Await
  BY DEF Reasons
<1>1. CASE s \in Terminal
  <2>1. DecideCancel(s).effects = <<>> /\ DecideCancel(s).outcome \in Refusals
    BY <1>1 DEF DecideCancel, Rejected, Refusals, Terminal, Failed
  <2> QED
    BY <1>1, <2>1, NothingToCommit DEF Plan, NoCommit, Ending
<1>2. CASE s = "cancelling"
  <2> DEFINE list == <<cancel, Dispatch, Await>>
  <2>1. DecideCancel(s).effects = list /\ DecideCancel(s).outcome \notin Refusals /\ s \notin Terminal
    BY <1>2 DEF DecideCancel, Accepted, Refusals, Terminal, Failed
  <2>2. list # <<>> /\ Head(list) = cancel /\ list[Len(list)] = Await
    OBVIOUS
  <2>3. NoCommit(list)
    BY <1>0 DEF NoCommit, CommitsIn
  <2>4. Plan(s, list) /\ CommitsIn(list, {"cancelling"})
    BY <2>3 DEF Plan, NoCommit, CommitsIn
  <2>5. s \in Ending
    BY <1>2 DEF Ending
  <2> HIDE DEF list
  <2> QED
    BY <2>1, <2>2, <2>4, <2>5
<1>3. CASE s \notin Terminal \cup {"cancelling"}
  <2> DEFINE list == <<cancel, Commit("cancelling"), Dispatch, Await>>
             rest == <<Commit("cancelling")>> \o <<Dispatch, Await>>
  <2>1. DecideCancel(s).effects = list /\ DecideCancel(s).outcome \notin Refusals
    BY <1>3 DEF DecideCancel, Accepted, Refusals
  <2>2. list # <<>> /\ Head(list) = cancel /\ list[Len(list)] = Await
    OBVIOUS
  <2>3. IsLegalTransition(s, "cancelling") /\ "cancelling" \in States
    BY <1>3, CancelEdges
  <2>4. <<Dispatch, Await>> \in Seq(Effects) /\ NoCommit(<<Dispatch, Await>>)
    BY ShortLists
  <2>5. rest \in Seq(Effects) /\ Routed(s, rest) /\ CommitsIn(rest, {"cancelling"})
    BY <2>3, <2>4, CommitThen
  <2>6. Commit("cancelling") \in Effects
    BY <2>3
  <2>7. list = <<cancel>> \o rest
    BY <1>0, <2>6, ListForms
  <2>8. ~NoCommit(list)
    <3>1. list[2] = Commit("cancelling") /\ Len(list) = 4
      OBVIOUS
    <3> QED
      BY <3>1 DEF NoCommit, CommitsIn, IsCommit, Commit
  <2> HIDE DEF rest, list
  <2>9. Plan(s, list) /\ CommitsIn(list, {"cancelling"})
    BY <1>0, <2>5, <2>7, PrependPlan
  <2> QED
    BY <1>3, <2>1, <2>2, <2>8, <2>9
<1> QED
  BY <1>1, <1>2, <1>3

(* finalize_cancel: nothing, cancelled, or cancelling and then cancelled. *)
LEMMA FinalizePlan ==
  ASSUME NEW s \in States
  PROVE  LET list == DecideFinalizeCancel(s).effects IN
         Plan(s, list) /\ CommitsIn(list, {"cancelling", "cancelled"})
<1> USE EffectTypes, EffectKinds
<1>0. <<ClearInterrupt>> \in Seq(Effects) /\ NoCommit(<<ClearInterrupt>>)
  BY ShortLists
<1>1. CASE s \in Terminal
  <2>1. DecideFinalizeCancel(s).effects = <<>>
    BY <1>1 DEF DecideFinalizeCancel, NoOp, Rejected, Terminal, Failed
  <2> QED
    BY <2>1, NothingToCommit DEF Plan, NoCommit
<1>2. CASE s = "cancelling"
  <2> DEFINE list == <<Commit("cancelled"), ClearInterrupt>>
  <2>1. DecideFinalizeCancel(s).effects = list
    BY <1>2 DEF DecideFinalizeCancel, Accepted, Terminal, Failed
  <2>2. Commit("cancelled") \in Effects
    BY CancelEdges
  <2>3. list = <<Commit("cancelled")>> \o <<ClearInterrupt>>
    BY <2>2, ListForms
  <2> HIDE DEF list
  <2>4. Plan(s, list) /\ CommitsIn(list, {"cancelling", "cancelled"})
    BY <1>0, <1>2, <2>3, CommitThen, CancelEdges
  <2> QED
    BY <2>1, <2>4
<1>3. CASE s \notin Terminal \cup {"cancelling"}
  <2> DEFINE list == <<Commit("cancelling"), Commit("cancelled"), ClearInterrupt>>
  <2>1. DecideFinalizeCancel(s).effects = list
    BY <1>3 DEF DecideFinalizeCancel, Accepted, Terminal, Failed
  <2>2. Commit("cancelled") \in Effects /\ Commit("cancelling") \in Effects
    BY CancelEdges
  <2>3. list = <<Commit("cancelling")>> \o (<<Commit("cancelled")>> \o <<ClearInterrupt>>)
    BY <2>2, ListForms
  <2> HIDE DEF list
  <2>4. Plan(s, list) /\ CommitsIn(list, {"cancelling", "cancelled"})
    BY <1>0, <1>3, <2>3, CommitCommitThen, CancelEdges
  <2> QED
    BY <2>1, <2>4
<1> QED
  BY <1>1, <1>2, <1>3

(* What a device reading commits is a parked state or preparing. *)
LEMMA ObservedPlan ==
  ASSUME NEW s \in States, NEW d, NEW fresh, NEW readiness
  PROVE  LET list == DecideDeviceObserved(s, d, fresh, readiness).effects IN
         Plan(s, list) /\ CommitsIn(list, ParkTargets)
<1> USE EffectTypes, EffectKinds
<1> DEFINE decision == DecideDeviceObserved(s, d, fresh, readiness)
           towards(target) == Accepted(<<RecordDeviceVersion>> \o Commits(Route(s, target)))
<1>1. ASSUME NEW list, NoCommit(list) PROVE Plan(s, list) /\ CommitsIn(list, ParkTargets)
  BY <1>1 DEF Plan, NoCommit, CommitsIn
<1>2. /\ NoCommit(<<>>) /\ NoCommit(<<RecordDeviceVersion>>)
      /\ NoCommit(<<RecordDeviceVersion, RequestInterrupt("capture_pause")>>)
      /\ NoCommit(<<RecordDeviceVersion, RequestInterrupt("device_lost")>>)
  <2>1. RequestInterrupt("capture_pause") \in Effects /\ RequestInterrupt("device_lost") \in Effects
    BY DEF Reasons
  <2> QED
    BY <2>1, ShortLists, NothingToCommit DEF NoCommit
<1>3. ASSUME NEW target \in States \cap ParkTargets
      PROVE  Plan(s, towards(target).effects) /\ CommitsIn(towards(target).effects, ParkTargets)
  <2> DEFINE list == <<RecordDeviceVersion>> \o Commits(Route(s, target))
  <2>1. Plan(s, list) /\ CommitsIn(list, {"queued", target})
    BY RoutePlan
  <2>2. towards(target).effects = list
    BY DEF Accepted
  <2> HIDE DEF list
  <2>3. CommitsIn(list, ParkTargets)
    BY <2>1 DEF CommitsIn, ParkTargets
  <2> QED
    BY <2>1, <2>2, <2>3
<1>4. ParkedTarget(readiness) \in States \cap ParkTargets /\ "waiting_for_device" \in States \cap ParkTargets
  BY DEF ParkedTarget, States, Parked, ParkTargets
<1>5. \/ decision.effects \in {<<>>, <<RecordDeviceVersion>>,
                               <<RecordDeviceVersion, RequestInterrupt("capture_pause")>>,
                               <<RecordDeviceVersion, RequestInterrupt("device_lost")>>}
      \/ decision = towards(ParkedTarget(readiness))
      \/ decision = towards("waiting_for_device")
  BY DEF DecideDeviceObserved, NoOp, Accepted
<1> HIDE DEF decision, towards
<1>6. Plan(s, decision.effects) /\ CommitsIn(decision.effects, ParkTargets)
  BY <1>1, <1>2, <1>3, <1>4, <1>5
<1> QED
  BY <1>6 DEF decision

(* A commit of a stage, an interrupted transfer or a panic. *)
LEMMA InterruptedPlan ==
  ASSUME NEW s \in States \ Terminal, NEW why \in Reasons
  PROVE  Plan(s, DecideInterrupted(s, why).effects)
<1> USE EffectTypes, EffectKinds
<1> DEFINE decision == DecideInterrupted(s, why)
           after(x) == <<ClearInterrupt, Commit(x)>>
<1>1. ASSUME s = "transferring", NEW x \in {"failed_network", "paused_capture_active", "retry_wait"}
      PROVE  Plan(s, after(x))
  <2>1. IsLegalTransition(s, x) /\ x \in States
    BY <1>1 DEF IsLegalTransition, Edges, Failed, States, Parked, Terminal
  <2>2. <<>> \in Seq(Effects) /\ NoCommit(<<>>) /\ Commit(x) \in Effects
    BY <2>1, NothingToCommit DEF NoCommit
  <2> DEFINE list == after(x)
             rest == <<Commit(x)>>
  <2>3. rest = <<Commit(x)>> \o <<>> /\ list = <<ClearInterrupt>> \o rest
    BY <2>2, ListForms
  <2> HIDE DEF list, rest
  <2>5. rest \in Seq(Effects) /\ Routed(s, rest)
    BY <2>1, <2>2, <2>3, CommitThen
  <2>6. Plan(s, list)
    BY <2>3, <2>5, PrependPlan
  <2> QED
    BY <2>6 DEF list
<1>2. \/ decision.effects = <<>>
      \/ decision = DecideFinalizeCancel(s)
      \/ s = "transferring" /\ \E x \in {"failed_network", "paused_capture_active", "retry_wait"} :
           decision.effects = after(x)
  BY DEF DecideInterrupted, NoOp, Rejected, Accepted
<1> HIDE DEF decision, after
<1>3. Plan(s, <<>>)
  BY NothingToCommit DEF Plan, NoCommit
<1>4. Plan(s, decision.effects)
  BY <1>1, <1>2, <1>3, FinalizePlan
<1> QED
  BY <1>4 DEF decision

(* A caught panic fails the job, from cancelling if there is no other way. *)
LEMMA PanicPlan ==
  ASSUME NEW s \in States \ Terminal
  PROVE  /\ Plan(s, DecideWorkerPanic(s).effects)
         /\ s = "committing" => CommitsIn(DecideWorkerPanic(s).effects, Terminal \ {"cancelled"})
<1> USE EffectTypes, EffectKinds
<1>0. <<>> \in Seq(Effects) /\ NoCommit(<<>>) /\ {"cancelling", "failed_permanent"} \subseteq States
  BY NothingToCommit, CancelEdges DEF NoCommit
<1>1. CASE Route(s, "failed_permanent") # <<>>
  <2>1. DecideWorkerPanic(s).effects = Commits(Route(s, "failed_permanent"))
    BY <1>1 DEF DecideWorkerPanic, Accepted
  <2>2. Plan(s, Commits(Route(s, "failed_permanent")))
    BY <1>0, <1>1, RoutePlan DEF Plan
  <2>3. ASSUME s = "committing"
        PROVE  CommitsIn(Commits(Route(s, "failed_permanent")), Terminal \ {"cancelled"})
    <3>1. Route(s, "failed_permanent") = <<"failed_permanent">>
      BY <2>3 DEF Route, IsLegalTransition, Edges, Failed
    <3>2. Commits(Route(s, "failed_permanent")) = <<Commit("failed_permanent")>>
      BY <3>1 DEF Commits
    <3>3. Commit("failed_permanent").arg \in Terminal \ {"cancelled"}
      BY DEF Commit, Terminal, Failed
    <3> QED
      BY <3>2, <3>3 DEF CommitsIn
  <2> QED
    BY <2>1, <2>2, <2>3
<1>2. CASE Route(s, "failed_permanent") = <<>>
  <2> DEFINE list == <<Commit("cancelling"), Commit("failed_permanent")>>
  <2>1. DecideWorkerPanic(s).effects = list
    BY <1>2 DEF DecideWorkerPanic, Accepted
  <2>2. IsLegalTransition(s, "cancelling") /\ s # "committing"
    <3>1. ~IsLegalTransition(s, "failed_permanent")
      BY <1>2 DEF Route
    <3>2. s # "cancelling"
      BY <3>1, CancelEdges
    <3>3. s # "committing"
      BY <3>1 DEF IsLegalTransition, Edges, Failed
    <3> QED
      BY <3>2, <3>3, CancelEdges
  <2>3. list = <<Commit("cancelling")>> \o (<<Commit("failed_permanent")>> \o <<>>)
    <3>1. Commit("cancelling") \in Effects /\ Commit("failed_permanent") \in Effects
      BY <1>0
    <3> QED
      BY <3>1, ListForms
  <2> HIDE DEF list
  <2>4. Plan(s, list)
    BY <1>0, <2>2, <2>3, CommitCommitThen, CancelEdges
  <2> QED
    BY <2>1, <2>2, <2>4
<1> QED
  BY <1>1, <1>2

(* What a worker's stage reports is a legal edge from the state the stage *)
(* belongs to; from committing it leads to an end other than cancelled.   *)
LEMMA StageEdges ==
  ASSUME NEW stage \in Stages
  PROVE  /\ IsLegalTransition(ExpectedState(stage), StageTarget(stage))
         /\ StageTarget(stage) \in States
         /\ ExpectedState(stage) = "committing" => StageTarget(stage) \in Terminal \ {"cancelled"}
<1>1. StageTarget(stage) \in States
  BY DEF StageTarget, States, Terminal, Failed, Stages
<1>2. \/ ExpectedState(stage) = "preparing" /\ StageTarget(stage) \in {"transferring", "failed_permanent"}
      \/ ExpectedState(stage) = "transferring"
         /\ StageTarget(stage) \in {"verifying", "failed_network", "failed_retryable", "failed_permanent"}
      \/ ExpectedState(stage) = "verifying" /\ StageTarget(stage) = "committing"
      \/ ExpectedState(stage) = "committing"
         /\ StageTarget(stage) \in {"succeeded", "failed_retryable", "failed_permanent"}
  BY DEF ExpectedState, StageTarget, Stages
<1> QED
  BY <1>1, <1>2 DEF IsLegalTransition, Edges, Failed, Terminal

(* A report is a plan, and once the publication has begun one that ends the *)
(* job without cancelling it.                                               *)
LEMMA WorkerPlan ==
  ASSUME NEW s \in States, NEW what \in Reports
  PROVE  LET list == DecideWorker(s, what).effects IN
         /\ Plan(s, list)
         /\ s \in {"committing"} \cup Terminal /\ (what \in Reasons => s # "committing") =>
              CommitsIn(list, Terminal \ {"cancelled"})
<1> DEFINE decision == DecideWorker(s, what)
<1>0. \A S : Plan(s, <<>>) /\ CommitsIn(<<>>, S)
  BY NothingToCommit DEF Plan, NoCommit
<1>1. \/ decision.effects = <<>>
      \/ s \notin Terminal /\ decision = DecideWorkerPanic(s)
      \/ s \notin Terminal /\ what \in Reasons /\ decision = DecideInterrupted(s, what)
      \/ s \notin Terminal /\ what \in Stages /\ s = ExpectedState(what)
         /\ decision.effects = <<Commit(StageTarget(what))>>
  <2>1. what \in Stages \/ what \in Reasons \/ what = "panicked"
    BY DEF Reports
  <2>2. CASE s \in Terminal
    BY <2>2 DEF DecideWorker, Rejected, Terminal, Failed
  <2>3. CASE s \notin Terminal /\ what = "panicked"
    BY <2>3 DEF DecideWorker, Reasons, Stages
  <2>4. CASE s \notin Terminal /\ what \in Reasons
    BY <2>4 DEF DecideWorker, Reasons, Stages
  <2>5. CASE s \notin Terminal /\ what \in Stages
    <3>1. what # "panicked" /\ what \notin Reasons
      BY <2>5 DEF Stages, Reasons
    <3>2. ExpectedState(what) # "cancelling"
      BY DEF ExpectedState
    <3>3. CASE s = "cancelling"
      BY <2>5, <3>1, <3>3 DEF DecideWorker, NoOp
    <3>4. CASE s # "cancelling" /\ s # ExpectedState(what)
      BY <2>5, <3>1, <3>4 DEF DecideWorker, Rejected
    <3>5. CASE s = ExpectedState(what)
      BY <2>5, <3>1, <3>2, <3>5 DEF DecideWorker, Accepted
    <3> QED
      BY <3>3, <3>4, <3>5
  <2> QED
    BY <2>1, <2>2, <2>3, <2>4, <2>5
<1> HIDE DEF decision
<1>2. CASE decision.effects = <<>>
  BY <1>0, <1>2 DEF decision
<1>3. CASE s \notin Terminal /\ decision = DecideWorkerPanic(s)
  BY <1>3, PanicPlan DEF decision
<1>4. CASE s \notin Terminal /\ what \in Reasons /\ decision = DecideInterrupted(s, what)
  BY <1>4, InterruptedPlan DEF decision
<1>5. CASE s \notin Terminal /\ what \in Stages /\ s = ExpectedState(what)
           /\ decision.effects = <<Commit(StageTarget(what))>>
  <2> DEFINE x == StageTarget(what)
             list == <<Commit(x)>>
  <2>1. x \in States /\ IsLegalTransition(s, x)
    BY <1>5, StageEdges
  <2>2. <<>> \in Seq(Effects) /\ NoCommit(<<>>) /\ list = <<Commit(x)>> \o <<>>
    BY <2>1, NothingToCommit, EffectTypes, ListForms DEF NoCommit
  <2>3. Plan(s, list)
    BY <2>1, <2>2, CommitThen
  <2>4. s = "committing" => CommitsIn(list, Terminal \ {"cancelled"})
    BY <1>5, <2>1, <2>2, CommitThen, StageEdges
  <2> QED
    BY <1>5, <2>3, <2>4 DEF decision
<1> QED
  BY <1>1, <1>2, <1>3, <1>4, <1>5

-----------------------------------------------------------------------------
(* What each step leaves alone.                                            *)

(* The effects but for the commits. *)
LEMMA PerformKinds ==
  ASSUME TypeInv, NEW a \in Actors, Perform(a) \/ Fails(a), ~PerformCommit(a)
  PROVE  /\ todo[a] # <<>> /\ on[a] \in Jobs /\ UNCHANGED <<state, on, published, report, outdated>>
         /\ \A b \in Actors \ {a} : todo'[b] = todo[b] /\ pc'[b] = pc[b]
         /\ \A j \in Jobs : serial[j] \notin {a, None} => serial'[j] = serial[j]
         /\ \A j \in Jobs : \/ ctl'[j] = ctl[j]
                            \/ ctl[j] # "irreversible" /\ ctl'[j] = "cancel_requested"
         /\ \/ todo'[a] = <<>> /\ pc'[a] = OnError(a)
            \/ pc'[a] = pc[a] /\ Head(todo[a]) = Await /\ todo'[a] = Tail(todo[a]) /\ ~active[on[a]]
            \/ pc'[a] = pc[a] /\ todo'[a] = todo[a] /\ serial'[on[a]] = a
               /\ serial[on[a]] = None
            \/ /\ pc'[a] = pc[a] /\ ~IsCommit(Head(todo[a])) /\ Head(todo[a]) # Await
               /\ serial[on[a]] = a
               /\ todo'[a] \in {Tail(todo[a]), <<RaiseFlag>> \o Tail(todo[a]),
                                <<LowerReason>> \o Tail(todo[a])}
               /\ \/ serial'[on[a]] = a
                  \/ todo'[a] = <<>> \/ Head(todo'[a]) = Await
               /\ Head(todo[a]) = RequestInterrupt("cancel") => ctl'[on[a]] = "cancel_requested"
<1> USE DEF TypeInv, jobVars, controlVars, sharedVars, localVars, budgets
<1>0. todo[a] # <<>> /\ on[a] \in Jobs /\ todo \in [Actors -> Seq(Effects)] /\ pc \in [Actors -> Pcs]
      /\ serial \in [Jobs -> Actors \cup {None}] /\ None \notin Actors
  <2>1. todo[a] # <<>>
    BY DEF Perform, Fails, PerformDesired, PerformInterrupt, CancelTooLate, PerformRaise,
           PerformClear, PerformLower, PerformDispatch, PerformRecord, AwaitDone, Reenter,
           CommitFails, DesiredFails, AwaitTimeout, Performing, Awaiting
  <2> QED
    BY <2>1, ActorsAssumption DEF Engaged, TypeOK, Actors
<1>1. CASE CommitFails(a) \/ DesiredFails(a) \/ CancelTooLate(a) \/ AwaitTimeout(a)
  <2>1. /\ todo' = [todo EXCEPT ![a] = <<>>] /\ pc' = [pc EXCEPT ![a] = OnError(a)]
        /\ UNCHANGED <<state, on, published, report, outdated, ctl>>
        /\ serial' \in {serial, [serial EXCEPT ![on[a]] = None]}
        /\ serial[on[a]] = a \/ serial' = serial
    BY <1>1 DEF CommitFails, DesiredFails, CancelTooLate, AwaitTimeout, Performing, Abort, Goto
  <2>2. \A j \in Jobs : serial[j] \notin {a, None} => serial'[j] = serial[j]
    BY <1>0, <2>1
  <2> QED
    BY <1>0, <2>1, <2>2
<1>2. CASE AwaitDone(a)
  BY <1>0, <1>2 DEF AwaitDone, Awaiting
<1>3. CASE Reenter(a)
  <2>1. UNCHANGED <<state, on, published, report, outdated, ctl, todo, pc>>
        /\ serial' = [serial EXCEPT ![on[a]] = a] /\ serial[on[a]] = None
    BY <1>3 DEF Reenter
  <2> QED
    BY <1>0, <2>1
<1>4. ASSUME NEW rest \in {Tail(todo[a]), <<RaiseFlag>> \o Tail(todo[a]),
                           <<LowerReason>> \o Tail(todo[a])},
             Continue(a, rest), serial[on[a]] = a
      PROVE  /\ \A b \in Actors \ {a} : todo'[b] = todo[b]
             /\ \A j \in Jobs : serial[j] \notin {a, None} => serial'[j] = serial[j]
             /\ todo'[a] = rest
             /\ serial'[on[a]] = a \/ todo'[a] = <<>> \/ Head(todo'[a]) = Await
  BY <1>0, <1>4 DEF Continue
<1>5. CASE PerformInterrupt(a)
  <2> DEFINE why == Head(todo[a]).arg
  <2>1. /\ UNCHANGED <<state, on, published, report, outdated, pc>> /\ serial[on[a]] = a
        /\ Head(todo[a]).kind = "interrupt" /\ Continue(a, <<RaiseFlag>> \o Tail(todo[a]))
        /\ ~(why = "cancel" /\ ctl[on[a]] = "irreversible")
        /\ ctl' = IF why = "cancel" THEN [ctl EXCEPT ![on[a]] = "cancel_requested"] ELSE ctl
    BY <1>5 DEF PerformInterrupt, Performing
  <2>2. ~IsCommit(Head(todo[a])) /\ Head(todo[a]) # Await
    BY <2>1 DEF IsCommit, Await
  <2>3. Head(todo[a]) = RequestInterrupt("cancel") => ctl'[on[a]] = "cancel_requested"
    BY <1>0, <2>1 DEF RequestInterrupt, TypeOK
  <2>4. \A j \in Jobs : \/ ctl'[j] = ctl[j]
                        \/ ctl[j] # "irreversible" /\ ctl'[j] = "cancel_requested"
    BY <1>0, <2>1 DEF TypeOK
  <2> QED
    BY <1>0, <1>4, <2>1, <2>2, <2>3, <2>4
<1>6. CASE PerformDesired(a) \/ PerformRaise(a) \/ PerformClear(a) \/ PerformLower(a)
           \/ PerformDispatch(a) \/ PerformRecord(a)
  <2>1. /\ UNCHANGED <<state, on, published, report, outdated, pc, ctl>> /\ serial[on[a]] = a
        /\ Head(todo[a]).kind \in {"desired", "raise", "clear", "lower", "dispatch", "record"}
        /\ \E rest \in {Tail(todo[a]), <<RaiseFlag>> \o Tail(todo[a]),
                        <<LowerReason>> \o Tail(todo[a])} : Continue(a, rest)
    BY <1>6 DEF PerformDesired, PerformRaise, PerformClear, PerformLower, PerformDispatch,
                PerformRecord, Performing
  <2>2. /\ ~IsCommit(Head(todo[a])) /\ Head(todo[a]) # Await
        /\ Head(todo[a]) # RequestInterrupt("cancel")
    BY <2>1 DEF IsCommit, Await, RequestInterrupt
  <2> QED
    BY <1>0, <1>4, <2>1, <2>2
<1> QED
  BY <1>1, <1>2, <1>3, <1>5, <1>6 DEF Perform, Fails

(* A worker's step but for its reports. *)
LEMMA WorkerFootprint ==
  ASSUME TypeInv, NEW w \in Workers, WorkerRuns(w) \/ WorkerBreaks(w), ~Report(w)
  PROVE  /\ todo[w] = <<>> /\ UNCHANGED <<state, serial, todo, outdated>>
         /\ \A b \in Actors \ {w} : pc'[b] = pc[b] /\ on'[b] = on[b] /\ report'[b] = report[b]
<1> USE DEF TypeInv, jobVars, controlVars, sharedVars, localVars, budgets
<1>0. w \in Actors /\ pc \in [Actors -> Pcs] /\ on \in [Actors -> Jobs \cup {None}]
      /\ report \in [Actors -> Reports \cup {"none"}]
  BY DEF TypeOK, Actors
<1>1. CASE Claim(w) \/ TryClaim(w) \/ AcquireTarget(w) \/ ReadJob(w) \/ WorkerObserved(w)
  BY <1>0, <1>1 DEF Claim, TryClaim, AcquireTarget, ReadJob, WorkerObserved, ForgetReading, At, Goto
<1>2. CASE VerifyPublication(w) \/ TestFlag(w) \/ TestFile(w)
  <2>1. CASE TestFile(w)
    <3>1. At(w, "precheck") /\ \E what, next : Conclude(w, what, next)
      BY <2>1, Zenon DEF TestFile
    <3>2. UNCHANGED state
      BY <2>1 DEF TestFile
    <3> QED
      BY <1>0, <3>1, <3>2 DEF Conclude, At, Goto
  <2>2. CASE VerifyPublication(w) \/ TestFlag(w)
    BY <1>0, <2>2 DEF VerifyPublication, TestFlag, Conclude, At, Goto
  <2> QED
    BY <1>2, <2>1, <2>2
<1>3. CASE FetchInterrupted(w) \/ FetchFile(w) \/ FetchFails(w) \/ ReadReason(w)
  BY <1>0, <1>3 DEF FetchInterrupted, FetchFile, FetchFails, ReadReason, Conclude, At, Goto
<1>4. CASE UnwindFlag(w) \/ UnwindReason(w) \/ RereadDevice(w)
  BY <1>0, <1>4 DEF UnwindFlag, UnwindReason, RereadDevice, Conclude, At, Goto
<1>5. CASE ExportFails(w) \/ BeginIrreversible(w) \/ Publish(w)
  BY <1>0, <1>5 DEF ExportFails, BeginIrreversible, Publish, Conclude, At, Goto
<1>6. CASE Panic(w) \/ LeaveTarget(w) \/ ReleaseJob(w)
  BY <1>0, <1>6 DEF Panic, LeaveTarget, ReleaseJob, ForgetReading, At, Goto
<1> QED
  BY <1>1, <1>2, <1>3, <1>4, <1>5, <1>6 DEF WorkerRuns, WorkerBreaks

(* A step of the dispatcher between two readings. *)
LEMMA DispatcherFootprint ==
  ASSUME TypeInv, DispatcherRuns
  PROVE  /\ todo[Dispatcher] = <<>>
         /\ UNCHANGED <<state, ctl, published, serial, todo, outdated, report>>
         /\ \A b \in Actors \ {Dispatcher} : pc'[b] = pc[b] /\ on'[b] = on[b]
<1> USE DEF TypeInv, jobVars, controlVars, sharedVars, localVars, budgets
<1>0. Dispatcher \in Actors /\ pc \in [Actors -> Pcs] /\ on \in [Actors -> Jobs \cup {None}]
  BY DEF TypeOK, Actors
<1>1. CASE (\E j \in Jobs : TickRead(j)) \/ TickCheck
  BY <1>0, <1>1 DEF TickRead, TickCheck, At, Goto
<1>2. CASE TickProbe \/ TickObserved
  BY <1>0, <1>2 DEF TickProbe, TickObserved, ForgetReading, At, Goto
<1> QED
  BY <1>1, <1>2 DEF DispatcherRuns

(* Entering the serial section with a decision. *)
LEMMA ApplyFootprint ==
  ASSUME TypeInv, NEW a \in Actors, NEW j \in Jobs, NEW decision, NEW ok,
         Apply(a, j, decision, ok)
  PROVE  /\ \A b \in Actors \ {a} : todo'[b] = todo[b] /\ pc'[b] = pc[b]
         /\ \A i \in Jobs : serial[i] \notin {a, None} => serial'[i] = serial[i]
         /\ outdated' = outdated \ {a} /\ todo'[a] = decision.effects
         /\ decision.effects # <<>> => serial'[j] = a
         /\ pc'[a] = IF decision.outcome \in Refusals THEN OnError(a) ELSE ok
<1>1. todo \in [Actors -> Seq(Effects)] /\ pc \in [Actors -> Pcs]
      /\ serial \in [Jobs -> Actors \cup {None}]
  BY DEF TypeInv, TypeOK
<1> QED
  BY <1>1 DEF Apply, Goto

-----------------------------------------------------------------------------
(* The serial section.                                                     *)

(* Whoever has a commit left is inside the section, and decided on the state *)
(* the job is still in.                                                      *)
SectionInv ==
  \A a \in Actors : ~NoCommit(todo[a]) =>
    serial[on[a]] = a /\ a \notin outdated /\ Plan(state[on[a]], todo[a])

(* A worker about to report has something to report. *)
ReportInv ==
  \A w \in Workers :
    /\ pc[w] \in {"unwind_flag", "unwind_reason", "reread"} => report[w] \in Reasons
    /\ pc[w] = "report" => report[w] \in Reports

(* What the steps of one actor must leave alone for the section to be kept. *)
LEMMA SectionKept ==
  ASSUME TypeInv, SectionInv, NEW a \in Actors,
         \A b \in Actors \ {a} : todo'[b] = todo[b] /\ on'[b] = on[b],
         \A j \in Jobs : serial[j] \notin {a, None} => serial'[j] = serial[j] /\ state'[j] = state[j],
         \A b \in Actors \ {a} : b \in outdated' => b \in outdated \/ serial[on[b]] = a,
         ~NoCommit(todo'[a]) =>
            serial'[on'[a]] = a /\ a \notin outdated' /\ Plan(state'[on'[a]], todo'[a])
  PROVE  SectionInv'
<1> SUFFICES ASSUME NEW b \in Actors, ~NoCommit(todo'[b])
             PROVE  /\ serial'[on'[b]] = b /\ b \notin outdated'
                    /\ Plan(state'[on'[b]], todo'[b])
  BY DEF SectionInv, NoCommit, CommitsIn, Plan, Routed, Route1, Route2
<1>1. CASE b = a
  BY <1>1
<1>2. CASE b # a
  <2>1. todo'[b] = todo[b] /\ on'[b] = on[b] /\ ~NoCommit(todo[b])
    BY <1>2
  <2>2. serial[on[b]] = b /\ b \notin outdated /\ Plan(state[on[b]], todo[b])
    BY <2>1 DEF SectionInv
  <2>3. todo[b] # <<>> /\ b # None
    BY <2>1, NothingToCommit, ActorsAssumption DEF NoCommit, Actors
  <2>4. on[b] \in Jobs
    BY <2>3 DEF TypeInv, Engaged
  <2>5. serial'[on[b]] = b /\ state'[on[b]] = state[on[b]] /\ b \notin outdated'
    BY <1>2, <2>2, <2>3, <2>4
  <2> QED
    BY <2>1, <2>2, <2>5
<1> QED
  BY <1>1, <1>2

(* A decision that is a plan, made inside the section. *)
LEMMA SectionEntered ==
  ASSUME TypeInv, SectionInv, NEW a \in Actors, NEW j \in Jobs, NEW decision, NEW ok,
         Apply(a, j, decision, ok), Plan(state[j], decision.effects), on'[a] = j,
         UNCHANGED state, \A b \in Actors \ {a} : on'[b] = on[b]
  PROVE  SectionInv'
<1>1. ~NoCommit(decision.effects) => decision.effects # <<>>
  BY NothingToCommit DEF NoCommit
<1> QED
  BY <1>1, ApplyFootprint, SectionKept

(* An actor that performs its next effect, or fails at it, leaves every *)
(* open plan legal: the others' become outdated.                        *)
LEMMA PerformKeepsSection ==
  ASSUME TypeInv, SectionInv, NEW a \in Actors, Perform(a) \/ Fails(a)
  PROVE  SectionInv'
<1>0. todo[a] \in Seq(Effects)
  BY DEF TypeInv, TypeOK
<1>1. CASE PerformCommit(a)
  <2>1. /\ todo[a] # <<>> /\ IsCommit(Head(todo[a])) /\ serial[on[a]] = a
        /\ state' = [state EXCEPT ![on[a]] = Head(todo[a]).arg] /\ UNCHANGED on
        /\ outdated' = outdated \cup {b \in Actors \ {a} : on[b] = on[a] /\ todo[b] # <<>>}
        /\ a \notin outdated
        /\ Continue(a, Tail(todo[a]))
    BY <1>1 DEF PerformCommit, Performing, IsCommit, localVars
  <2>2. on[a] \in Jobs
    BY <2>1 DEF TypeInv, Engaged
  <2>3. ~NoCommit(todo[a])
    BY <1>0, <2>1, Commitless DEF NoCommit
  <2>4. Plan(Head(todo[a]).arg, Tail(todo[a])) /\ Tail(todo[a]) \in Seq(Effects)
    BY <1>0, <2>1, <2>3, PlanContinues DEF SectionInv
  <2>5. /\ todo'[a] = Tail(todo[a]) /\ \A b \in Actors \ {a} : todo'[b] = todo[b]
        /\ \A j \in Jobs : serial[j] \notin {a, None} => serial'[j] = serial[j]
        /\ \A j \in Jobs : serial[j] \notin {a, None} => state'[j] = state[j]
        /\ state'[on[a]] = Head(todo[a]).arg
        /\ serial'[on[a]] = a \/ Tail(todo[a]) = <<>> \/ Head(Tail(todo[a])) = Await
    BY <2>1, <2>2 DEF Continue, TypeInv, TypeOK
  <2>6. Tail(todo[a]) = <<>> \/ Head(Tail(todo[a])) = Await => NoCommit(Tail(todo[a]))
    BY <2>4, PlanContinues, NothingToCommit DEF NoCommit
  <2>7. \A b \in Actors \ {a} : b \in outdated' => b \in outdated \/ serial[on[b]] = a
    BY <2>1
  <2> QED
    BY <2>1, <2>4, <2>5, <2>6, <2>7, SectionKept
<1>2. CASE ~PerformCommit(a)
  <2>1. /\ todo[a] # <<>> /\ on[a] \in Jobs /\ UNCHANGED <<state, on, outdated>>
        /\ \A b \in Actors \ {a} : todo'[b] = todo[b]
        /\ \A j \in Jobs : serial[j] \notin {a, None} => serial'[j] = serial[j]
    BY <1>2, PerformKinds
  <2>2. ~NoCommit(todo'[a]) =>
            serial'[on[a]] = a /\ a \notin outdated /\ Plan(state[on[a]], todo'[a])
    <3> SUFFICES ASSUME ~NoCommit(todo'[a])
                 PROVE  serial'[on[a]] = a /\ a \notin outdated /\ Plan(state[on[a]], todo'[a])
      OBVIOUS
    <3>1. NoCommit(<<>>) /\ Tail(todo[a]) \in Seq(Effects)
          /\ RaiseFlag \in Effects /\ LowerReason \in Effects
      BY <1>0, <2>1, NothingToCommit, EffectTypes DEF NoCommit
    <3>2. CASE Head(todo[a]) = Await /\ todo'[a] = Tail(todo[a])
      <4>1. ~NoCommit(todo[a])
        BY <1>0, <2>1, <3>2, Commitless DEF NoCommit
      <4>2. Plan(state[on[a]], todo[a])
        BY <4>1 DEF SectionInv
      <4> QED
        BY <1>0, <2>1, <3>2, <4>2, PlanContinues
    <3>3. CASE todo'[a] = todo[a] /\ serial'[on[a]] = a
      BY <3>3 DEF SectionInv
    <3>4. CASE /\ ~IsCommit(Head(todo[a]))
               /\ todo'[a] \in {Tail(todo[a]), <<RaiseFlag>> \o Tail(todo[a]),
                                <<LowerReason>> \o Tail(todo[a])}
               /\ serial'[on[a]] = a \/ todo'[a] = <<>> \/ Head(todo'[a]) = Await
      <4>1. /\ NoCommit(Tail(todo[a])) => NoCommit(todo'[a])
            /\ todo'[a] \in Seq(Effects)
        <5>1. CASE todo'[a] = Tail(todo[a])
          BY <3>1, <5>1
        <5>2. ASSUME NEW e \in {RaiseFlag, LowerReason}, todo'[a] = <<e>> \o Tail(todo[a])
              PROVE  /\ NoCommit(Tail(todo[a])) => NoCommit(todo'[a])
                     /\ todo'[a] \in Seq(Effects)
          <6>1. e \in Effects /\ ~IsCommit(e) /\ e # Await
            BY <3>1, EffectKinds
          <6>2. /\ <<e>> \o Tail(todo[a]) \in Seq(Effects)
                /\ NoCommit(Tail(todo[a])) => NoCommit(<<e>> \o Tail(todo[a]))
            BY <3>1, <6>1, PrependPlan, PrependFacts DEF NoCommit
          <6> QED
            BY <5>2, <6>2
        <5> QED
          BY <3>4, <5>1, <5>2
      <4>2. ~NoCommit(todo[a])
        BY <1>0, <2>1, <4>1, Commitless DEF NoCommit
      <4>3. Plan(state[on[a]], todo[a]) /\ a \notin outdated
        BY <4>2 DEF SectionInv
      <4>4. Plan(state[on[a]], todo'[a])
        <5>1. Plan(state[on[a]], Tail(todo[a]))
          BY <1>0, <2>1, <3>4, <4>3, PlanContinues
        <5>2. ASSUME NEW e \in {RaiseFlag, LowerReason}
              PROVE  Plan(state[on[a]], <<e>> \o Tail(todo[a]))
          <6>1. e \in Effects /\ ~IsCommit(e) /\ e # Await
            BY <3>1, EffectKinds
          <6> QED
            BY <1>0, <2>1, <3>4, <4>3, <6>1, PlanContinues
        <5> QED
          BY <3>4, <5>1, <5>2
      <4>5. todo'[a] # <<>> /\ Head(todo'[a]) # Await
        BY <3>1, <4>1, <4>4, PlanContinues
      <4> QED
        BY <3>4, <4>3, <4>4, <4>5
    <3> QED
      BY <1>2, <3>1, <3>2, <3>3, <3>4, PerformKinds
  <2> QED
    BY <2>1, <2>2, SectionKept
<1> QED
  BY <1>1, <1>2

(* A device reading, which may decide, keeps the section. *)
LEMMA ObserveFootprint ==
  ASSUME TypeInv, NEW a \in Actors, Observe(a)
  PROVE  /\ todo[a] = <<>> /\ on[a] \in Jobs /\ UNCHANGED <<state, ctl, published, on, report>>
         /\ pc[a] \in {"mint", "read", "observe"}
         /\ \A b \in Actors \ {a} : todo'[b] = todo[b] /\ pc'[b] = pc[b]
         /\ \/ UNCHANGED <<serial, todo, outdated>> /\ pc'[a] \in {"read", "observe"}
            \/ \E decision :
                 /\ Apply(a, on[a], decision, "observed")
                 /\ Plan(state[on[a]], decision.effects) /\ CommitsIn(decision.effects, ParkTargets)
                 /\ decision.outcome \notin Refusals
<1> USE DEF jobVars, controlVars, sharedVars, localVars, budgets
<1>0. pc \in [Actors -> Pcs] /\ todo \in [Actors -> Seq(Effects)] /\ state \in [Jobs -> States]
  BY DEF TypeInv, TypeOK
<1>1. CASE MintReading(a) \/ ReadDevice(a)
  <2>1. on[a] \in Jobs
    BY <1>1 DEF MintReading, ReadDevice, At, TypeInv, Engaged
  <2> QED
    BY <1>0, <1>1, <2>1 DEF MintReading, ReadDevice, At, Goto
<1>2. CASE ObserveDevice(a)
  <2> DEFINE j == on[a]
             decision == DecideDeviceObserved(state[j], desired[j], Fresh(a, j), reading[a])
  <2>1. /\ At(a, "observe") /\ Apply(a, j, decision, "observed")
        /\ UNCHANGED <<state, ctl, published, on, report>>
    BY <1>2 DEF ObserveDevice
  <2>2. j \in Jobs
    BY <2>1 DEF At, TypeInv, Engaged
  <2>3. state[j] \in States
    BY <1>0, <2>2
  <2>4. Plan(state[j], decision.effects) /\ CommitsIn(decision.effects, ParkTargets)
    BY <2>3, ObservedPlan
  <2>5. decision.outcome \notin Refusals
    BY DEF DecideDeviceObserved, Accepted, NoOp, Refusals
  <2> HIDE DEF decision
  <2>6. \A b \in Actors \ {a} : todo'[b] = todo[b] /\ pc'[b] = pc[b]
    BY <2>1, <2>2, ApplyFootprint
  <2> QED
    BY <2>1, <2>2, <2>4, <2>5, <2>6 DEF At
<1> QED
  BY <1>1, <1>2 DEF Observe

(* A device observation opens a section only with a plan for the state it *)
(* finds.                                                                 *)
LEMMA ObserveKeepsSection ==
  ASSUME TypeInv, SectionInv, NEW a \in Actors, Observe(a)
  PROVE  SectionInv'
<1>1. todo[a] = <<>> /\ on[a] \in Jobs /\ UNCHANGED <<state, on>>
  BY ObserveFootprint
<1>2. CASE UNCHANGED <<serial, todo, outdated>>
  BY <1>1, <1>2, SectionKept, NothingToCommit DEF NoCommit
<1>3. ASSUME NEW decision, Apply(a, on[a], decision, "observed"),
             Plan(state[on[a]], decision.effects)
      PROVE  SectionInv'
  BY <1>1, <1>3, SectionEntered
<1> QED
  BY <1>2, <1>3, ObserveFootprint

(* So does a worker that reports, is interrupted, unwinds or breaks. *)
LEMMA WorkerKeepsSection ==
  ASSUME TypeInv, SectionInv, ReportInv, NEW w \in Workers, WorkerRuns(w) \/ WorkerBreaks(w)
  PROVE  SectionInv'
<1>0. w \in Actors
  BY DEF Actors
<1>1. CASE Report(w)
  <2>1. /\ At(w, "report") /\ UNCHANGED <<state, on>>
        /\ Apply(w, on[w], DecideWorker(state[on[w]], report[w]), AfterReport(report[w]))
    BY <1>1 DEF Report, jobVars, localVars
  <2>2. on[w] \in Jobs /\ report[w] \in Reports
    BY <1>0, <2>1 DEF At, TypeInv, Engaged, ReportInv
  <2>3. state[on[w]] \in States
    BY <2>2 DEF TypeInv, TypeOK
  <2> DEFINE decision == DecideWorker(state[on[w]], report[w])
  <2>4. Plan(state[on[w]], decision.effects)
    BY <2>2, <2>3, WorkerPlan
  <2> HIDE DEF decision
  <2> QED
    BY <1>0, <2>1, <2>2, <2>4, SectionEntered DEF decision
<1>2. CASE ~Report(w)
  BY <1>0, <1>2, WorkerFootprint, SectionKept, NothingToCommit DEF NoCommit
<1> QED
  BY <1>1, <1>2

(* What a user's command decides. *)
LEMMA UserFootprint ==
  ASSUME TypeInv, NEW u \in Users, UserRuns(u) \/ UserIssues(u)
  PROVE  /\ todo[u] = <<>> /\ UNCHANGED <<state, ctl, published, report>>
         /\ \A b \in Actors \ {u} : todo'[b] = todo[b] /\ pc'[b] = pc[b] /\ on'[b] = on[b]
         /\ \/ UNCHANGED <<serial, todo, outdated>> /\ pc'[u] \in {"idle", "cancel_ok"}
            \/ \E j \in Jobs : \E decision, ok :
                 /\ on'[u] = j /\ Apply(u, j, decision, ok) /\ Plan(state[j], decision.effects)
                 /\ \/ /\ pc[u] = "idle" /\ ok = "idle" /\ CommitsIn(decision.effects, {"queued"})
                    \/ /\ pc[u] = "idle" /\ ok = "finalize" /\ decision = DecideCancel(state[j])
                    \/ /\ pc[u] = "finalize" /\ ok = "cancel_ok" /\ on[u] = j
                       /\ decision = DecideFinalizeCancel(state[j])
<1> USE DEF jobVars, controlVars, sharedVars, localVars, budgets
<1>0. /\ u \in Actors /\ pc \in [Actors -> Pcs] /\ on \in [Actors -> Jobs \cup {None}]
      /\ state \in [Jobs -> States]
  BY DEF TypeInv, TypeOK, Actors
<1>1. CASE FinalizeCancel(u)
  <2> DEFINE j == on[u]
             decision == DecideFinalizeCancel(state[j])
  <2>1. /\ At(u, "finalize") /\ Apply(u, j, decision, "cancel_ok")
        /\ UNCHANGED <<state, ctl, published, report, on>>
    BY <1>1 DEF FinalizeCancel
  <2>2. j \in Jobs
    BY <1>0, <2>1 DEF At, TypeInv, Engaged
  <2>3. Plan(state[j], decision.effects)
    BY <1>0, <2>2, FinalizePlan
  <2>4. \A b \in Actors \ {u} : todo'[b] = todo[b] /\ pc'[b] = pc[b]
    BY <1>0, <2>1, <2>2, ApplyFootprint
  <2> QED
    BY <2>1, <2>2, <2>3, <2>4 DEF At
<1>2. CASE CancelReturns(u)
  BY <1>0, <1>2 DEF CancelReturns, At, Goto
<1>3. ASSUME NEW j \in Jobs, NEW decision, NEW ok, NEW command, Issue(u, j, command),
             Apply(u, j, decision, ok)
      PROVE  /\ todo[u] = <<>> /\ UNCHANGED <<state, ctl, published, report>> /\ pc[u] = "idle"
             /\ \A b \in Actors \ {u} : todo'[b] = todo[b] /\ pc'[b] = pc[b] /\ on'[b] = on[b]
             /\ on'[u] = j
  <2>1. \A b \in Actors \ {u} : todo'[b] = todo[b] /\ pc'[b] = pc[b]
    BY <1>0, <1>3, ApplyFootprint
  <2> QED
    BY <1>0, <1>3, <2>1 DEF Issue, At
<1>4. ASSUME NEW j \in Jobs, Pause(u, j) \/ Resume(u, j)
      PROVE  \E decision : /\ Issue(u, j, "pause") \/ Issue(u, j, "resume")
                           /\ Apply(u, j, decision, "idle")
                           /\ Plan(state[j], decision.effects) /\ CommitsIn(decision.effects, {"queued"})
  <2>1. state[j] \in States
    BY <1>0
  <2>2. CASE Pause(u, j)
    <3>1. NoCommit(DecidePause(state[j]).effects)
      BY <2>1, PauseAndResume
    <3>2. Plan(state[j], DecidePause(state[j]).effects)
          /\ CommitsIn(DecidePause(state[j]).effects, {"queued"})
      BY <3>1 DEF Plan, NoCommit, CommitsIn
    <3> QED
      BY <2>2, <3>2 DEF Pause
  <2>3. CASE Resume(u, j)
    BY <2>1, <2>3, PauseAndResume DEF Resume
  <2> QED
    BY <1>4, <2>2, <2>3
<1>5. ASSUME NEW j \in Jobs, Cancel(u, j), state[j] = "cancelled"
      PROVE  /\ todo[u] = <<>> /\ UNCHANGED <<state, ctl, published, report, serial, todo, outdated>>
             /\ \A b \in Actors \ {u} : pc'[b] = pc[b] /\ on'[b] = on[b]
             /\ pc'[u] = "cancel_ok"
  BY <1>0, <1>5 DEF Cancel, Issue, At, Goto
<1>6. ASSUME NEW j \in Jobs, Cancel(u, j), state[j] # "cancelled"
      PROVE  /\ Issue(u, j, "cancel") /\ Apply(u, j, DecideCancel(state[j]), "finalize")
             /\ Plan(state[j], DecideCancel(state[j]).effects)
  BY <1>0, <1>6, CancelPlan DEF Cancel
<1>7. CASE UserIssues(u)
  <2>1. PICK j \in Jobs : Pause(u, j) \/ Resume(u, j) \/ Cancel(u, j)
    BY <1>7 DEF UserIssues
  <2>2. CASE Pause(u, j) \/ Resume(u, j)
    <3>1. PICK decision : /\ Issue(u, j, "pause") \/ Issue(u, j, "resume")
                          /\ Apply(u, j, decision, "idle")
                          /\ Plan(state[j], decision.effects)
                          /\ CommitsIn(decision.effects, {"queued"})
      BY <1>4, <2>2
    <3>2. /\ todo[u] = <<>> /\ UNCHANGED <<state, ctl, published, report>> /\ pc[u] = "idle"
          /\ \A b \in Actors \ {u} : todo'[b] = todo[b] /\ pc'[b] = pc[b] /\ on'[b] = on[b]
          /\ on'[u] = j
      BY <1>3, <3>1
    <3> QED
      BY <3>1, <3>2
  <2>3. CASE Cancel(u, j) /\ state[j] = "cancelled"
    BY <1>5, <2>3
  <2>4. CASE Cancel(u, j) /\ state[j] # "cancelled"
    <3>1. /\ Issue(u, j, "cancel") /\ Apply(u, j, DecideCancel(state[j]), "finalize")
          /\ Plan(state[j], DecideCancel(state[j]).effects)
      BY <1>6, <2>4
    <3>2. /\ todo[u] = <<>> /\ UNCHANGED <<state, ctl, published, report>> /\ pc[u] = "idle"
          /\ \A b \in Actors \ {u} : todo'[b] = todo[b] /\ pc'[b] = pc[b] /\ on'[b] = on[b]
          /\ on'[u] = j
      BY <1>3, <3>1
    <3> QED
      BY <3>1, <3>2
  <2> QED
    BY <2>1, <2>2, <2>3, <2>4
<1> QED
  BY <1>1, <1>2, <1>7 DEF UserRuns

(* So does a user's command, at its first and at its second section. *)
LEMMA UserKeepsSection ==
  ASSUME TypeInv, SectionInv, NEW u \in Users, UserRuns(u) \/ UserIssues(u)
  PROVE  SectionInv'
<1>0. u \in Actors
  BY DEF Actors
<1>1. /\ todo[u] = <<>> /\ UNCHANGED state
      /\ \A b \in Actors \ {u} : todo'[b] = todo[b] /\ on'[b] = on[b]
  BY UserFootprint
<1>2. CASE UNCHANGED <<serial, todo, outdated>>
  BY <1>0, <1>1, <1>2, SectionKept, NothingToCommit DEF NoCommit
<1>3. ASSUME NEW j \in Jobs, NEW decision, NEW ok, on'[u] = j, Apply(u, j, decision, ok),
             Plan(state[j], decision.effects)
      PROVE  SectionInv'
  BY <1>0, <1>1, <1>3, SectionEntered
<1> QED
  BY <1>2, <1>3, UserFootprint

(* A step that sends no worker to a reporting place without a report keeps *)
(* ReportInv.                                                              *)
LEMMA ReportKept ==
  ASSUME ReportInv, NEW a, \A v \in Workers \ {a} : pc'[v] = pc[v] /\ report'[v] = report[v],
         a \in Workers => /\ pc'[a] \in {"unwind_flag", "unwind_reason", "reread"} => report'[a] \in Reasons
                          /\ pc'[a] = "report" => report'[a] \in Reports
  PROVE  ReportInv'
BY DEF ReportInv

(* A worker reads its reason or takes its stage before it reports. *)
LEMMA WorkerKeepsReport ==
  ASSUME TypeInv, ReportInv, NEW w \in Workers, WorkerRuns(w) \/ WorkerBreaks(w)
  PROVE  ReportInv'
<1> USE DEF TypeInv, jobVars, controlVars, sharedVars, localVars, budgets
<1> DEFINE Good == /\ pc'[w] \in {"unwind_flag", "unwind_reason", "reread"} => report'[w] \in Reasons
                   /\ pc'[w] = "report" => report'[w] \in Reports
<1>0. w \in Actors /\ pc \in [Actors -> Pcs] /\ report \in [Actors -> Reports \cup {"none"}]
  BY DEF TypeOK, Actors
<1>1. CASE Report(w)
  <2>1. /\ UNCHANGED report /\ pc'[w] \in {AfterReport(report[w]), OnError(w)}
        /\ \A v \in Workers \ {w} : pc'[v] = pc[v]
    BY <1>0, <1>1 DEF Report, Apply, Goto, Actors
  <2>2. AfterReport(report[w]) \in {"loop", "panic_flag", "leave"}
    BY DEF AfterReport
  <2> QED
    BY <2>1, <2>2, OnErrorType, ReportKept
<1>2. CASE ~Report(w)
  <2>1. \A v \in Workers \ {w} : pc'[v] = pc[v] /\ report'[v] = report[v]
    BY <1>2, WorkerFootprint DEF Actors
  <2>2. ASSUME NEW what, NEW next, Conclude(w, what, next)
        PROVE  pc'[w] = next /\ report'[w] = what
    BY <1>0, <2>2 DEF Conclude, Goto
  <2>3. CASE Claim(w) \/ TryClaim(w) \/ AcquireTarget(w) \/ WorkerObserved(w) \/ TestFlag(w)
             \/ FetchInterrupted(w) \/ LeaveTarget(w) \/ ReleaseJob(w)
    <3>1. pc'[w] \in {"claimed", "idle", "lease", "loop", "release", "leave", "unwound", "precheck"}
      BY <1>0, <2>3 DEF Claim, TryClaim, AcquireTarget, WorkerObserved, TestFlag, FetchInterrupted,
                        LeaveTarget, ReleaseJob, Goto
    <3> QED
      BY <2>1, <3>1, ReportKept
  <2>4. CASE ReadJob(w)
    <3> DEFINE s == state[on[w]]
               what == CASE s = "verifying" -> "verified" [] s = "cancelling" -> "cancel"
                         [] OTHER -> "none"
    <3>1. pc'[w] = Arm(s, desired[on[w]]) /\ report'[w] = what
      BY <1>0, <2>4 DEF ReadJob, Goto
    <3>2. /\ Arm(s, desired[on[w]]) \in {"unwind_flag", "unwind_reason", "reread"} => s = "cancelling"
          /\ Arm(s, desired[on[w]]) = "report" => s = "verifying"
      BY DEF Arm
    <3>3. Good
      BY <3>1, <3>2 DEF Reasons, Reports, Stages
    <3> QED
      BY <2>1, <3>3, ReportKept
  <2>5. CASE VerifyPublication(w) \/ FetchFile(w) \/ FetchFails(w) \/ ExportFails(w)
             \/ BeginIrreversible(w) \/ Publish(w)
    <3>1. \E what, next : /\ Conclude(w, what, next)
                          /\ \/ next = "report" /\ what \in Stages
                             \/ next \in {"precheck_flag", "publish"}
      BY <2>5 DEF VerifyPublication, FetchFile, FetchFails, ExportFails, BeginIrreversible, Publish,
                  Stages
    <3>2. Good
      BY <2>2, <3>1 DEF Reports
    <3> QED
      BY <2>1, <3>2, ReportKept
  <2>6. CASE TestFile(w) \/ ReadReason(w)
    <3>1. \E what, next : /\ Conclude(w, what, next)
                          /\ \/ next = "unwind_flag" /\ what \in Reasons
                             \/ next = "fetch"
      <4>1. CASE TestFile(w)
        <5>1. \/ Conclude(w, "user_pause", "unwind_flag") \/ Conclude(w, "none", "fetch")
              \/ Conclude(w, "capture_pause", "unwind_flag")
              \/ Conclude(w, "device_lost", "unwind_flag")
          BY <4>1, Zenon DEF TestFile
        <5> QED
          BY <5>1 DEF Reasons
      <4>2. CASE ReadReason(w)
        <5>1. on[w] \in Jobs
          BY <1>0, <4>2 DEF ReadReason, At, Engaged
        <5>2. reason[on[w]] \in Reasons \cup {None} /\ "cancel" \in Reasons
          BY <5>1 DEF TypeOK, Reasons
        <5> QED
          BY <4>2, <5>2 DEF ReadReason
      <4> QED
        BY <2>6, <4>1, <4>2
    <3>2. Good
      BY <2>2, <3>1
    <3> QED
      BY <2>1, <3>2, ReportKept
  <2>7. CASE UnwindFlag(w) \/ UnwindReason(w)
    <3>1. /\ UNCHANGED report
          /\ \/ pc[w] \in {"unwind_flag", "unwind_reason"}
             \/ pc'[w] \in {"panic_reason", "release"}
      BY <1>0, <2>7 DEF UnwindFlag, UnwindReason, At, Goto
    <3>2. Good
      BY <3>1 DEF ReportInv, Reports
    <3> QED
      BY <2>1, <3>2, ReportKept
  <2>8. CASE RereadDevice(w)
    <3>1. \E what \in {"capture_pause", "device_lost"} : Conclude(w, what, "report")
      BY <2>8 DEF RereadDevice
    <3>2. Good
      BY <2>2, <3>1 DEF Reports, Reasons
    <3> QED
      BY <2>1, <3>2, ReportKept
  <2>9. CASE Panic(w)
    <3>1. pc'[w] = "report" /\ report'[w] = "panicked"
      BY <1>0, <2>9 DEF Panic, Goto
    <3>2. Good
      BY <3>1 DEF Reports
    <3> QED
      BY <2>1, <3>2, ReportKept
  <2> QED
    BY <1>2, <2>3, <2>4, <2>5, <2>6, <2>7, <2>8, <2>9 DEF WorkerRuns, WorkerBreaks
<1> QED
  BY <1>1, <1>2

(* The effects, the readings and the other actors leave the reports alone. *)
LEMMA OthersKeepReport ==
  ASSUME TypeInv, ReportInv,
         \/ \E a \in Actors : Perform(a) \/ Fails(a) \/ Observe(a)
         \/ DispatcherRuns
         \/ \E u \in Users : UserRuns(u) \/ UserIssues(u)
  PROVE  ReportInv'
<1>1. ASSUME NEW a \in Actors, Perform(a) \/ Fails(a) PROVE ReportInv'
  <2>1. /\ UNCHANGED report /\ \A v \in Workers \ {a} : pc'[v] = pc[v]
        /\ pc'[a] = pc[a] \/ pc'[a] = OnError(a)
    <3>1. CASE PerformCommit(a)
      BY <3>1 DEF PerformCommit, localVars
    <3>2. CASE ~PerformCommit(a)
      BY <1>1, <3>2, PerformKinds DEF Actors
    <3> QED
      BY <3>1, <3>2
  <2> QED
    BY <2>1, OnErrorType, ReportKept DEF ReportInv
<1>2. ASSUME NEW a \in Actors, Observe(a) PROVE ReportInv'
  <2>1. /\ UNCHANGED report /\ \A v \in Workers \ {a} : pc'[v] = pc[v]
        /\ pc'[a] \in {"read", "observe", "observed"}
    BY <1>2, ObserveFootprint, ApplyFootprint DEF Actors
  <2> QED
    BY <2>1, ReportKept
<1>3. ASSUME DispatcherRuns PROVE ReportInv'
  BY <1>3, DispatcherFootprint, ReportKept, ActorsAssumption DEF Actors
<1>4. ASSUME NEW u \in Users, UserRuns(u) \/ UserIssues(u) PROVE ReportInv'
  BY <1>4, UserFootprint, ReportKept, ActorsAssumption DEF Actors
<1> QED
  BY <1>1, <1>2, <1>3, <1>4

(* The section and the reports hold in every reachable state. *)
LEMMA SectionStep == TypeInv /\ SectionInv /\ ReportInv /\ [Next]_vars => SectionInv' /\ ReportInv'
<1> SUFFICES ASSUME TypeInv, SectionInv, ReportInv, [Next]_vars PROVE SectionInv' /\ ReportInv'
  OBVIOUS
<1>1. ASSUME NEW a \in Actors, Perform(a) \/ Fails(a) \/ Observe(a) PROVE SectionInv' /\ ReportInv'
  BY <1>1, PerformKeepsSection, ObserveKeepsSection, OthersKeepReport
<1>2. ASSUME NEW w \in Workers, WorkerRuns(w) \/ WorkerBreaks(w) PROVE SectionInv' /\ ReportInv'
  BY <1>2, WorkerKeepsSection, WorkerKeepsReport
<1>3. ASSUME DispatcherRuns PROVE SectionInv' /\ ReportInv'
  BY <1>3, DispatcherFootprint, SectionKept, NothingToCommit, OthersKeepReport DEF NoCommit, Actors
<1>4. ASSUME NEW u \in Users, UserRuns(u) \/ UserIssues(u) PROVE SectionInv' /\ ReportInv'
  BY <1>4, UserKeepsSection, OthersKeepReport
<1>5. ASSUME UNCHANGED <<state, serial, todo, outdated, on, pc, report>> PROVE SectionInv' /\ ReportInv'
  BY <1>5 DEF SectionInv, ReportInv, NoCommit, CommitsIn, Plan, Routed, Route1, Route2
<1>6. ASSUME NEW d \in Devices, DeviceChanges(d) PROVE SectionInv' /\ ReportInv'
  BY <1>5, <1>6 DEF DeviceChanges, jobVars, localVars
<1>7. CASE UNCHANGED vars
  BY <1>5, <1>7 DEF vars, jobVars, localVars
<1> QED
  BY <1>1, <1>2, <1>3, <1>4, <1>6, <1>7 DEF Next, Quiescent

(* In every reachable state each section's effects are a legal plan. *)
LEMMA Sections == Spec => [](TypeInv /\ OwnerInv /\ SectionInv /\ ReportInv)
<1>1. Init => SectionInv /\ ReportInv
  BY NothingToCommit DEF Init, SectionInv, ReportInv, NoCommit, Actors
<1> QED
  BY <1>1, SectionStep, Ownership, PTL DEF Spec

(* ManagedJob::commit: the version a decision was made against is still    *)
(* the job's version when it is committed, because the decision and its    *)
(* commits share one stay in the serial section.  Stale is never the       *)
(* outcome of a race.                                                      *)
THEOREM CurrentCommits == Spec => []CommitsAreCurrent
<1>1. TypeInv /\ SectionInv => CommitsAreCurrent
  <2> SUFFICES ASSUME TypeInv, SectionInv, NEW a \in Actors, Performing(a, "commit")
               PROVE  a \notin outdated
    BY DEF CommitsAreCurrent
  <2>1. todo[a] \in Seq(Effects) /\ todo[a] # <<>> /\ IsCommit(Head(todo[a]))
    BY DEF Performing, IsCommit, TypeInv, TypeOK
  <2>2. ~NoCommit(todo[a])
    BY <2>1, Commitless DEF NoCommit
  <2> QED
    BY <2>2 DEF SectionInv
<1> QED
  BY <1>1, Sections, PTL

(* Only a commit changes the state of a job, along an edge of the graph. *)
LEMMA StateSteps ==
  ASSUME TypeInv, SectionInv, ReportInv, [Next]_vars
  PROVE  \/ UNCHANGED state
         \/ \E a \in Actors : /\ PerformCommit(a) /\ on[a] \in Jobs
                              /\ IsLegalTransition(state[on[a]], Head(todo[a]).arg)
<1>1. ASSUME NEW a \in Actors, PerformCommit(a)
      PROVE  on[a] \in Jobs /\ IsLegalTransition(state[on[a]], Head(todo[a]).arg)
  <2>1. todo[a] \in Seq(Effects) /\ todo[a] # <<>> /\ IsCommit(Head(todo[a]))
    BY <1>1 DEF PerformCommit, Performing, IsCommit, TypeInv, TypeOK
  <2>2. ~NoCommit(todo[a])
    BY <2>1, Commitless DEF NoCommit
  <2>3. Plan(state[on[a]], todo[a])
    BY <2>2 DEF SectionInv
  <2> QED
    BY <2>1, <2>3, PlanContinues DEF TypeInv, Engaged
<1>2. ASSUME NEW a \in Actors, Perform(a) \/ Fails(a) \/ Observe(a), ~PerformCommit(a)
      PROVE  UNCHANGED state
  BY <1>2, PerformKinds, ObserveFootprint
<1>3. ASSUME NEW w \in Workers, WorkerRuns(w) \/ WorkerBreaks(w) PROVE UNCHANGED state
  BY <1>3, WorkerFootprint DEF Report, jobVars
<1>4. ASSUME DispatcherRuns \/ \E u \in Users : UserRuns(u) \/ UserIssues(u) PROVE UNCHANGED state
  BY <1>4, DispatcherFootprint, UserFootprint
<1>5. ASSUME UNCHANGED vars \/ \E d \in Devices : DeviceChanges(d) PROVE UNCHANGED state
  BY <1>5 DEF vars, jobVars, DeviceChanges
<1> QED
  BY <1>1, <1>2, <1>3, <1>4, <1>5 DEF Next, Quiescent

(* is_legal_transition: whatever the actors do, a job moves along an edge  *)
(* of the one graph, one edge per commit; no terminal state is left.       *)
THEOREM TransitionsAreLegal == Spec => LegalTransitions
<1>1. TypeInv /\ SectionInv /\ ReportInv /\ [Next]_vars =>
        [\A j \in Jobs : state'[j] # state[j] => IsLegalTransition(state[j], state'[j])]_vars
  <2> SUFFICES ASSUME TypeInv, SectionInv, ReportInv, [Next]_vars, NEW j \in Jobs,
                      state'[j] # state[j]
               PROVE  IsLegalTransition(state[j], state'[j])
    OBVIOUS
  <2>1. PICK a \in Actors : /\ PerformCommit(a) /\ on[a] \in Jobs
                            /\ IsLegalTransition(state[on[a]], Head(todo[a]).arg)
    BY StateSteps
  <2>2. state' = [state EXCEPT ![on[a]] = Head(todo[a]).arg] /\ state \in [Jobs -> States]
    BY <2>1 DEF PerformCommit, TypeInv, TypeOK
  <2>3. j = on[a] /\ state'[j] = Head(todo[a]).arg
    BY <2>2
  <2> QED
    BY <2>1, <2>3
<1> QED
  BY <1>1, Sections, PTL DEF Spec, LegalTransitions

-----------------------------------------------------------------------------
(* Authors.                                                                *)

CancelAhead(a) == todo[a] # <<>> /\ Head(todo[a]) = RequestInterrupt("cancel")

(* A user that is cancelling a job has asked its commit control, or is about to. *)
Asked(u) == ctl[on[u]] = "cancel_requested" \/ CancelAhead(u)

(* Who commits what. *)
UserAuthor(u) ==
  /\ pc[u] \in {"idle", "finalize", "cancel_ok"}
  /\ \/ CommitsIn(todo[u], {"queued"})
     \/ CommitsIn(todo[u], {"cancelling", "cancelled"}) /\ Asked(u)
  /\ pc[u] = "finalize" => Asked(u) /\ CommitsIn(todo[u], {"cancelling"})
WorkerAuthor(w) ==
  /\ todo[w] # <<>> => pc[w] \in {"loop", "leave", "panic_flag", "observed"}
  /\ todo[w] # <<>> /\ ctl[on[w]] = "irreversible" =>
       CommitsIn(todo[w], (Terminal \ {"cancelled"}) \cup ParkTargets)
AuthorInv ==
  /\ \A u \in Users : UserAuthor(u)
  /\ \A w \in Workers : WorkerAuthor(w)
  /\ CommitsIn(todo[Dispatcher], ParkTargets)

(* The commit control: from begin_irreversible on, the publication owns the *)
(* outcome.                                                                  *)
ControlInv ==
  \A j \in Jobs :
    /\ published[j] => ctl[j] = "irreversible"
    /\ ctl[j] = "irreversible" => state[j] \in {"committing"} \cup (Terminal \ {"cancelled"})

(* What a worker's place says of the state of its job. *)
Interruptible == {"precheck_flag", "precheck", "fetch", "unwound", "unwind_flag", "unwind_reason",
                  "reread"}
(* Where it may have a file of the job open. *)
Busy == {"verify", "precheck_flag", "precheck", "fetch", "export", "publish"}
PlaceInv ==
  \A w \in Workers :
    /\ pc[w] \in {"export", "publish"} =>
         state[on[w]] = "committing" \/ ctl[on[w]] = "cancel_requested"
    /\ pc[w] = "publish" => ctl[on[w]] = "irreversible"
    /\ pc[w] \in Interruptible => state[on[w]] # "committing"
    /\ pc[w] = "report" /\ report[w] \in Reasons => state[on[w]] # "committing"

(* An actor that performs an effect, or fails at it: what it can do to what *)
(* the others rely on.                                                      *)
LEMMA PerformFacts ==
  ASSUME TypeInv, NEW a \in Actors, Perform(a) \/ Fails(a)
  PROVE  /\ todo[a] # <<>> /\ on[a] \in Jobs /\ UNCHANGED <<on, published, report>>
         /\ \A b \in Actors \ {a} : todo'[b] = todo[b] /\ pc'[b] = pc[b]
         /\ \A j \in Jobs : \/ ctl'[j] = ctl[j]
                            \/ ctl[j] # "irreversible" /\ ctl'[j] = "cancel_requested"
         /\ \A S : CommitsIn(todo[a], S) => CommitsIn(todo'[a], S)
         /\ pc'[a] = pc[a] \/ (todo'[a] = <<>> /\ pc'[a] = OnError(a))
         /\ CancelAhead(a) => \/ ctl'[on[a]] = "cancel_requested"
                              \/ todo'[a] = todo[a]
                              \/ todo'[a] = <<>> /\ pc'[a] = OnError(a)
<1>0. todo[a] \in Seq(Effects)
  BY DEF TypeInv, TypeOK
<1>1. CASE PerformCommit(a)
  <2>1. /\ todo[a] # <<>> /\ IsCommit(Head(todo[a])) /\ UNCHANGED <<on, published, report, ctl, pc>>
        /\ todo' = [todo EXCEPT ![a] = Tail(todo[a])]
    BY <1>1 DEF PerformCommit, Performing, Continue, IsCommit, localVars
  <2>2. /\ on[a] \in Jobs /\ ~CancelAhead(a)
        /\ todo'[a] = Tail(todo[a]) /\ \A b \in Actors \ {a} : todo'[b] = todo[b]
    BY <2>1, EffectKinds DEF TypeInv, TypeOK, Engaged, CancelAhead
  <2>3. \A S : CommitsIn(todo[a], S) => CommitsIn(todo'[a], S)
    BY <1>0, <2>1, <2>2, Commitless
  <2> QED
    BY <2>1, <2>2, <2>3
<1>2. CASE ~PerformCommit(a)
  <2>1. /\ todo[a] # <<>> /\ on[a] \in Jobs /\ UNCHANGED <<on, published, report>>
        /\ \A b \in Actors \ {a} : todo'[b] = todo[b] /\ pc'[b] = pc[b]
        /\ \A j \in Jobs : \/ ctl'[j] = ctl[j]
                           \/ ctl[j] # "irreversible" /\ ctl'[j] = "cancel_requested"
    BY <1>2, PerformKinds
  <2>2. CASE todo'[a] = <<>> /\ pc'[a] = OnError(a)
    BY <2>1, <2>2, NothingToCommit
  <2>3. CASE pc'[a] = pc[a] /\ Head(todo[a]) = Await /\ todo'[a] = Tail(todo[a])
    <3>1. ~CancelAhead(a)
      BY <2>3, EffectKinds DEF CancelAhead
    <3>2. \A S : CommitsIn(todo[a], S) => CommitsIn(todo'[a], S)
      BY <1>0, <2>1, <2>3, Commitless
    <3> QED
      BY <2>1, <2>3, <3>1, <3>2
  <2>4. CASE pc'[a] = pc[a] /\ todo'[a] = todo[a]
    BY <2>1, <2>4
  <2>5. CASE /\ pc'[a] = pc[a] /\ ~IsCommit(Head(todo[a]))
             /\ todo'[a] \in {Tail(todo[a]), <<RaiseFlag>> \o Tail(todo[a]),
                              <<LowerReason>> \o Tail(todo[a])}
             /\ Head(todo[a]) = RequestInterrupt("cancel") => ctl'[on[a]] = "cancel_requested"
    <3>1. ASSUME NEW S, CommitsIn(todo[a], S) PROVE CommitsIn(todo'[a], S)
      <4>1. Tail(todo[a]) \in Seq(Effects) /\ CommitsIn(Tail(todo[a]), S)
        BY <1>0, <2>1, <3>1, Commitless
      <4>2. ASSUME NEW e \in {RaiseFlag, LowerReason} PROVE CommitsIn(<<e>> \o Tail(todo[a]), S)
        <5>1. e \in Effects /\ ~IsCommit(e)
          BY EffectTypes, EffectKinds
        <5> QED
          BY <4>1, <5>1, PrependPlan
      <4> QED
        BY <2>5, <4>1, <4>2
    <3>2. CancelAhead(a) => ctl'[on[a]] = "cancel_requested"
      BY <2>5 DEF CancelAhead
    <3> QED
      BY <2>1, <2>5, <3>1, <3>2
  <2> QED
    BY <1>2, <2>2, <2>3, <2>4, <2>5, PerformKinds
<1> QED
  BY <1>1, <1>2

(* A step of one actor keeps the authorship of the others' commits. *)
LEMMA AuthorKept ==
  ASSUME TypeInv, AuthorInv, NEW a \in Actors,
         \A b \in Actors \ {a} : todo'[b] = todo[b] /\ pc'[b] = pc[b] /\ on'[b] = on[b],
         \A j \in Jobs : ctl[j] = "cancel_requested" => ctl'[j] = "cancel_requested",
         \A w \in Workers \ {a} : todo[w] # <<>> /\ ctl'[on[w]] = "irreversible" =>
            ctl[on[w]] = "irreversible",
         a \in Users => UserAuthor(a)', a \in Workers => WorkerAuthor(a)',
         a = Dispatcher => CommitsIn(todo'[a], ParkTargets)
  PROVE  AuthorInv'
<1>1. ASSUME NEW u \in Users, u # a PROVE UserAuthor(u)'
  <2>1. UserAuthor(u) /\ todo'[u] = todo[u] /\ pc'[u] = pc[u] /\ on'[u] = on[u]
    BY <1>1 DEF AuthorInv, Actors
  <2>2. CASE todo[u] = <<>> /\ pc[u] # "finalize"
    BY <2>1, <2>2, NothingToCommit DEF UserAuthor, CommitsIn
  <2>3. CASE todo[u] # <<>> \/ pc[u] = "finalize"
    <3>1. on[u] \in Jobs
      BY <2>3 DEF TypeInv, Engaged, Actors
    <3>2. Asked(u) => Asked(u)'
      BY <2>1, <3>1 DEF Asked, CancelAhead
    <3> QED
      BY <2>1, <3>2 DEF UserAuthor, CommitsIn
  <2> QED
    BY <2>2, <2>3
<1>2. ASSUME NEW w \in Workers, w # a PROVE WorkerAuthor(w)'
  <2>1. WorkerAuthor(w) /\ todo'[w] = todo[w] /\ pc'[w] = pc[w] /\ on'[w] = on[w]
    BY <1>2 DEF AuthorInv, Actors
  <2> QED
    BY <1>2, <2>1 DEF WorkerAuthor, CommitsIn
<1>3. Dispatcher # a => CommitsIn(todo'[Dispatcher], ParkTargets)
  BY DEF AuthorInv, Actors
<1>4. CommitsIn(todo'[Dispatcher], ParkTargets) => CommitsIn(todo[Dispatcher], ParkTargets)'
  BY DEF CommitsIn, ParkTargets
<1> QED
  BY <1>1, <1>2, <1>3, <1>4 DEF AuthorInv

(* Performing an effect leaves each actor with commits of its own kind. *)
LEMMA PerformKeepsAuthors ==
  ASSUME TypeInv, AuthorInv, NEW a \in Actors, Perform(a) \/ Fails(a)
  PROVE  AuthorInv'
<1>0. /\ todo[a] # <<>> /\ on[a] \in Jobs /\ UNCHANGED on
      /\ \A b \in Actors \ {a} : todo'[b] = todo[b] /\ pc'[b] = pc[b]
      /\ \A j \in Jobs : \/ ctl'[j] = ctl[j]
                         \/ ctl[j] # "irreversible" /\ ctl'[j] = "cancel_requested"
      /\ \A S : CommitsIn(todo[a], S) => CommitsIn(todo'[a], S)
      /\ pc'[a] = pc[a] \/ (todo'[a] = <<>> /\ pc'[a] = OnError(a))
  BY PerformFacts
<1>1. ASSUME a \in Users PROVE UserAuthor(a)'
  <2>1. UserAuthor(a)
    BY <1>1 DEF AuthorInv
  <2>2. CASE todo'[a] = <<>> /\ pc'[a] = OnError(a)
    <3>1. OnError(a) = "idle"
      BY <1>1, ActorsAssumption DEF OnError
    <3> QED
      BY <2>2, <3>1, NothingToCommit DEF UserAuthor, CommitsIn
  <2>3. CASE pc'[a] = pc[a] /\ ~(todo'[a] = <<>> /\ pc'[a] = OnError(a))
    <3>1. Asked(a) => Asked(a)'
      BY <1>0, <2>3, PerformFacts DEF Asked, CancelAhead
    <3> QED
      BY <1>0, <2>1, <2>3, <3>1 DEF UserAuthor, CommitsIn
  <2> QED
    BY <1>0, <2>2, <2>3
<1>2. ASSUME a \in Workers PROVE WorkerAuthor(a)'
  <2>1. WorkerAuthor(a)
    BY <1>2 DEF AuthorInv
  <2>2. todo'[a] # <<>> => pc'[a] \in {"loop", "leave", "panic_flag", "observed"}
    BY <1>0, <2>1 DEF WorkerAuthor
  <2>3. ctl'[on[a]] = "irreversible" => ctl[on[a]] = "irreversible"
    BY <1>0
  <2>4. ctl'[on[a]] = "irreversible" =>
          CommitsIn(todo'[a], (Terminal \ {"cancelled"}) \cup ParkTargets)
    BY <1>0, <2>1, <2>3 DEF WorkerAuthor
  <2> QED
    BY <1>0, <2>2, <2>4 DEF WorkerAuthor, CommitsIn, Terminal, Failed, ParkTargets
<1>3. a = Dispatcher => CommitsIn(todo'[a], ParkTargets)
  BY <1>0 DEF AuthorInv
<1>4. \A w \in Workers \ {a} : todo[w] # <<>> /\ ctl'[on[w]] = "irreversible" =>
            ctl[on[w]] = "irreversible"
  BY <1>0 DEF TypeInv, Engaged, Actors
<1>5. \A j \in Jobs : ctl[j] = "cancel_requested" => ctl'[j] = "cancel_requested"
  BY <1>0
<1> QED
  BY <1>0, <1>1, <1>2, <1>3, <1>4, <1>5, AuthorKept

(* Who is behind a commit, and where it may lead. *)
LEMMA CommitAuthors ==
  ASSUME TypeInv, SectionInv, AuthorInv, NEW a \in Actors, PerformCommit(a)
  PROVE  LET x == Head(todo[a]).arg IN
         /\ on[a] \in Jobs /\ IsLegalTransition(state[on[a]], x)
         /\ state' = [state EXCEPT ![on[a]] = x] /\ state'[on[a]] = x
         /\ UNCHANGED <<ctl, published, on, report, pc>>
         /\ \/ a \in Users /\ x = "queued"
            \/ a \in Users /\ x \in {"cancelling", "cancelled"} /\ ctl[on[a]] = "cancel_requested"
            \/ /\ a \in Workers /\ pc[a] \in {"loop", "leave", "panic_flag", "observed"}
               /\ ctl[on[a]] = "irreversible" => x \in (Terminal \ {"cancelled"}) \cup ParkTargets
            \/ a = Dispatcher /\ x \in ParkTargets
<1> DEFINE x == Head(todo[a]).arg
<1>1. /\ todo[a] \in Seq(Effects) /\ todo[a] # <<>> /\ IsCommit(Head(todo[a]))
      /\ UNCHANGED <<ctl, published, on, report, pc>> /\ state' = [state EXCEPT ![on[a]] = x]
  BY DEF PerformCommit, Performing, IsCommit, TypeInv, TypeOK, localVars
<1>2. on[a] \in Jobs
  BY <1>1 DEF TypeInv, Engaged
<1>3. state'[on[a]] = x
  BY <1>1, <1>2 DEF TypeInv, TypeOK
<1>4. ~NoCommit(todo[a]) /\ \A S : CommitsIn(todo[a], S) => x \in S
  BY <1>1, Commitless DEF NoCommit
<1>5. Plan(state[on[a]], todo[a])
  BY <1>4 DEF SectionInv
<1>6. IsLegalTransition(state[on[a]], x)
  BY <1>1, <1>5, PlanContinues
<1>7. CASE a \in Users
  <2>1. UserAuthor(a) /\ ~CancelAhead(a)
    BY <1>1, <1>7, EffectKinds DEF AuthorInv, CancelAhead
  <2>2. x = "queued" \/ (x \in {"cancelling", "cancelled"} /\ ctl[on[a]] = "cancel_requested")
    BY <1>4, <2>1 DEF UserAuthor, Asked
  <2> QED
    BY <1>1, <1>2, <1>3, <1>6, <1>7, <2>2
<1>8. CASE a \in Workers
  <2>1. WorkerAuthor(a)
    BY <1>8 DEF AuthorInv
  <2>2. /\ pc[a] \in {"loop", "leave", "panic_flag", "observed"}
        /\ ctl[on[a]] = "irreversible" => x \in (Terminal \ {"cancelled"}) \cup ParkTargets
    BY <1>1, <1>4, <2>1 DEF WorkerAuthor
  <2> QED
    BY <1>1, <1>2, <1>3, <1>6, <1>8, <2>2
<1>9. CASE a = Dispatcher
  <2>1. x \in ParkTargets
    BY <1>4, <1>9 DEF AuthorInv
  <2> QED
    BY <1>1, <1>2, <1>3, <1>6, <1>9, <2>1
<1> QED
  BY <1>7, <1>8, <1>9 DEF Actors

(* The edges that matter once a job is committing. *)
LEMMA LateEdges ==
  /\ \A s \in Terminal, x \in States : ~IsLegalTransition(s, x)
  /\ \A x \in ParkTargets : ~IsLegalTransition("committing", x)
  /\ \A x \in States : IsLegalTransition("cancelling", x) => x \in Terminal
  /\ ParkTargets \subseteq States \ Ending /\ "committing" \notin ParkTargets \cup Ending
BY DEF IsLegalTransition, Edges, Terminal, Failed, ParkTargets, States, Parked, Ending

(* The step that moves a job, by whoever performs it, agrees with the *)
(* commit control and with the worker's place.                        *)
LEMMA CommitKeepsOutcome ==
  ASSUME TypeInv, OwnerInv, SectionInv, AuthorInv, ControlInv, PlaceInv, NEW a \in Actors,
         PerformCommit(a)
  PROVE  ControlInv' /\ PlaceInv'
<1> DEFINE j == on[a]
           x == Head(todo[a]).arg
<1>0. j \in Jobs /\ IsLegalTransition(state[j], x) /\ state' = [state EXCEPT ![j] = x]
      /\ state'[j] = x /\ UNCHANGED <<ctl, published, on, report, pc>>
  BY CommitAuthors
<1>1. \/ a \in Users /\ x = "queued"
      \/ a \in Users /\ x \in {"cancelling", "cancelled"} /\ ctl[j] = "cancel_requested"
      \/ /\ a \in Workers /\ pc[a] \in {"loop", "leave", "panic_flag", "observed"}
         /\ ctl[j] = "irreversible" => x \in (Terminal \ {"cancelled"}) \cup ParkTargets
      \/ a = Dispatcher /\ x \in ParkTargets
  BY CommitAuthors
<1>2. state \in [Jobs -> States] /\ state[j] \in States /\ x \in States
  <2>1. todo[a] \in Seq(Effects) /\ todo[a] # <<>> /\ Head(todo[a]).kind = "commit"
    BY DEF PerformCommit, Performing, TypeInv, TypeOK
  <2> QED
    BY <1>0, <2>1, NextEffect DEF TypeInv, TypeOK
<1> HIDE DEF x
<1>3. "queued" \in ParkTargets
  BY DEF ParkTargets
<1>4. ControlInv'
  <2> SUFFICES ASSUME NEW i \in Jobs, ctl[i] = "irreversible"
               PROVE  state'[i] \in {"committing"} \cup (Terminal \ {"cancelled"})
    BY <1>0 DEF ControlInv
  <2>1. state[i] \in {"committing"} \cup (Terminal \ {"cancelled"})
    BY DEF ControlInv
  <2>2. CASE i # j
    BY <1>0, <1>2, <2>1, <2>2
  <2>3. CASE i = j
    <3>1. state[j] = "committing"
      BY <1>0, <1>2, <2>1, <2>3, LateEdges
    <3>2. x \notin ParkTargets
      BY <1>0, <3>1, LateEdges
    <3> QED
      BY <1>0, <1>1, <1>3, <2>3, <3>2
  <2> QED
    BY <2>2, <2>3
<1>5. PlaceInv'
  <2> SUFFICES ASSUME NEW w \in Workers
               PROVE  /\ pc[w] \in {"export", "publish"} =>
                           state'[on[w]] = "committing" \/ ctl[on[w]] = "cancel_requested"
                      /\ pc[w] = "publish" => ctl[on[w]] = "irreversible"
                      /\ pc[w] \in Interruptible => state'[on[w]] # "committing"
                      /\ pc[w] = "report" /\ report[w] \in Reasons => state'[on[w]] # "committing"
    BY <1>0 DEF PlaceInv, Interruptible
  <2>1. /\ pc[w] \in {"export", "publish"} =>
             state[on[w]] = "committing" \/ ctl[on[w]] = "cancel_requested"
        /\ pc[w] = "publish" => ctl[on[w]] = "irreversible"
        /\ pc[w] \in Interruptible => state[on[w]] # "committing"
        /\ pc[w] = "report" /\ report[w] \in Reasons => state[on[w]] # "committing"
    BY DEF PlaceInv
  <2>2. CASE on[w] # j
    <3>1. pc[w] # "idle" => state'[on[w]] = state[on[w]]
      BY <1>0, <1>2, <2>2 DEF TypeInv, Engaged, Actors
    <3> QED
      BY <2>1, <3>1 DEF Interruptible
  <2>3. CASE on[w] = j /\ pc[w] \in {"export", "publish", "report"} \cup Interruptible
    <3>1. a \notin Workers
      <4> SUFFICES ASSUME a \in Workers PROVE FALSE
        OBVIOUS
      <4>1. pc[a] \in {"loop", "leave", "panic_flag", "observed"}
        BY <1>1, ActorsAssumption
      <4>2. a # w /\ pc[a] \in Owning /\ pc[w] \in Owning
        BY <2>3, <4>1, HoldingOwns DEF Holding, Interruptible
      <4> QED
        BY <2>3, <4>2 DEF OwnerInv, OneWorkerPerJob
    <3>2. x # "committing"
      BY <1>1, <1>3, <3>1, LateEdges
    <3>3. state[j] = "committing" => ctl[j] = "cancel_requested"
      BY <1>0, <1>1, <1>3, <3>1, LateEdges
    <3> QED
      BY <1>0, <2>1, <2>3, <3>2, <3>3
  <2> QED
    BY <2>2, <2>3
<1> QED
  BY <1>4, <1>5

(* A step that commits nothing and leaves a job's control to its publisher. *)
LEMMA OutcomeKept ==
  ASSUME TypeInv, ControlInv, PlaceInv, NEW a \in Actors, UNCHANGED <<state, published>>,
         \A b \in Actors \ {a} : pc'[b] = pc[b] /\ on'[b] = on[b] /\ report'[b] = report[b],
         \A j \in Jobs : \/ ctl'[j] = ctl[j]
                         \/ ctl[j] # "irreversible" /\ ctl'[j] = "cancel_requested",
         a \in Workers =>
           /\ pc'[a] \in {"export", "publish"} =>
                state[on'[a]] = "committing" \/ ctl'[on'[a]] = "cancel_requested"
           /\ pc'[a] = "publish" => ctl'[on'[a]] = "irreversible"
           /\ pc'[a] \in Interruptible => state[on'[a]] # "committing"
           /\ pc'[a] = "report" /\ report'[a] \in Reasons => state[on'[a]] # "committing"
  PROVE  ControlInv' /\ PlaceInv'
<1>1. ControlInv'
  BY DEF ControlInv
<1>2. ASSUME NEW w \in Workers, w # a
      PROVE  /\ pc'[w] \in {"export", "publish"} =>
                  state[on'[w]] = "committing" \/ ctl'[on'[w]] = "cancel_requested"
             /\ pc'[w] = "publish" => ctl'[on'[w]] = "irreversible"
             /\ pc'[w] \in Interruptible => state[on'[w]] # "committing"
             /\ pc'[w] = "report" /\ report'[w] \in Reasons => state[on'[w]] # "committing"
  <2>1. pc'[w] = pc[w] /\ on'[w] = on[w] /\ report'[w] = report[w]
    BY <1>2 DEF Actors
  <2>2. pc[w] # "idle" => on[w] \in Jobs
    BY DEF TypeInv, Engaged, Actors
  <2> QED
    BY <2>1, <2>2 DEF PlaceInv
<1>3. PlaceInv'
  BY <1>2 DEF PlaceInv, Interruptible
<1> QED
  BY <1>1, <1>3

(* Where a worker's step takes it, but for its reports. *)
LEMMA WorkerPlaces ==
  ASSUME TypeInv, NEW w \in Workers, WorkerRuns(w) \/ WorkerBreaks(w), ~Report(w)
  PROVE  /\ pc'[w] \in {"report"} \cup Interruptible \cup Busy => on'[w] = on[w] /\ on[w] \in Jobs
         /\ pc'[w] = "export" => state[on[w]] = "committing"
         /\ pc'[w] = "publish" => BeginIrreversible(w)
         /\ pc'[w] \in Interruptible =>
              pc[w] \in Interruptible \/ state[on[w]] \in {"transferring", "cancelling"}
         /\ pc'[w] = "report" /\ report'[w] \in Reasons => pc[w] \in Interruptible
         /\ pc'[w] \in Busy => pc[w] \in Busy \/ state[on[w]] \notin Ending
         /\ UNCHANGED <<ctl, published>> \/ BeginIrreversible(w) \/ Publish(w)
<1> USE DEF jobVars, controlVars, sharedVars, localVars, budgets
<1>0. w \in Actors /\ pc \in [Actors -> Pcs] /\ report \in [Actors -> Reports \cup {"none"}]
  BY DEF TypeInv, TypeOK, Actors
<1>1. \A p : At(w, p) /\ p # "idle" => on[w] \in Jobs
  BY <1>0 DEF At, TypeInv, Engaged
<1>2. ASSUME NEW what, NEW next, Conclude(w, what, next)
      PROVE  pc'[w] = next /\ report'[w] = what /\ on'[w] = on[w]
  BY <1>0, <1>2 DEF Conclude, Goto
<1>3. CASE Claim(w) \/ TryClaim(w) \/ AcquireTarget(w) \/ WorkerObserved(w)
           \/ LeaveTarget(w) \/ ReleaseJob(w)
  <2>1. pc'[w] \in {"claimed", "idle", "lease", "loop", "release", "leave"}
        /\ UNCHANGED <<ctl, published>>
    BY <1>0, <1>3 DEF Claim, TryClaim, AcquireTarget, WorkerObserved, LeaveTarget, ReleaseJob, Goto
  <2> QED
    BY <2>1 DEF Interruptible, Busy
<1>4. CASE ReadJob(w)
  <2> DEFINE s == state[on[w]]
             p == Arm(s, desired[on[w]])
  <2>1. /\ pc'[w] = p /\ on'[w] = on[w] /\ on[w] \in Jobs /\ UNCHANGED <<ctl, published>>
        /\ report'[w] = CASE s = "verifying" -> "verified" [] s = "cancelling" -> "cancel"
                          [] OTHER -> "none"
    BY <1>0, <1>1, <1>4 DEF ReadJob, Goto
  <2>2. /\ p \in {"leave", "mint", "verify", "precheck_flag", "report", "export", "unwind_flag"}
        /\ p = "verify" => s = "preparing"
        /\ p = "precheck_flag" => s = "transferring"
        /\ p = "report" => s = "verifying"
        /\ p = "export" => s = "committing"
        /\ p = "unwind_flag" => s = "cancelling"
    BY DEF Arm
  <2>3. "preparing" \notin Ending /\ "transferring" \notin Ending /\ "committing" \notin Ending
    BY DEF Ending, Terminal, Failed
  <2>4. p = "report" => report'[w] = "verified"
    BY <2>1, <2>2
  <2> HIDE DEF p, s
  <2>5. p = "report" => report'[w] \notin Reasons
    BY <2>4 DEF Reasons
  <2> QED
    BY <2>1, <2>2, <2>3, <2>5 DEF Interruptible, Busy, s
<1>5. CASE VerifyPublication(w) \/ FetchFails(w) \/ ExportFails(w)
  <2>1. UNCHANGED <<ctl, published>> /\ on[w] \in Jobs
        /\ \E what : Conclude(w, what, "report") /\ what \in Stages
    BY <1>1, <1>5 DEF VerifyPublication, FetchFails, ExportFails, Stages
  <2>2. pc'[w] = "report" /\ report'[w] \in Stages /\ on'[w] = on[w]
    BY <1>2, <2>1
  <2> QED
    BY <2>1, <2>2 DEF Interruptible, Busy, Stages, Reasons
<1>6. CASE TestFlag(w) \/ FetchInterrupted(w)
  <2>1. UNCHANGED <<ctl, published, on>> /\ on[w] \in Jobs /\ pc[w] \in {"precheck_flag", "fetch"}
        /\ pc'[w] \in {"unwound", "precheck"}
    BY <1>0, <1>1, <1>6 DEF TestFlag, FetchInterrupted, At, Goto
  <2> QED
    BY <2>1 DEF Interruptible, Busy
<1>7. CASE TestFile(w) \/ FetchFile(w)
  <2>1. UNCHANGED <<ctl, published>> /\ on[w] \in Jobs /\ pc[w] \in {"precheck", "fetch"}
    BY <1>1, <1>7 DEF TestFile, FetchFile, At
  <2>2. \E what, next : /\ Conclude(w, what, next)
                        /\ \/ next \in {"fetch", "precheck_flag", "unwind_flag"}
                           \/ next = "report" /\ what = "transfer_complete"
    <3>1. CASE TestFile(w)
      <4>1. \/ Conclude(w, "user_pause", "unwind_flag") \/ Conclude(w, "none", "fetch")
            \/ Conclude(w, "capture_pause", "unwind_flag")
            \/ Conclude(w, "device_lost", "unwind_flag")
        BY <3>1, Zenon DEF TestFile
      <4> QED
        BY <4>1
    <3>2. CASE FetchFile(w)
      BY <3>2 DEF FetchFile
    <3> QED
      BY <1>7, <3>1, <3>2
  <2>3. /\ on'[w] = on[w]
        /\ \/ pc'[w] \in {"fetch", "precheck_flag", "unwind_flag"}
           \/ pc'[w] = "report" /\ report'[w] = "transfer_complete"
    BY <1>2, <2>2
  <2> QED
    BY <2>1, <2>3 DEF Interruptible, Busy, Reasons
<1>8. CASE ReadReason(w) \/ RereadDevice(w)
  <2>1. UNCHANGED <<ctl, published>> /\ on[w] \in Jobs /\ pc[w] \in {"unwound", "reread"}
        /\ \E what, next : Conclude(w, what, next) /\ next \in {"unwind_flag", "report"}
    BY <1>1, <1>8 DEF ReadReason, RereadDevice, At
  <2>2. on'[w] = on[w] /\ pc'[w] \in {"unwind_flag", "report"}
    BY <1>2, <2>1
  <2> QED
    BY <2>1, <2>2 DEF Interruptible, Busy
<1>9. CASE UnwindFlag(w) \/ UnwindReason(w)
  <2>1. /\ UNCHANGED <<ctl, published, on>> /\ on[w] \in Jobs
        /\ \/ pc[w] \in {"unwind_flag", "unwind_reason"}
              /\ pc'[w] \in {"unwind_reason", "reread", "report"}
           \/ pc'[w] \in {"panic_reason", "release"}
    BY <1>0, <1>1, <1>9 DEF UnwindFlag, UnwindReason, At, Goto
  <2> QED
    BY <2>1 DEF Interruptible, Busy
<1>10. CASE BeginIrreversible(w) \/ Publish(w)
  <2>1. on[w] \in Jobs /\ pc[w] \in {"export", "publish"}
    BY <1>1, <1>10 DEF BeginIrreversible, Publish, At
  <2>2. \E what, next : /\ Conclude(w, what, next)
                        /\ \/ next = "report" /\ what \in Stages
                           \/ next = "publish" /\ BeginIrreversible(w)
    BY <1>10 DEF BeginIrreversible, Publish, Stages
  <2>3. /\ on'[w] = on[w]
        /\ \/ pc'[w] = "report" /\ report'[w] \in Stages
           \/ pc'[w] = "publish" /\ BeginIrreversible(w)
    BY <1>2, <2>2
  <2> QED
    BY <1>10, <2>1, <2>3 DEF Interruptible, Busy, Stages, Reasons
<1>11. CASE Panic(w)
  <2>1. /\ pc'[w] = "report" /\ report'[w] = "panicked" /\ UNCHANGED <<ctl, published, on>>
        /\ on[w] \in Jobs
    BY <1>0, <1>1, <1>11 DEF Panic, Goto
  <2> QED
    BY <2>1 DEF Interruptible, Busy, Reasons
<1> QED
  BY <1>3, <1>4, <1>5, <1>6, <1>7, <1>8, <1>9, <1>10, <1>11 DEF WorkerRuns, WorkerBreaks

(* A report: its effects, and where the worker goes on. *)
LEMMA ReportFootprint ==
  ASSUME TypeInv, ReportInv, NEW w \in Workers, Report(w)
  PROVE  /\ pc[w] = "report" /\ on[w] \in Jobs /\ report[w] \in Reports
         /\ UNCHANGED <<state, ctl, published, on, report>>
         /\ \A b \in Actors \ {w} : todo'[b] = todo[b] /\ pc'[b] = pc[b]
         /\ todo'[w] = DecideWorker(state[on[w]], report[w]).effects
         /\ pc'[w] \in {"loop", "leave", "panic_flag"}
<1>0. w \in Actors
  BY DEF Actors
<1>1. /\ pc[w] = "report" /\ UNCHANGED <<state, ctl, published, on, report>>
      /\ Apply(w, on[w], DecideWorker(state[on[w]], report[w]), AfterReport(report[w]))
  BY DEF Report, At, jobVars, localVars
<1>2. on[w] \in Jobs /\ report[w] \in Reports
  BY <1>0, <1>1 DEF TypeInv, Engaged, ReportInv
<1>3. AfterReport(report[w]) \in {"loop", "panic_flag", "leave"}
  BY DEF AfterReport
<1>4. OnError(w) \in {"panic_flag", "leave"}
  BY DEF OnError
<1> DEFINE decision == DecideWorker(state[on[w]], report[w])
<1> HIDE DEF decision
<1>5. /\ \A b \in Actors \ {w} : todo'[b] = todo[b] /\ pc'[b] = pc[b]
      /\ todo'[w] = decision.effects
      /\ pc'[w] = IF decision.outcome \in Refusals THEN OnError(w) ELSE AfterReport(report[w])
  BY <1>0, <1>1, <1>2, ApplyFootprint DEF decision
<1> QED
  BY <1>1, <1>2, <1>3, <1>4, <1>5 DEF decision

(* begin_irreversible wins against a cancellation or loses to it; either   *)
(* way the outcome has one owner.                                          *)
LEMMA WorkerKeepsOutcome ==
  ASSUME TypeInv, OwnerInv, ReportInv, AuthorInv, ControlInv, PlaceInv, NEW w \in Workers,
         WorkerRuns(w) \/ WorkerBreaks(w)
  PROVE  AuthorInv' /\ ControlInv' /\ PlaceInv'
<1>0. /\ w \in Actors /\ w \notin Users /\ w # Dispatcher /\ ctl \in [Jobs -> {"cancellable", "cancel_requested", "irreversible"}]
      /\ published \in [Jobs -> BOOLEAN]
  BY ActorsAssumption DEF Actors, TypeInv, TypeOK
<1>1. CASE Report(w)
  <2>1. /\ pc[w] = "report" /\ on[w] \in Jobs /\ report[w] \in Reports
        /\ UNCHANGED <<state, ctl, published, on, report>>
        /\ \A b \in Actors \ {w} : todo'[b] = todo[b] /\ pc'[b] = pc[b]
        /\ todo'[w] = DecideWorker(state[on[w]], report[w]).effects
        /\ pc'[w] \in {"loop", "leave", "panic_flag"}
    BY <1>1, ReportFootprint
  <2>2. state[on[w]] \in States
    BY <2>1 DEF TypeInv, TypeOK
  <2>3. ctl[on[w]] = "irreversible" =>
          CommitsIn(todo'[w], (Terminal \ {"cancelled"}) \cup ParkTargets)
    <3> SUFFICES ASSUME ctl[on[w]] = "irreversible"
                 PROVE  CommitsIn(todo'[w], (Terminal \ {"cancelled"}) \cup ParkTargets)
      OBVIOUS
    <3>1. state[on[w]] \in {"committing"} \cup Terminal
      BY <2>1 DEF ControlInv
    <3>2. report[w] \in Reasons => state[on[w]] # "committing"
      BY <2>1 DEF PlaceInv
    <3>3. CommitsIn(todo'[w], Terminal \ {"cancelled"})
      BY <2>1, <2>2, <3>1, <3>2, WorkerPlan
    <3> QED
      BY <3>3 DEF CommitsIn
  <2>4. WorkerAuthor(w)'
    BY <2>1, <2>3 DEF WorkerAuthor, CommitsIn, Terminal, Failed, ParkTargets
  <2>5. AuthorInv'
    BY <1>0, <2>1, <2>4, AuthorKept
  <2>6. ControlInv' /\ PlaceInv'
    BY <1>0, <2>1, OutcomeKept DEF Interruptible
  <2> QED
    BY <2>5, <2>6
<1>2. CASE ~Report(w)
  <2>1. /\ todo[w] = <<>> /\ UNCHANGED <<state, todo>>
        /\ \A b \in Actors \ {w} : pc'[b] = pc[b] /\ on'[b] = on[b] /\ report'[b] = report[b]
    BY <1>2, WorkerFootprint
  <2>2. WorkerAuthor(w)'
    BY <2>1 DEF WorkerAuthor
  <2>3. /\ pc'[w] \in {"report"} \cup Interruptible \cup Busy => on'[w] = on[w] /\ on[w] \in Jobs
        /\ pc'[w] = "export" => state[on[w]] = "committing"
        /\ pc'[w] = "publish" => BeginIrreversible(w)
        /\ pc'[w] \in Interruptible =>
             pc[w] \in Interruptible \/ state[on[w]] \in {"transferring", "cancelling"}
        /\ pc'[w] = "report" /\ report'[w] \in Reasons => pc[w] \in Interruptible
        /\ UNCHANGED <<ctl, published>> \/ BeginIrreversible(w) \/ Publish(w)
    BY <1>2, WorkerPlaces
  <2>4. /\ pc'[w] \in Interruptible => state[on'[w]] # "committing"
        /\ pc'[w] = "report" /\ report'[w] \in Reasons => state[on'[w]] # "committing"
        /\ pc'[w] = "export" => state[on'[w]] = "committing"
    BY <2>3 DEF PlaceInv, Busy
  <2>5. CASE UNCHANGED <<ctl, published>> /\ ~BeginIrreversible(w)
    <3>1. AuthorInv'
      BY <1>0, <2>1, <2>2, <2>5, AuthorKept
    <3>2. ControlInv' /\ PlaceInv'
      BY <1>0, <2>1, <2>3, <2>4, <2>5, OutcomeKept
    <3> QED
      BY <3>1, <3>2
  <2>6. CASE Publish(w)
    <3>1. /\ pc[w] = "publish" /\ pc'[w] = "report" /\ report'[w] \in Stages /\ UNCHANGED <<ctl, on>>
          /\ published' \in {published, [published EXCEPT ![on[w]] = TRUE]}
      <4>1. /\ pc[w] = "publish" /\ UNCHANGED ctl
            /\ published' \in {published, [published EXCEPT ![on[w]] = TRUE]}
            /\ \E what \in Stages : Conclude(w, what, "report")
        BY <2>6 DEF Publish, At, Stages
      <4> QED
        BY <1>0, <4>1 DEF Conclude, Goto, TypeInv, TypeOK
    <3>2. on[w] \in Jobs /\ ctl[on[w]] = "irreversible"
      BY <1>0, <3>1 DEF TypeInv, Engaged, PlaceInv
    <3>3. AuthorInv'
      BY <1>0, <2>1, <2>2, <3>1, AuthorKept
    <3>4. ControlInv'
      BY <1>0, <2>1, <3>1, <3>2 DEF ControlInv
    <3>5. \A v \in Workers : v = w \/ (pc'[v] = pc[v] /\ on'[v] = on[v] /\ report'[v] = report[v])
      BY <2>1 DEF Actors
    <3>6. PlaceInv'
      BY <2>1, <3>1, <3>5 DEF PlaceInv, Interruptible, Stages, Reasons
    <3> QED
      BY <3>3, <3>4, <3>6
  <2>7. CASE BeginIrreversible(w)
    <3>1. At(w, "export") /\ UNCHANGED <<published, on>>
      BY <2>7 DEF BeginIrreversible, At, Conclude
    <3>2. /\ on[w] \in Jobs /\ pc[w] = "export"
          /\ state[on[w]] = "committing" \/ ctl[on[w]] = "cancel_requested"
      BY <1>0, <3>1 DEF At, TypeInv, Engaged, PlaceInv
    <3>3. CASE ctl[on[w]] = "cancel_requested"
      <4>1. UNCHANGED ctl /\ Conclude(w, "commit_failed_permanent", "report")
        BY <2>7, <3>3 DEF BeginIrreversible
      <4>2. pc'[w] = "report" /\ report'[w] = "commit_failed_permanent"
        BY <1>0, <4>1 DEF Conclude, Goto, TypeInv, TypeOK
      <4>3. AuthorInv'
        BY <1>0, <2>1, <2>2, <4>1, AuthorKept
      <4>4. ControlInv' /\ PlaceInv'
        BY <1>0, <2>1, <2>4, <3>1, <4>1, <4>2, OutcomeKept DEF Interruptible
      <4> QED
        BY <4>3, <4>4
    <3>4. CASE ctl[on[w]] # "cancel_requested"
      <4>1. ctl' = [ctl EXCEPT ![on[w]] = "irreversible"] /\ Conclude(w, "none", "publish")
        BY <2>7, <3>4 DEF BeginIrreversible
      <4>2. /\ pc'[w] = "publish" /\ ctl'[on[w]] = "irreversible" /\ state[on[w]] = "committing"
            /\ \A j \in Jobs \ {on[w]} : ctl'[j] = ctl[j]
        BY <1>0, <3>2, <3>4, <4>1 DEF Conclude, Goto, TypeInv, TypeOK
      <4>3. \A v \in Workers \ {w} : todo[v] # <<>> => on[v] # on[w] /\ on[v] \in Jobs
        <5> SUFFICES ASSUME NEW v \in Workers \ {w}, todo[v] # <<>>
                     PROVE  on[v] # on[w] /\ on[v] \in Jobs
          OBVIOUS
        <5>1. pc[v] \in Owning /\ pc[w] \in Owning
          BY <3>2, HoldingOwns DEF OwnerInv, EffectsInside, Holding
        <5> QED
          BY <5>1 DEF OwnerInv, OneWorkerPerJob, TypeInv, Engaged, Actors
      <4>4. \A j \in Jobs : ctl[j] = "cancel_requested" => ctl'[j] = "cancel_requested"
        BY <3>4, <4>2
      <4>5. AuthorInv'
        BY <1>0, <2>1, <2>2, <4>2, <4>3, <4>4, AuthorKept
      <4>6. ControlInv'
        BY <2>1, <3>1, <4>2 DEF ControlInv
      <4>7. PlaceInv'
        <5>1. ASSUME NEW v \in Workers, v # w
              PROVE  pc'[v] = pc[v] /\ on'[v] = on[v] /\ report'[v] = report[v]
          BY <2>1, <5>1 DEF Actors
        <5>2. ASSUME NEW v \in Workers, v # w, pc[v] \in {"export", "publish"}
              PROVE  ctl'[on[v]] = ctl[on[v]]
          <6>1. pc[v] \in Owning /\ pc[w] \in Owning
            BY <3>2, <5>2, HoldingOwns DEF Holding
          <6> QED
            BY <4>2, <5>2, <6>1 DEF OwnerInv, OneWorkerPerJob, TypeInv, Engaged, Actors
        <5>3. pc'[w] = "publish" /\ on'[w] = on[w] /\ ctl'[on[w]] = "irreversible"
              /\ state[on[w]] = "committing"
          BY <3>1, <4>2
        <5>4. ASSUME NEW v \in Workers, v # w
              PROVE /\ pc'[v] \in {"export", "publish"} =>
                         state'[on'[v]] = "committing" \/ ctl'[on'[v]] = "cancel_requested"
                    /\ pc'[v] = "publish" => ctl'[on'[v]] = "irreversible"
                    /\ pc'[v] \in Interruptible => state'[on'[v]] # "committing"
                    /\ pc'[v] = "report" /\ report'[v] \in Reasons => state'[on'[v]] # "committing"
          BY <2>1, <5>1, <5>2, <5>4 DEF PlaceInv
        <5> QED
          BY <2>1, <5>3, <5>4 DEF PlaceInv, Interruptible
      <4> QED
        BY <4>5, <4>6, <4>7
    <3> QED
      BY <3>3, <3>4
  <2> QED
    BY <2>3, <2>5, <2>6, <2>7
<1> QED
  BY <1>1, <1>2

(* Every performed or failing effect keeps authors, control and places. *)
LEMMA PerformKeepsOutcome ==
  ASSUME TypeInv, OwnerInv, SectionInv, AuthorInv, ControlInv, PlaceInv, NEW a \in Actors,
         Perform(a) \/ Fails(a)
  PROVE  AuthorInv' /\ ControlInv' /\ PlaceInv'
<1>1. AuthorInv'
  BY PerformKeepsAuthors
<1>2. CASE PerformCommit(a)
  BY <1>1, <1>2, CommitKeepsOutcome
<1>3. CASE ~PerformCommit(a)
  <2>1. /\ UNCHANGED <<state, on, published, report>>
        /\ \A b \in Actors \ {a} : pc'[b] = pc[b]
        /\ \A j \in Jobs : \/ ctl'[j] = ctl[j]
                           \/ ctl[j] # "irreversible" /\ ctl'[j] = "cancel_requested"
        /\ pc'[a] = pc[a] \/ pc'[a] = OnError(a)
        /\ on[a] \in Jobs
    BY <1>3, PerformKinds
  <2>2. OnError(a) \notin {"export", "publish", "report"} \cup Interruptible
    BY OnErrorType DEF Interruptible
  <2>3. ControlInv' /\ PlaceInv'
    <3>1. a \in Workers =>
           /\ pc'[a] \in {"export", "publish"} =>
                state[on[a]] = "committing" \/ ctl'[on[a]] = "cancel_requested"
           /\ pc'[a] = "publish" => ctl'[on[a]] = "irreversible"
           /\ pc'[a] \in Interruptible => state[on[a]] # "committing"
           /\ pc'[a] = "report" /\ report[a] \in Reasons => state[on[a]] # "committing"
      BY <2>1, <2>2 DEF PlaceInv
    <3> QED
      BY <2>1, <3>1, OutcomeKept
  <2> QED
    BY <1>1, <2>3
<1> QED
  BY <1>2, <1>3

(* An observation parks or releases a job that no worker has begun to *)
(* commit.                                                            *)
LEMMA ObserveKeepsOutcome ==
  ASSUME TypeInv, AuthorInv, ControlInv, PlaceInv, NEW a \in Actors, Observe(a)
  PROVE  AuthorInv' /\ ControlInv' /\ PlaceInv'
<1>1. /\ todo[a] = <<>> /\ on[a] \in Jobs /\ UNCHANGED <<state, ctl, published, on, report>>
      /\ pc[a] \in {"mint", "read", "observe"}
      /\ \A b \in Actors \ {a} : todo'[b] = todo[b] /\ pc'[b] = pc[b]
  BY ObserveFootprint
<1>2. a \notin Users
  BY <1>1 DEF AuthorInv, UserAuthor
<1>3. /\ pc'[a] \in {"read", "observe", "observed"} /\ CommitsIn(todo'[a], ParkTargets)
      /\ todo'[a] # <<>> => pc'[a] = "observed"
  <2>1. CASE UNCHANGED <<serial, todo, outdated>> /\ pc'[a] \in {"read", "observe"}
    BY <1>1, <2>1, NothingToCommit
  <2>2. ASSUME NEW decision, Apply(a, on[a], decision, "observed"),
               CommitsIn(decision.effects, ParkTargets), decision.outcome \notin Refusals
        PROVE  pc'[a] = "observed" /\ CommitsIn(todo'[a], ParkTargets)
    BY <1>1, <2>2, ApplyFootprint
  <2> QED
    BY <2>1, <2>2, ObserveFootprint
<1>4. a \in Workers => WorkerAuthor(a)'
  BY <1>1, <1>3 DEF WorkerAuthor, CommitsIn, ParkTargets, Terminal, Failed
<1>5. AuthorInv'
  BY <1>1, <1>2, <1>3, <1>4, AuthorKept
<1>6. ControlInv' /\ PlaceInv'
  BY <1>1, <1>3, OutcomeKept DEF Interruptible
<1> QED
  BY <1>5, <1>6

(* A command writes effects of its own kind only, and never the outcome. *)
LEMMA UserKeepsOutcome ==
  ASSUME TypeInv, AuthorInv, ControlInv, PlaceInv, NEW u \in Users, UserRuns(u) \/ UserIssues(u)
  PROVE  AuthorInv' /\ ControlInv' /\ PlaceInv'
<1>0. u \in Actors /\ u \notin Workers /\ u # Dispatcher /\ UserAuthor(u) /\ OnError(u) = "idle"
  BY ActorsAssumption DEF Actors, AuthorInv, OnError
<1>1. /\ todo[u] = <<>> /\ UNCHANGED <<state, ctl, published, report>>
      /\ \A b \in Actors \ {u} : todo'[b] = todo[b] /\ pc'[b] = pc[b] /\ on'[b] = on[b]
  BY UserFootprint
<1>2. CASE UNCHANGED <<serial, todo, outdated>> /\ pc'[u] \in {"idle", "cancel_ok"}
  <2>1. UserAuthor(u)'
    BY <1>1, <1>2, NothingToCommit DEF UserAuthor, CommitsIn
  <2> QED
    BY <1>0, <1>1, <2>1, AuthorKept, OutcomeKept
<1>3. ASSUME NEW j \in Jobs, NEW decision, NEW ok, on'[u] = j, Apply(u, j, decision, ok),
             \/ pc[u] = "idle" /\ ok = "idle" /\ CommitsIn(decision.effects, {"queued"})
             \/ pc[u] = "idle" /\ ok = "finalize" /\ decision = DecideCancel(state[j])
             \/ pc[u] = "finalize" /\ ok = "cancel_ok" /\ on[u] = j
                /\ decision = DecideFinalizeCancel(state[j])
      PROVE  UserAuthor(u)'
  <2>1. /\ todo'[u] = decision.effects
        /\ pc'[u] = IF decision.outcome \in Refusals THEN "idle" ELSE ok
        /\ state[j] \in States
    BY <1>0, <1>3, ApplyFootprint DEF TypeInv, TypeOK
  <2>2. CASE ok = "idle" /\ CommitsIn(decision.effects, {"queued"})
    BY <2>1, <2>2 DEF UserAuthor, CommitsIn
  <2>3. CASE ok = "finalize" /\ decision = DecideCancel(state[j])
    <3>1. CASE state[j] \in Terminal
      <4>1. todo'[u] = <<>> /\ pc'[u] = "idle"
        BY <2>1, <2>3, <3>1, CancelPlan
      <4> QED
        BY <4>1 DEF UserAuthor, CommitsIn
    <3>2. CASE state[j] \notin Terminal
      <4>1. /\ todo'[u] # <<>> /\ Head(todo'[u]) = RequestInterrupt("cancel")
            /\ CommitsIn(todo'[u], {"cancelling"}) /\ pc'[u] = "finalize"
        BY <2>1, <2>3, <3>2, CancelPlan
      <4>2. Asked(u)'
        BY <4>1 DEF Asked, CancelAhead, RequestInterrupt
      <4> QED
        BY <4>1, <4>2 DEF UserAuthor, CommitsIn
    <3> QED
      BY <3>1, <3>2
  <2>4. CASE pc[u] = "finalize" /\ ok = "cancel_ok" /\ on[u] = j
             /\ decision = DecideFinalizeCancel(state[j])
    <3>1. ctl[j] = "cancel_requested"
      BY <1>0, <1>1, <2>4 DEF UserAuthor, Asked, CancelAhead
    <3>2. CommitsIn(todo'[u], {"cancelling", "cancelled"})
      BY <2>1, <2>4, FinalizePlan
    <3>3. Asked(u)'
      BY <1>1, <1>3, <3>1 DEF Asked
    <3> QED
      BY <2>1, <2>4, <3>2, <3>3 DEF UserAuthor, CommitsIn
  <2> QED
    BY <1>3, <2>2, <2>3, <2>4
<1>4. ASSUME UserAuthor(u)' PROVE AuthorInv' /\ ControlInv' /\ PlaceInv'
  BY <1>0, <1>1, <1>4, AuthorKept, OutcomeKept
<1> QED
  BY <1>2, <1>3, <1>4, UserFootprint

OwnedInv == TypeInv /\ OwnerInv /\ SectionInv /\ ReportInv /\ AuthorInv /\ ControlInv /\ PlaceInv

(* One step of the system keeps authors, control and places together. *)
LEMMA OwnedStep == OwnedInv /\ [Next]_vars => AuthorInv' /\ ControlInv' /\ PlaceInv'
<1> SUFFICES ASSUME OwnedInv, [Next]_vars PROVE AuthorInv' /\ ControlInv' /\ PlaceInv'
  OBVIOUS
<1> USE DEF OwnedInv
<1>1. ASSUME NEW a \in Actors, Perform(a) \/ Fails(a) \/ Observe(a)
      PROVE  AuthorInv' /\ ControlInv' /\ PlaceInv'
  BY <1>1, PerformKeepsOutcome, ObserveKeepsOutcome
<1>2. ASSUME NEW w \in Workers, WorkerRuns(w) \/ WorkerBreaks(w)
      PROVE  AuthorInv' /\ ControlInv' /\ PlaceInv'
  BY <1>2, WorkerKeepsOutcome
<1>3. ASSUME DispatcherRuns PROVE AuthorInv' /\ ControlInv' /\ PlaceInv'
  <2>1. Dispatcher \in Actors /\ Dispatcher \notin Workers \cup Users
    BY ActorsAssumption DEF Actors
  <2>2. /\ todo[Dispatcher] = <<>> /\ UNCHANGED <<state, ctl, published, todo, report>>
        /\ \A b \in Actors \ {Dispatcher} : pc'[b] = pc[b] /\ on'[b] = on[b]
    BY <1>3, DispatcherFootprint
  <2> QED
    BY <2>1, <2>2, AuthorKept, OutcomeKept, NothingToCommit
<1>4. ASSUME NEW u \in Users, UserRuns(u) \/ UserIssues(u)
      PROVE  AuthorInv' /\ ControlInv' /\ PlaceInv'
  BY <1>4, UserKeepsOutcome
<1>5. ASSUME UNCHANGED <<state, ctl, published, todo, on, pc, report>>
      PROVE  AuthorInv' /\ ControlInv' /\ PlaceInv'
  <2>1. AuthorInv'
    BY <1>5 DEF AuthorInv, UserAuthor, WorkerAuthor, Asked, CancelAhead, CommitsIn, RequestInterrupt,
                ParkTargets, Terminal, Failed
  <2>2. ControlInv' /\ PlaceInv'
    BY <1>5 DEF ControlInv, PlaceInv, Interruptible
  <2> QED
    BY <2>1, <2>2
<1>6. ASSUME NEW d \in Devices, DeviceChanges(d) PROVE AuthorInv' /\ ControlInv' /\ PlaceInv'
  BY <1>5, <1>6 DEF DeviceChanges, jobVars, localVars
<1>7. CASE UNCHANGED vars
  BY <1>5, <1>7 DEF vars, jobVars, localVars
<1> QED
  BY <1>1, <1>2, <1>3, <1>4, <1>6, <1>7 DEF Next, Quiescent

(* They hold in every reachable state. *)
LEMMA OutcomeOwned == Spec => []OwnedInv
<1>1. Init => AuthorInv /\ ControlInv /\ PlaceInv
  BY NothingToCommit
     DEF Init, AuthorInv, UserAuthor, WorkerAuthor, ControlInv, PlaceInv, Interruptible, Actors
<1>2. OwnedInv <=> (TypeInv /\ OwnerInv /\ SectionInv /\ ReportInv) /\ (AuthorInv /\ ControlInv /\ PlaceInv)
  BY DEF OwnedInv
<1> QED
  BY <1>1, <1>2, OwnedStep, Sections, PTL DEF Spec

(* DownloadCommitControl: either the cancellation prevents the publication  *)
(* or the publication owns the outcome, whichever of request_cancel and     *)
(* begin_irreversible comes first.                                          *)
THEOREM PublicationOwnsOutcome == Spec => []PublishedNeverCancelled
<1>1. OwnedInv => PublishedNeverCancelled
  BY DEF OwnedInv, ControlInv, PublishedNeverCancelled, Terminal, Failed
<1> QED
  BY <1>1, OutcomeOwned, PTL

-----------------------------------------------------------------------------
(* Cancellations.                                                          *)

Closed(j) == \A w \in Workers : on[w] = j => pc[w] \notin Busy

(* A user between cancel's two commands waits for the worker; a commit of   *)
(* cancelled is decided once nobody drives the job.                         *)
CancelUser(u) ==
  /\ pc[u] = "finalize" =>
       /\ NoCommit(todo[u]) => state[on[u]] \in Ending
       /\ todo[u] = <<>> => Closed(on[u])
       /\ todo[u] # <<>> => todo[u][Len(todo[u])] = Await
  /\ ~CommitsIn(todo[u], States \ {"cancelled"}) => Closed(on[u]) /\ state[on[u]] \in Ending

CancelInv ==
  /\ \A j \in Jobs : state[j] = "cancelled" => Closed(j)
  /\ \A u \in Users : CancelUser(u)

OutcomeInv == OwnedInv /\ CancelInv

(* The Await that closes a list stays its last effect while the list is *)
(* worked off.                                                          *)
LEMMA LastEffect ==
  ASSUME NEW list \in Seq(Effects), list # <<>>, list[Len(list)] = Await
  PROVE  /\ Tail(list) = <<>> => Head(list) = Await
         /\ Tail(list) # <<>> => /\ Tail(list)[Len(Tail(list))] = Await
                                 /\ \A e \in Effects : LET next == <<e>> \o Tail(list)
                                                       IN  next[Len(next)] = Await
<1>1. Len(list) \in Nat /\ Len(list) > 0 /\ Len(Tail(list)) = Len(list) - 1
      /\ Tail(list) \in Seq(Effects) /\ Head(list) = list[1]
  OBVIOUS
<1>2. ASSUME Tail(list) = <<>> PROVE Head(list) = Await
  <2>1. Len(list) = 1
    BY <1>1, <1>2
  <2> QED
    BY <1>1, <2>1
<1>3. ASSUME Tail(list) # <<>> PROVE Tail(list)[Len(Tail(list))] = Await
  BY <1>1, <1>3
<1>4. ASSUME Tail(list) # <<>>, NEW e \in Effects
      PROVE  (<<e>> \o Tail(list))[Len(<<e>> \o Tail(list))] = Await
  <2> DEFINE rest == Tail(list)
  <2>1. rest \in Seq(Effects) /\ rest # <<>> /\ rest[Len(rest)] = Await
    BY <1>1, <1>3, <1>4
  <2> HIDE DEF rest
  <2>2. /\ Len(<<e>> \o rest) = Len(rest) + 1 /\ Len(rest) \in Nat \ {0}
        /\ \A i \in 1..Len(rest) : (<<e>> \o rest)[i + 1] = rest[i]
    BY <2>1
  <2>3. (<<e>> \o rest)[Len(<<e>> \o rest)] = Await
    BY <2>1, <2>2
  <2> QED
    BY <2>3 DEF rest
<1> QED
  BY <1>2, <1>3, <1>4

(* A job that is ending keeps ending, and no file of it is opened again.   *)
LEMMA EndingStays ==
  ASSUME OwnedInv, [Next]_vars, NEW j \in Jobs, state[j] \in Ending
  PROVE  state'[j] \in Ending /\ (Closed(j) => Closed(j)')
<1> USE DEF OwnedInv
<1>1. state'[j] \in Ending
  <2> SUFFICES ASSUME ~UNCHANGED state PROVE state'[j] \in Ending
    OBVIOUS
  <2>1. PICK a \in Actors : /\ PerformCommit(a) /\ on[a] \in Jobs
                            /\ IsLegalTransition(state[on[a]], Head(todo[a]).arg)
    BY StateSteps
  <2>2. state' = [state EXCEPT ![on[a]] = Head(todo[a]).arg] /\ state \in [Jobs -> States]
        /\ Head(todo[a]).arg \in States
    BY <2>1, NextEffect DEF PerformCommit, Performing, TypeInv, TypeOK
  <2>3. CASE j # on[a]
    BY <2>2, <2>3
  <2>4. CASE j = on[a]
    BY <2>1, <2>2, <2>4, LateEdges DEF Ending
  <2> QED
    BY <2>3, <2>4
<1>2. \A w \in Workers : pc'[w] \in Busy /\ on'[w] = j => pc[w] \in Busy /\ on[w] = j
  <2>0. {"read", "observe", "observed", "loop", "leave", "panic_flag", "idle"} \cap Busy = {}
    BY DEF Busy
  <2>1. ASSUME NEW a \in Actors, Perform(a) \/ Fails(a)
        PROVE  \A w \in Workers : pc'[w] \in Busy /\ on'[w] = j => pc[w] \in Busy /\ on[w] = j
    <3>1. /\ UNCHANGED on /\ \A b \in Actors \ {a} : pc'[b] = pc[b]
          /\ pc'[a] = pc[a] \/ pc'[a] = OnError(a)
      BY <2>1, PerformFacts
    <3> QED
      BY <2>0, <3>1, OnErrorType DEF Actors
  <2>2. ASSUME NEW a \in Actors, Observe(a)
        PROVE  \A w \in Workers : pc'[w] \in Busy /\ on'[w] = j => pc[w] \in Busy /\ on[w] = j
    <3>1. /\ UNCHANGED on /\ \A b \in Actors \ {a} : pc'[b] = pc[b]
          /\ pc'[a] \in {"read", "observe", "observed"}
      BY <2>2, ObserveFootprint, ApplyFootprint
    <3> QED
      BY <2>0, <3>1 DEF Actors
  <2>3. ASSUME NEW v \in Workers, WorkerRuns(v) \/ WorkerBreaks(v)
        PROVE  \A w \in Workers : pc'[w] \in Busy /\ on'[w] = j => pc[w] \in Busy /\ on[w] = j
    <3>1. CASE Report(v)
      <4>1. /\ UNCHANGED on /\ \A b \in Actors \ {v} : pc'[b] = pc[b]
            /\ pc'[v] \in {"loop", "leave", "panic_flag"}
        BY <3>1, ReportFootprint
      <4> QED
        BY <2>0, <4>1 DEF Actors
    <3>2. CASE ~Report(v)
      <4>1. \A b \in Actors \ {v} : pc'[b] = pc[b] /\ on'[b] = on[b]
        BY <2>3, <3>2, WorkerFootprint
      <4>2. pc'[v] \in Busy => on'[v] = on[v] /\ (pc[v] \in Busy \/ state[on[v]] \notin Ending)
        BY <2>3, <3>2, WorkerPlaces
      <4> QED
        BY <4>1, <4>2 DEF Actors
    <3> QED
      BY <3>1, <3>2
  <2>4. ASSUME DispatcherRuns \/ \E u \in Users : UserRuns(u) \/ UserIssues(u)
        PROVE  \A w \in Workers : pc'[w] = pc[w] /\ on'[w] = on[w]
    BY <2>4, DispatcherFootprint, UserFootprint, ActorsAssumption DEF Actors
  <2>5. ASSUME UNCHANGED vars \/ \E d \in Devices : DeviceChanges(d) PROVE UNCHANGED <<pc, on>>
    BY <2>5 DEF vars, localVars, DeviceChanges
  <2> QED
    BY <2>1, <2>2, <2>3, <2>4, <2>5 DEF Next, Quiescent
<1>3. Closed(j) => Closed(j)'
  BY <1>2 DEF Closed, Busy
<1> QED
  BY <1>1, <1>3

(* Nobody commits cancelled over a worker with a file open.                *)
LEMMA CancelledClosed ==
  ASSUME OwnedInv, CancelInv, [Next]_vars, NEW j \in Jobs, state'[j] = "cancelled"
  PROVE  Closed(j)'
<1> USE DEF OwnedInv
<1>1. CASE state[j] = "cancelled"
  <2>1. state[j] \in Ending /\ Closed(j)
    BY <1>1 DEF Ending, Terminal, CancelInv
  <2> QED
    BY <2>1, EndingStays
<1>2. CASE state[j] # "cancelled"
  <2>1. PICK a \in Actors : PerformCommit(a)
    BY <1>2, StateSteps
  <2> DEFINE x == Head(todo[a]).arg
  <2>2. on[a] \in Jobs /\ state' = [state EXCEPT ![on[a]] = x] /\ UNCHANGED <<on, pc>>
    BY <2>1, CommitAuthors
  <2>3. j = on[a] /\ x = "cancelled"
    BY <1>2, <2>2 DEF TypeInv, TypeOK
  <2>4. \/ a \in Users
        \/ a \in Workers /\ pc[a] \in {"loop", "leave", "panic_flag", "observed"}
    <3>1. x \notin ParkTargets
      BY <2>3 DEF ParkTargets
    <3> QED
      BY <2>1, <3>1, CommitAuthors
  <2>5. Closed(j)
    <3>1. CASE a \in Users
      <4>1. todo[a] \in Seq(Effects) /\ todo[a] # <<>> /\ IsCommit(Head(todo[a]))
        BY <2>1 DEF PerformCommit, Performing, IsCommit, TypeInv, TypeOK
      <4>2. ~CommitsIn(todo[a], States \ {"cancelled"})
        BY <2>3, <4>1, Commitless
      <4> QED
        BY <2>3, <3>1, <4>2 DEF CancelInv, CancelUser
    <3>2. CASE a \in Workers /\ pc[a] \in {"loop", "leave", "panic_flag", "observed"}
      <4> SUFFICES ASSUME NEW w \in Workers, on[w] = j, pc[w] \in Busy PROVE FALSE
        BY DEF Closed
      <4>1. w # a /\ pc[a] \in Owning /\ pc[w] \in Owning
        BY <3>2, HoldingOwns DEF Holding, Busy
      <4> QED
        BY <2>3, <3>2, <4>1 DEF OwnerInv, OneWorkerPerJob
    <3> QED
      BY <2>4, <3>1, <3>2
  <2> QED
    BY <2>2, <2>5 DEF Closed, Busy
<1> QED
  BY <1>1, <1>2

(* A user that did not take the step. *)
LEMMA OtherUserCancels ==
  ASSUME OwnedInv, CancelInv, [Next]_vars, NEW u \in Users, todo'[u] = todo[u], pc'[u] = pc[u],
         on'[u] = on[u]
  PROVE  CancelUser(u)'
<1>0. CancelUser(u) /\ u \in Actors
  BY DEF CancelInv, Actors
<1>1. CASE pc[u] # "finalize" /\ todo[u] = <<>>
  BY <1>1 DEF CancelUser, CommitsIn
<1>2. CASE pc[u] = "finalize" \/ todo[u] # <<>>
  <2>1. on[u] \in Jobs
    BY <1>0, <1>2 DEF OwnedInv, TypeInv, Engaged
  <2>2. state[on[u]] \in Ending => state'[on[u]] \in Ending /\ (Closed(on[u]) => Closed(on[u])')
    <3> SUFFICES ASSUME NEW j \in Jobs, j = on[u], state[j] \in Ending
                 PROVE  state'[j] \in Ending /\ (Closed(j) => Closed(on[u])')
      BY <2>1
    <3>1. state'[j] \in Ending /\ (Closed(j) => Closed(j)')
      BY EndingStays
    <3> QED
      BY <3>1 DEF Closed, Busy
  <2>3. NoCommit(<<>>)
    BY NothingToCommit DEF NoCommit
  <2> QED
    BY <1>0, <2>2, <2>3 DEF CancelUser, NoCommit, CommitsIn, Ending, Terminal, Failed, States, Parked,
                            Await
<1> QED
  BY <1>1, <1>2

(* wait_for_inactive: cancel goes on once active has been seen clear, and  *)
(* by then the worker has let go of every file.                            *)
LEMMA PerformCancels ==
  ASSUME OwnedInv, CancelInv, [Next]_vars, NEW u \in Users, Perform(u) \/ Fails(u)
  PROVE  CancelUser(u)'
<1> USE DEF OwnedInv
<1>0. /\ CancelUser(u) /\ UserAuthor(u) /\ u \in Actors /\ OnError(u) = "idle"
      /\ todo[u] \in Seq(Effects)
  BY ActorsAssumption DEF CancelInv, AuthorInv, Actors, OnError, TypeInv, TypeOK
<1>1. /\ todo[u] # <<>> /\ on[u] \in Jobs /\ UNCHANGED on
      /\ \A S : CommitsIn(todo[u], S) => CommitsIn(todo'[u], S)
      /\ pc'[u] = pc[u] \/ (todo'[u] = <<>> /\ pc'[u] = "idle")
  BY <1>0, PerformFacts
<1> DEFINE j == on[u]
<1>2. state[j] \in Ending => state'[j] \in Ending /\ (Closed(j) => Closed(j)')
  <2> SUFFICES ASSUME NEW i \in Jobs, i = on[u], state[i] \in Ending
               PROVE  state'[i] \in Ending /\ (Closed(i) => Closed(on[u])')
    BY <1>1
  <2>1. state'[i] \in Ending /\ (Closed(i) => Closed(i)')
    BY EndingStays
  <2> QED
    BY <1>1, <2>1 DEF Closed, Busy
<1>3. ASSUME ~CommitsIn(todo'[u], States \ {"cancelled"})
      PROVE  Closed(on[u])' /\ state'[j] \in Ending
  BY <1>0, <1>1, <1>2, <1>3 DEF CancelUser
<1>4. ASSUME pc'[u] = "finalize"
      PROVE  /\ NoCommit(todo'[u]) => state'[j] \in Ending
             /\ todo'[u] = <<>> => Closed(on[u])'
             /\ todo'[u] # <<>> => todo'[u][Len(todo'[u])] = Await
  <2>1. /\ pc[u] = "finalize" /\ pc'[u] = pc[u] /\ todo[u][Len(todo[u])] = Await
        /\ CommitsIn(todo[u], {"cancelling"}) /\ (NoCommit(todo[u]) => state[j] \in Ending)
    BY <1>0, <1>1, <1>4 DEF CancelUser, UserAuthor
  <2>2. Tail(todo[u]) \in Seq(Effects)
    BY <1>0, <1>1
  <2>3. CASE PerformCommit(u)
    <3>1. todo'[u] = Tail(todo[u]) /\ IsCommit(Head(todo[u])) /\ state'[j] = Head(todo[u]).arg
      BY <1>0, <1>1, <2>3 DEF PerformCommit, Performing, Continue, IsCommit, TypeInv, TypeOK
    <3>2. Head(todo[u]).arg = "cancelling" /\ Head(todo[u]) # Await
      BY <1>0, <1>1, <2>1, <3>1, Commitless, EffectKinds
    <3>3. state'[j] \in Ending
      BY <3>1, <3>2 DEF Ending
    <3> QED
      BY <1>0, <1>1, <2>1, <3>1, <3>2, <3>3, LastEffect
  <2>4. CASE ~PerformCommit(u)
    <3>2. CASE todo'[u] = <<>> /\ pc'[u] = OnError(u)
      BY <1>0, <1>4, <3>2
    <3>3. CASE Head(todo[u]) = Await /\ todo'[u] = Tail(todo[u]) /\ ~active[j]
      <4>1. NoCommit(todo'[u]) => state'[j] \in Ending
        BY <1>0, <1>1, <1>2, <2>1, <3>3, Commitless, EffectKinds DEF NoCommit
      <4>2. todo'[u] # <<>> => todo'[u][Len(todo'[u])] = Await
        BY <1>0, <1>1, <2>1, <3>3, LastEffect
      <4>3. Closed(on[u])'
        <5>1. \A w \in Workers : on[w] = j => pc[w] \notin Owning
          BY <3>3 DEF OwnerInv, DriverIsActive
        <5>2. UNCHANGED on /\ \A w \in Workers : pc'[w] = pc[w]
          BY <1>0, <2>4, PerformKinds, ActorsAssumption DEF Actors
        <5>3. Busy \subseteq Owning
          BY HoldingOwns DEF Busy, Holding
        <5> QED
          BY <5>1, <5>2, <5>3 DEF Closed, Busy
      <4> QED
        BY <4>1, <4>2, <4>3
    <3>4. CASE todo'[u] = todo[u]
      BY <1>1, <1>2, <2>1, <3>4
    <3>5. CASE /\ ~IsCommit(Head(todo[u])) /\ Head(todo[u]) # Await
               /\ todo'[u] \in {Tail(todo[u]), <<RaiseFlag>> \o Tail(todo[u]),
                                <<LowerReason>> \o Tail(todo[u])}
      <4>1. Tail(todo[u]) # <<>> /\ Tail(todo[u])[Len(Tail(todo[u]))] = Await
        BY <1>0, <1>1, <2>1, <3>5, LastEffect
      <4>2. ASSUME NEW e \in {RaiseFlag, LowerReason}
            PROVE  LET next == <<e>> \o Tail(todo[u]) IN
                   /\ next # <<>> /\ next[Len(next)] = Await
                   /\ NoCommit(next) => NoCommit(Tail(todo[u]))
        <5>1. e \in Effects /\ ~IsCommit(e)
          BY EffectTypes, EffectKinds
        <5> DEFINE next == <<e>> \o Tail(todo[u])
        <5>2. next \in Seq(Effects) /\ next # <<>> /\ Tail(next) = Tail(todo[u])
          BY <2>2, <5>1, PrependFacts
        <5>3. next[Len(next)] = Await
          BY <1>0, <1>1, <2>1, <4>1, <5>1, LastEffect
        <5> HIDE DEF next
        <5>4. NoCommit(next) => NoCommit(Tail(todo[u]))
          BY <5>2, Commitless DEF NoCommit
        <5> QED
          BY <5>2, <5>3, <5>4 DEF next
      <4>3. /\ todo'[u] # <<>> /\ todo'[u][Len(todo'[u])] = Await
            /\ NoCommit(todo'[u]) => NoCommit(Tail(todo[u]))
        BY <3>5, <4>1, <4>2
      <4>4. NoCommit(todo'[u]) => NoCommit(todo[u])
        BY <1>0, <1>1, <3>5, <4>3, Commitless DEF NoCommit
      <4> QED
        BY <1>2, <2>1, <4>3, <4>4
    <3> QED
      BY <1>0, <2>4, <3>2, <3>3, <3>4, <3>5, PerformKinds
  <2> QED
    BY <2>3, <2>4
<1> QED
  BY <1>1, <1>3, <1>4 DEF CancelUser, NoCommit, CommitsIn, Ending, Terminal, Failed, States, Parked,
                          Await

(* A user is at the second section of a cancel only after the first one's *)
(* Await.                                                                 *)
LEMMA UserStepCancels ==
  ASSUME OwnedInv, CancelInv, [Next]_vars, NEW u \in Users, UserRuns(u) \/ UserIssues(u)
  PROVE  CancelUser(u)'
<1> USE DEF OwnedInv
<1>0. CancelUser(u) /\ u \in Actors /\ OnError(u) = "idle"
  BY ActorsAssumption DEF CancelInv, Actors, OnError
<1>1. todo[u] = <<>> /\ UNCHANGED state /\ NoCommit(<<>>)
  BY UserFootprint, NothingToCommit DEF NoCommit
<1>2. ASSUME pc'[u] # "finalize", CommitsIn(todo'[u], States \ {"cancelled"}) PROVE CancelUser(u)'
  BY <1>2 DEF CancelUser, CommitsIn, States, Parked, Terminal, Failed
<1>3. CASE UNCHANGED <<serial, todo, outdated>> /\ pc'[u] \in {"idle", "cancel_ok"}
  BY <1>1, <1>2, <1>3, NothingToCommit
<1>4. ASSUME NEW j \in Jobs, NEW decision, NEW ok, on'[u] = j, Apply(u, j, decision, ok),
             \/ pc[u] = "idle" /\ ok = "idle" /\ CommitsIn(decision.effects, {"queued"})
             \/ pc[u] = "idle" /\ ok = "finalize" /\ decision = DecideCancel(state[j])
             \/ pc[u] = "finalize" /\ ok = "cancel_ok" /\ on[u] = j
                /\ decision = DecideFinalizeCancel(state[j])
      PROVE  CancelUser(u)'
  <2>1. /\ todo'[u] = decision.effects
        /\ pc'[u] = IF decision.outcome \in Refusals THEN "idle" ELSE ok
        /\ state[j] \in States
    BY <1>0, <1>4, ApplyFootprint DEF TypeInv, TypeOK
  <2>2. CASE ok = "idle" /\ CommitsIn(decision.effects, {"queued"})
    <3>1. CommitsIn(todo'[u], States \ {"cancelled"})
      BY <2>1, <2>2 DEF CommitsIn, States, Parked
    <3> QED
      BY <1>2, <2>1, <2>2, <3>1
  <2>3. CASE ok = "finalize" /\ decision = DecideCancel(state[j])
    <3>1. CommitsIn(todo'[u], States \ {"cancelled"})
      <4>1. CommitsIn(todo'[u], {"cancelling"})
        BY <2>1, <2>3, CancelPlan
      <4> QED
        BY <4>1 DEF CommitsIn, States
    <3>2. CASE state[j] \in Terminal
      <4>1. pc'[u] = "idle"
        BY <2>1, <2>3, <3>2, CancelPlan
      <4> QED
        BY <1>2, <3>1, <4>1
    <3>3. CASE state[j] \notin Terminal
      <4>1. /\ todo'[u] # <<>> /\ todo'[u][Len(todo'[u])] = Await
            /\ NoCommit(todo'[u]) => state[j] \in Ending
        BY <2>1, <2>3, <3>3, CancelPlan
      <4> QED
        BY <1>1, <1>4, <3>1, <4>1 DEF CancelUser, NoCommit, CommitsIn, States, Parked, Terminal,
                                     Failed, Ending, Await
    <3> QED
      BY <3>2, <3>3
  <2>4. CASE pc[u] = "finalize" /\ ok = "cancel_ok" /\ on[u] = j
    <3>1. Closed(on[u]) /\ state[j] \in Ending
      BY <1>0, <1>1, <2>4 DEF CancelUser
    <3>2. state'[j] \in Ending /\ Closed(j)'
      BY <2>4, <3>1, EndingStays
    <3>3. pc'[u] # "finalize"
      BY <2>1, <2>4
    <3> QED
      BY <1>4, <3>2, <3>3 DEF CancelUser, Closed, Busy, Ending, Terminal, Failed
  <2> QED
    BY <1>4, <2>2, <2>3, <2>4
<1> QED
  BY <1>3, <1>4, UserFootprint

(* One step of the system keeps what cancellation relies on. *)
LEMMA CancelStep == OwnedInv /\ CancelInv /\ [Next]_vars => CancelInv'
<1> SUFFICES ASSUME OwnedInv, CancelInv, [Next]_vars PROVE CancelInv'
  OBVIOUS
<1>1. \A j \in Jobs : state'[j] = "cancelled" => Closed(j)'
  BY CancelledClosed
<1>2. ASSUME NEW u \in Users PROVE CancelUser(u)'
  <2> USE DEF OwnedInv
  <2>0. u \in Actors /\ u \notin Workers /\ u # Dispatcher
    BY ActorsAssumption DEF Actors
  <2>1. ASSUME NEW a \in Actors, Perform(a) \/ Fails(a) PROVE CancelUser(u)'
    <3>1. CASE a = u
      BY <2>1, <3>1, PerformCancels
    <3>2. CASE a # u
      <4>1. todo'[u] = todo[u] /\ pc'[u] = pc[u] /\ on'[u] = on[u]
        BY <2>0, <2>1, <3>2, PerformFacts
      <4> QED
        BY <4>1, OtherUserCancels
    <3> QED
      BY <3>1, <3>2
  <2>2. ASSUME NEW a \in Actors, Observe(a) PROVE CancelUser(u)'
    <3>1. a # u
      BY <2>2, ObserveFootprint DEF AuthorInv, UserAuthor
    <3>2. todo'[u] = todo[u] /\ pc'[u] = pc[u] /\ on'[u] = on[u]
      BY <2>0, <2>2, <3>1, ObserveFootprint
    <3> QED
      BY <3>2, OtherUserCancels
  <2>3. ASSUME NEW w \in Workers, WorkerRuns(w) \/ WorkerBreaks(w) PROVE CancelUser(u)'
    <3>1. todo'[u] = todo[u] /\ pc'[u] = pc[u] /\ on'[u] = on[u]
      BY <2>0, <2>3, WorkerFootprint, ReportFootprint
    <3> QED
      BY <3>1, OtherUserCancels
  <2>4. ASSUME DispatcherRuns PROVE CancelUser(u)'
    <3>1. todo'[u] = todo[u] /\ pc'[u] = pc[u] /\ on'[u] = on[u]
      BY <2>0, <2>4, DispatcherFootprint
    <3> QED
      BY <3>1, OtherUserCancels
  <2>5. ASSUME NEW v \in Users, UserRuns(v) \/ UserIssues(v) PROVE CancelUser(u)'
    <3>1. CASE v = u
      BY <2>5, <3>1, UserStepCancels
    <3>2. CASE v # u
      <4>1. todo'[u] = todo[u] /\ pc'[u] = pc[u] /\ on'[u] = on[u]
        BY <2>0, <2>5, <3>2, UserFootprint
      <4> QED
        BY <4>1, OtherUserCancels
    <3> QED
      BY <3>1, <3>2
  <2>6. ASSUME UNCHANGED vars \/ \E d \in Devices : DeviceChanges(d) PROVE CancelUser(u)'
    <3>1. todo'[u] = todo[u] /\ pc'[u] = pc[u] /\ on'[u] = on[u]
      BY <2>6 DEF vars, localVars, DeviceChanges
    <3> QED
      BY <3>1, OtherUserCancels
  <2> QED
    BY <2>1, <2>2, <2>3, <2>4, <2>5, <2>6 DEF Next, Quiescent
<1> QED
  BY <1>1, <1>2 DEF CancelInv

(* The whole inductive invariant holds in every reachable state. *)
LEMMA OutcomeInvariant == Spec => []OutcomeInv
<1>1. Init => CancelInv
  BY NothingToCommit DEF Init, CancelInv, CancelUser, Closed, Busy, Actors
<1> QED
  BY <1>1, CancelStep, OutcomeOwned, PTL DEF Spec, OutcomeInv

(* cancel(), wait_for_inactive and finalize_cancel: cancelled is never     *)
(* committed while a worker still has a file of the job open, however the  *)
(* command and the worker's own report of the interruption interleave.     *)
THEOREM CancelledJobsAreClosed == Spec => []CancelledIsClosed
<1>1. OutcomeInv => CancelledIsClosed
  BY DEF OutcomeInv, CancelInv, Closed, Busy, CancelledIsClosed, Writing
<1> QED
  BY <1>1, OutcomeInvariant, PTL

=============================================================================
