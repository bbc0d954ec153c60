--------------------------- MODULE Multipart_proofs ---------------------------
(***************************************************************************)
(* Proofs about Multipart, for every number of attempts, content objects   *)
(* and parts, and every number of failing calls, cancellations and crashes. *)
(***************************************************************************)
EXTENDS Multipart, TLAPS

-----------------------------------------------------------------------------
(* The inductive invariant.                                                *)

(* The object store has dropped the upload, or a receipt proves its object. *)
Settled(h) ==
  \/ remote[h] = "aborted"
  \/ remote[h] = "completed" /\ h[2] \in receipt[h[1]]

(* An object the worker has left behind. *)
Finished(j, o) ==
  remote[<<j, o>>] = "completed" /\ o \in receipt[j] /\ row[<<j, o>>] = "none"
AllFinished(j) == \A o \in Objects : Finished(j, o)

Publishing == {"marker", "readback", "admission", "done"}

(* A worker goes through its objects in order: those before are finished,   *)
(* those after have never had a row, and where it is says what is known of  *)
(* the one it is at.                                                        *)
InOrder(j) ==
  LET w == worker[j] IN
  /\ state[j] = "absent" => w = Gone /\ \A o \in Objects : <<j, o>> \notin tracked
  /\ w.pc # "gone" =>
       \A o \in Objects : /\ o < w.object => Finished(j, o)
                          /\ o > w.object => <<j, o>> \notin tracked
AtObject(j) ==
  LET pc == worker[j].pc IN
  /\ pc \in {"initiate", "track"} => Handle(j) \notin tracked
  /\ pc = "untracked" => worker[j].object \notin receipt[j]
  /\ pc \in {"part", "complete", "stage", "finish"} => Handle(j) \in tracked
  /\ pc \in {"stage", "finish"} => remote[Handle(j)] = "completed"
  /\ pc = "finish" => worker[j].object \in receipt[j]
  /\ pc = "retire" => Settled(Handle(j))
  /\ pc \in Publishing => AllFinished(j)

(* What the rows and the receipts say of an upload. *)
RowInv(h) ==
  /\ h \in tracked /\ row[h] = "none" => Settled(h)
  /\ row[h] # "none" => h \in tracked
  /\ h[2] \in receipt[h[1]] => remote[h] = "completed" /\ h \in tracked

(* The cleanup thread and a dismissal deal with attempts that are over. *)
OverInv(h) ==
  /\ h \in orphans => worker[h[1]].pc = "gone" /\ state[h[1]] \in Ended
  /\ h[1] \in dismissed => worker[h[1]].pc = "gone" /\ row[h] = "none"

(* Whoever wrote the marker does not go back to an object. *)
MarkerInv ==
  marker => \E j \in Jobs : /\ AllFinished(j) /\ state[j] # "absent"
                            /\ worker[j].pc \in Publishing \cup {"failed", "gone"}

UploadInv ==
  /\ TypeOK /\ MarkerInv
  /\ \A j \in Jobs : InOrder(j) /\ AtObject(j)
  /\ \A h \in Handles : RowInv(h) /\ OverInv(h)

-----------------------------------------------------------------------------
(* Types.                                                                  *)

Workers == [pc : Steps, object : Objects, part : 1 .. Parts]
Limits == [faults : Nat, cancels : Nat, crashes : Nat]

(* The position of a worker that is not running has its type. *)
LEMMA GoneType == Gone \in Workers
BY MultipartAssumption DEF Gone, Workers, Steps, Objects

(* The handle a worker is at has its type. *)
LEMMA HandleType ==
  ASSUME TypeOK, NEW j \in Jobs
  PROVE  Handle(j) \in Handles /\ worker[j] \in Workers /\ worker[j].object \in Objects
BY DEF TypeOK, Handle, Handles, Workers

(* A worker that goes to another step keeps its type. *)
LEMMA GotoType ==
  ASSUME TypeOK, NEW j \in Jobs, NEW pc \in Steps, Goto(j, pc)
  PROVE  worker' \in [Jobs -> Workers]
BY DEF TypeOK, Goto, Workers

(* The position of a worker, replaced as a whole. *)
LEMMA PutType ==
  ASSUME TypeOK, NEW j \in Jobs, NEW w \in Workers, worker' = [worker EXCEPT ![j] = w]
  PROVE  worker' \in [Jobs -> Workers]
BY DEF TypeOK, Workers

(* Spending from a budget keeps its type. *)
LEMMA SpendType ==
  ASSUME TypeOK, NEW what \in {"faults", "cancels", "crashes"}, Spend(what)
  PROVE  budget' \in Limits
<1>1. budget \in Limits /\ budget[what] \in Nat /\ budget[what] > 0
  BY DEF TypeOK, Limits, Spend
<1>2. budget[what] - 1 \in Nat
  BY <1>1
<1> QED
  BY <1>1, <1>2 DEF Spend, Limits

(* What a worker writes: its own position, its own handle, its own receipts, *)
(* the outcome of its job.                                                   *)
LEMMA WorkWrites ==
  ASSUME TypeOK, NEW j \in Jobs, Work(j) \/ Failing(j)
  PROVE  /\ UNCHANGED <<dismissed, flagged, cancel, orphans>>
         /\ budget' = budget \/ Fault
         /\ \/ UNCHANGED remote
            \/ \E v \in {"none", "open", "completed", "aborted"} : remote' = [remote EXCEPT ![Handle(j)] = v]
         /\ \/ UNCHANGED row
            \/ \E v \in {"none", "running", "aborting"} : row' = [row EXCEPT ![Handle(j)] = v]
         /\ \/ UNCHANGED receipt
            \/ \E o \in {worker[j].object, Marker, Admission} : receipt' = Staged(j, o)
         /\ UNCHANGED state \/ Finish(j)
         /\ marker' \in BOOLEAN /\ admission' \in BOOLEAN
         /\ tracked' \in {tracked, tracked \cup {Handle(j)}}
         /\ \/ \E pc \in Steps : Goto(j, pc)
            \/ SendPart(j) \/ SendPartFails(j) \/ FinishObject(j) \/ Finish(j)
<1> USE DEF Work, Failing, Initiate, Track, AbortUntracked, SendPart, Complete, StageReceipt,
            FinishObject, MarkAborting, AbortRemote, RetireRow, PutMarker, StageMarker, AwaitAdmission,
            Finish, InitiateFails, TrackFails, SendPartFails, CompleteFails, StageFails, FinishFails,
            store, durable, Either
<1>0. Handle(j) \in Handles
  BY HandleType
<1>1. UNCHANGED <<dismissed, flagged, cancel, orphans>> /\ (UNCHANGED state \/ Finish(j))
  OBVIOUS
<1>2. budget' = budget \/ Fault
  OBVIOUS
<1>3. \/ UNCHANGED remote
      \/ \E v \in {"none", "open", "completed", "aborted"} : remote' = [remote EXCEPT ![Handle(j)] = v]
  BY <1>0 DEF TypeOK, Aborted
<1>4. \/ UNCHANGED row
      \/ \E v \in {"none", "running", "aborting"} : row' = [row EXCEPT ![Handle(j)] = v]
  BY DEF Retired
<1>5. \/ UNCHANGED receipt
      \/ \E o \in {worker[j].object, Marker, Admission} : receipt' = Staged(j, o)
  OBVIOUS
<1>6. marker' \in BOOLEAN /\ admission' \in BOOLEAN
  BY DEF TypeOK
<1>7. tracked' \in {tracked, tracked \cup {Handle(j)}}
  OBVIOUS
<1>8. \/ \E pc \in Steps : Goto(j, pc)
      \/ SendPart(j) \/ SendPartFails(j) \/ FinishObject(j) \/ Finish(j)
  BY DEF Steps
<1> QED
  BY <1>1, <1>2, <1>3, <1>4, <1>5, <1>6, <1>7, <1>8

(* Where a worker goes. *)
LEMMA WorkMoves ==
  ASSUME TypeOK, NEW j \in Jobs, Work(j) \/ Failing(j)
  PROVE  \E w \in Workers :
           /\ worker' = [worker EXCEPT ![j] = w]
           /\ w.object = worker[j].object \/ FinishObject(j) \/ w = Gone
<1>0. worker[j] \in Workers /\ worker[j].object \in Objects /\ 1 \in 1 .. Parts
  BY HandleType, MultipartAssumption
<1>1. ASSUME NEW pc \in Steps, NEW part \in 1 .. Parts
      PROVE  /\ [worker[j] EXCEPT !.pc = pc, !.part = part] \in Workers
             /\ [worker[j] EXCEPT !.pc = pc, !.part = part].object = worker[j].object
             /\ [worker[j] EXCEPT !.pc = pc] \in Workers
             /\ [worker[j] EXCEPT !.pc = pc].object = worker[j].object
             /\ [worker[j] EXCEPT !.part = part] \in Workers
             /\ [worker[j] EXCEPT !.part = part].object = worker[j].object
  BY <1>0 DEF Workers
<1>2. CASE \E pc \in Steps : Goto(j, pc)
  <2>1. PICK pc \in Steps : Goto(j, pc)
    BY <1>2
  <2>2. worker' = [worker EXCEPT ![j] = [worker[j] EXCEPT !.pc = pc]]
    BY <2>1 DEF Goto, TypeOK
  <2> QED
    BY <2>2, <1>0, <1>1
<1>3. CASE SendPart(j) /\ ~ \E pc \in Steps : Goto(j, pc)
  <2>0. "abort" \in Steps /\ "complete" \in Steps
    BY DEF Steps
  <2>1. CASE worker' = [worker EXCEPT ![j].part = @ + 1] /\ worker[j].part < Parts
    <3>1. worker[j].part + 1 \in 1 .. Parts
      BY <1>0, <2>1, MultipartAssumption DEF Workers
    <3>2. worker' = [worker EXCEPT ![j] = [worker[j] EXCEPT !.part = worker[j].part + 1]]
      BY <2>1 DEF TypeOK
    <3> QED
      BY <3>1, <3>2, <2>0, <1>1
  <2>2. CASE worker' = [worker EXCEPT ![j].pc = "complete", ![j].part = 1]
    <3> DEFINE w == [worker[j] EXCEPT !.pc = "complete", !.part = 1]
    <3>1. worker' = [worker EXCEPT ![j] = w]
      BY <2>2 DEF TypeOK
    <3>2. w \in Workers /\ w.object = worker[j].object
      BY <2>0, <1>0, <1>1
    <3> HIDE DEF w
    <3> QED
      BY <3>1, <3>2
  <2> QED
    BY <1>3, <2>0, <2>1, <2>2 DEF SendPart
<1>4. CASE SendPartFails(j)
  <2> DEFINE w == [worker[j] EXCEPT !.pc = "abort", !.part = 1]
  <2>1. worker' = [worker EXCEPT ![j] = w] /\ "abort" \in Steps
    BY <1>4 DEF SendPartFails, TypeOK, Steps
  <2>2. w \in Workers /\ w.object = worker[j].object
    BY <2>1, <1>0, <1>1
  <2> HIDE DEF w
  <2> QED
    BY <2>1, <2>2
<1>5. CASE FinishObject(j)
  <2> DEFINE w == IF worker[j].object < Contents
                  THEN [pc |-> "initiate", object |-> worker[j].object + 1, part |-> 1]
                  ELSE [worker[j] EXCEPT !.pc = "marker"]
  <2>1. w \in Workers
    BY <1>0, MultipartAssumption DEF Workers, Steps, Objects
  <2> QED
    BY <1>5, <2>1 DEF FinishObject
<1>6. CASE Finish(j)
  BY <1>6, GoneType DEF Finish
<1> QED
  BY <1>2, <1>3, <1>4, <1>5, <1>6, WorkWrites

(* The steps of a worker keep the types. *)
LEMMA WorkTypes ==
  ASSUME TypeOK, NEW j \in Jobs, Work(j) \/ Failing(j)
  PROVE  TypeOK'
<1>0. Handle(j) \in Handles /\ worker[j].object \in Objects
  BY HandleType
<1>1. budget' \in Limits
  BY WorkWrites, SpendType DEF Fault, TypeOK, Limits
<1>2. worker' \in [Jobs -> Workers]
  BY WorkMoves, PutType
<1>3. remote' \in [Handles -> {"none", "open", "completed", "aborted"}]
  BY <1>0, WorkWrites DEF TypeOK
<1>4. row' \in [Handles -> {"none", "running", "aborting"}]
  BY <1>0, WorkWrites DEF TypeOK
<1>5. receipt' \in [Jobs -> SUBSET (1 .. Contents + 2)]
  <2>1. {worker[j].object, Marker, Admission} \subseteq 1 .. Contents + 2
    BY <1>0, MultipartAssumption DEF Objects, Marker, Admission
  <2>2. ASSUME NEW o \in 1 .. Contents + 2, receipt' = Staged(j, o)
        PROVE  receipt' \in [Jobs -> SUBSET (1 .. Contents + 2)]
    BY <2>2 DEF TypeOK, Staged
  <2>3. CASE UNCHANGED receipt
    BY <2>3 DEF TypeOK
  <2> QED
    BY <2>1, <2>2, <2>3, WorkWrites
<1>6. state' \in [Jobs -> {"absent", "open"} \cup Ended] /\ dismissed' \subseteq {i \in Jobs : state'[i] \in Ended}
  <2>1. CASE UNCHANGED state
    BY <2>1, WorkWrites DEF TypeOK
  <2>2. CASE Finish(j)
    BY <2>2 DEF Finish, TypeOK, Ended
  <2> QED
    BY <2>1, <2>2, WorkWrites
<1>7. /\ marker' \in BOOLEAN /\ admission' \in BOOLEAN /\ flagged' \subseteq Jobs
      /\ cancel' \in [Jobs -> {"none", "commit", "mark"}]
      /\ orphans' \subseteq Handles /\ tracked' \subseteq Handles
  BY <1>0, WorkWrites DEF TypeOK
<1> QED
  BY <1>1, <1>2, <1>3, <1>4, <1>5, <1>6, <1>7 DEF TypeOK, Workers, Limits

(* The other steps keep them too. *)
LEMMA TypeStep ==
  ASSUME TypeOK, [Next]_vars
  PROVE  TypeOK'
<1>1. ASSUME NEW j \in Jobs,
             Start(j) \/ RequestCancel(j) \/ CommitCancel(j) \/ MarkRows(j) \/ Dismiss(j)
      PROVE  TypeOK'
  <2>1. CASE Start(j)
    <3>1. worker' \in [Jobs -> Workers]
      BY <2>1, GotoType DEF Start, Steps
    <3> QED
      BY <2>1, <3>1 DEF Start, TypeOK, store, Workers, Ended
  <2>2. CASE RequestCancel(j)
    BY <2>2, SpendType DEF RequestCancel, TypeOK, store, durable, Limits
  <2>3. CASE CommitCancel(j)
    BY <2>3 DEF CommitCancel, TypeOK, store, Ended
  <2>4. CASE MarkRows(j)
    BY <2>4 DEF MarkRows, TypeOK, store
  <2>5. CASE Dismiss(j)
    BY <2>5 DEF Dismiss, TypeOK, store
  <2> QED
    BY <1>1, <2>1, <2>2, <2>3, <2>4, <2>5
<1>2. CASE Admit
  BY <1>2 DEF Admit, TypeOK, durable
<1>3. CASE Restart
  <2>1. budget' \in Limits /\ worker' \in [Jobs -> Workers]
    BY <1>3, SpendType, GoneType DEF Restart
  <2> QED
    BY <1>3, <2>1 DEF Restart, TypeOK, store, Limits, Workers, Ended
<1>4. ASSUME NEW h \in Handles, AbortOrphan(h) PROVE TypeOK'
  <2>1. budget' \in Limits
    BY <1>4, SpendType DEF AbortOrphan, Fault, TypeOK, Limits
  <2> QED
    BY <1>4, <2>1 DEF AbortOrphan, TypeOK, Retired, Aborted, Either, Limits
<1>5. CASE CleanupGivesUp
  BY <1>5, SpendType DEF CleanupGivesUp, Fault, TypeOK, store, durable, Limits
<1>6. CASE UNCHANGED vars
  BY <1>6 DEF vars, TypeOK
<1> QED
  BY <1>1, <1>2, <1>3, <1>4, <1>5, <1>6, WorkTypes DEF Next, Cleanup

-----------------------------------------------------------------------------
(* A worker leaves the other uploads alone.                                *)

(* Only a running worker works or fails. *)
LEMMA WorkerRuns ==
  ASSUME NEW j \in Jobs, Work(j) \/ Failing(j)
  PROVE  worker[j].pc # "gone"
BY DEF At, Work, Failing, Initiate, Track, AbortUntracked, SendPart, Complete, StageReceipt,
       FinishObject, MarkAborting, AbortRemote, RetireRow, PutMarker, StageMarker, AwaitAdmission,
       Finish, InitiateFails, TrackFails, SendPartFails, CompleteFails, StageFails, FinishFails

(* Outside the handle of its worker and the receipt for the object it is at,  *)
(* everything is as it was.                                                   *)
LEMMA OwnHandleOnly ==
  ASSUME TypeOK, NEW j \in Jobs, Work(j) \/ Failing(j)
  PROVE  /\ \A h \in Handles \ {Handle(j)} :
              remote'[h] = remote[h] /\ row'[h] = row[h] /\ (h \in tracked' <=> h \in tracked)
         /\ \A i \in Jobs \ {j} :
              worker'[i] = worker[i] /\ state'[i] = state[i] /\ receipt'[i] = receipt[i]
         /\ \A o \in Objects \ {worker[j].object} : o \in receipt'[j] <=> o \in receipt[j]
<1>1. \A h \in Handles \ {Handle(j)} : remote'[h] = remote[h] /\ row'[h] = row[h]
  BY WorkWrites DEF TypeOK
<1>2. \A h \in Handles \ {Handle(j)} : h \in tracked' <=> h \in tracked
  BY WorkWrites
<1>3. \A i \in Jobs \ {j} : worker'[i] = worker[i]
  BY WorkMoves DEF TypeOK
<1>4. \A i \in Jobs \ {j} : state'[i] = state[i]
  BY WorkWrites DEF TypeOK, Finish
<1>5. \A i \in Jobs \ {j} : receipt'[i] = receipt[i]
  BY WorkWrites DEF TypeOK, Staged
<1>6. \A o \in Objects \ {worker[j].object} : o \in receipt'[j] <=> o \in receipt[j]
  <2>1. Marker \notin Objects /\ Admission \notin Objects
    BY MultipartAssumption DEF Objects, Marker, Admission
  <2> QED
    BY <2>1, WorkWrites DEF TypeOK, Staged
<1> QED
  BY <1>1, <1>2, <1>3, <1>4, <1>5, <1>6

(* A worker's step leaves what is known of other jobs and other handles *)
(* true.                                                                *)
LEMMA WorkKeepsOthers ==
  ASSUME UploadInv, NEW j \in Jobs, Work(j) \/ Failing(j)
  PROVE  /\ \A i \in Jobs \ {j} : (InOrder(i) /\ AtObject(i))' /\ (AllFinished(i) => AllFinished(i)')
         /\ \A h \in Handles \ {Handle(j)} : RowInv(h)'
         /\ \A h \in Handles : OverInv(h)'
<1> USE DEF UploadInv
<1>1. ASSUME NEW i \in Jobs \ {j}, NEW o \in Objects
      PROVE  /\ <<i, o>> \in Handles \ {Handle(j)}
             /\ Finished(i, o)' <=> Finished(i, o)
             /\ <<i, o>> \in tracked' <=> <<i, o>> \in tracked
  <2>1. <<i, o>> \in Handles \ {Handle(j)}
    BY DEF Handles, Handle
  <2> QED
    BY <2>1, OwnHandleOnly DEF Finished
<1>2. ASSUME NEW i \in Jobs \ {j} PROVE AllFinished(i)' <=> AllFinished(i)
  BY <1>1, <1>2 DEF AllFinished
<1>3. ASSUME NEW i \in Jobs \ {j} PROVE InOrder(i)'
  BY <1>1, <1>3, OwnHandleOnly DEF InOrder
<1>4. ASSUME NEW i \in Jobs \ {j} PROVE AtObject(i)'
  <2>1. /\ worker'[i] = worker[i] /\ receipt'[i] = receipt[i] /\ Handle(i)' = Handle(i)
        /\ Handle(i) \in Handles \ {Handle(j)}
    BY <1>4, <1>1, HandleType, OwnHandleOnly DEF Handle
  <2>2. Handle(i)[1] = i /\ Handle(i)[2] = worker[i].object
    BY DEF Handle
  <2>3. /\ remote'[Handle(i)] = remote[Handle(i)] /\ (Handle(i) \in tracked' <=> Handle(i) \in tracked)
        /\ Settled(Handle(i))' <=> Settled(Handle(i))
    BY <2>1, <2>2, OwnHandleOnly DEF Settled
  <2> QED
    BY <2>1, <2>3, <1>2, <1>4 DEF AtObject
<1>5. ASSUME NEW h \in Handles \ {Handle(j)} PROVE RowInv(h)'
  <2>1. h = <<h[1], h[2]>> /\ h[1] \in Jobs /\ h[2] \in Objects
    BY DEF Handles
  <2>2. h[2] \in receipt'[h[1]] <=> h[2] \in receipt[h[1]]
    <3>1. CASE h[1] = j
      <4>1. h[2] \in Objects \ {worker[j].object}
        BY <2>1, <3>1, <1>5 DEF Handle
      <4> QED
        BY <3>1, <4>1, OwnHandleOnly
    <3>2. CASE h[1] # j
      BY <2>1, <3>2, OwnHandleOnly
    <3> QED
      BY <3>1, <3>2
  <2> QED
    BY <2>2, <1>5, OwnHandleOnly DEF RowInv, Settled
<1>6. ASSUME NEW h \in Handles PROVE OverInv(h)'
  <2>1. h[1] \in Jobs
    BY DEF Handles
  <2>2. CASE h[1] = j
    BY <2>2, WorkerRuns, WorkWrites DEF OverInv
  <2>3. CASE h[1] # j
    <3>1. h \in Handles \ {Handle(j)} /\ h[1] \in Jobs \ {j}
      BY <1>6, <2>1, <2>3 DEF Handle
    <3>2. UNCHANGED <<dismissed, orphans>>
      BY WorkWrites
    <3>3. worker'[h[1]] = worker[h[1]] /\ state'[h[1]] = state[h[1]] /\ row'[h] = row[h]
      BY <3>1, OwnHandleOnly
    <3>4. OverInv(h)
      BY <1>6
    <3> QED
      BY <3>2, <3>3, <3>4 DEF OverInv
  <2> QED
    BY <2>2, <2>3
<1> QED
  BY <1>2, <1>3, <1>4, <1>5, <1>6

(* While it stays at an object, the objects before and after it are as they  *)
(* were.                                                                     *)
LEMMA StaysInOrder ==
  ASSUME UploadInv, NEW j \in Jobs, Work(j) \/ Failing(j), ~FinishObject(j)
  PROVE  InOrder(j)' /\ state[j] # "absent"
<1> USE DEF UploadInv
<1>1. state[j] # "absent"
  BY WorkerRuns DEF InOrder, Gone
<1>2. state'[j] # "absent"
  BY <1>1, WorkWrites DEF Finish, TypeOK
<1>3. PICK w \in Workers : worker' = [worker EXCEPT ![j] = w] /\ (w.object = worker[j].object \/ w = Gone)
  BY WorkMoves
<1>4. worker'[j] = w
  BY <1>3 DEF TypeOK
<1>5. ASSUME NEW o \in Objects, o # worker[j].object
      PROVE  (Finished(j, o)' <=> Finished(j, o)) /\ (<<j, o>> \in tracked' <=> <<j, o>> \in tracked)
  <2>1. <<j, o>> \in Handles \ {Handle(j)}
    BY <1>5 DEF Handles, Handle
  <2> QED
    BY <1>5, <2>1, OwnHandleOnly DEF Finished
<1>6. worker[j].pc # "gone"
  BY WorkerRuns
<1> QED
  BY <1>1, <1>2, <1>3, <1>4, <1>5, <1>6 DEF InOrder, Gone, Objects, Workers

(* Before the marker, nobody relies on what a worker has done. *)
LEMMA MarkerStays ==
  ASSUME UploadInv, NEW j \in Jobs, Work(j) \/ Failing(j), UNCHANGED marker,
         worker[j].pc \notin Publishing \cup {"failed"}
  PROVE  MarkerInv'
<1> SUFFICES ASSUME marker PROVE MarkerInv'
  BY DEF MarkerInv
<1>1. PICK i \in Jobs : /\ AllFinished(i) /\ state[i] # "absent"
                        /\ worker[i].pc \in Publishing \cup {"failed", "gone"}
  BY DEF UploadInv, MarkerInv
<1>2. i # j
  BY <1>1, WorkerRuns
<1>3. AllFinished(i)' /\ worker'[i] = worker[i] /\ state'[i] = state[i]
  BY <1>1, <1>2, WorkKeepsOthers, OwnHandleOnly DEF UploadInv
<1> QED
  BY <1>1, <1>3 DEF MarkerInv

(* What is left to show of a step at an object. *)
LEMMA AtObjectStep ==
  ASSUME UploadInv, NEW j \in Jobs, Work(j) \/ Failing(j), ~FinishObject(j), UNCHANGED marker,
         worker[j].pc \notin Publishing \cup {"failed"}, AtObject(j)',
         NEW h \in Handles, h = Handle(j), RowInv(h)'
  PROVE  UploadInv'
<1>1. TypeOK' /\ MarkerInv'
  BY WorkTypes, MarkerStays DEF UploadInv
<1>2. \A i \in Jobs : (InOrder(i) /\ AtObject(i))'
  BY WorkKeepsOthers, StaysInOrder
<1>3. \A g \in Handles : (RowInv(g) /\ OverInv(g))'
  BY WorkKeepsOthers
<1> QED
  BY <1>1, <1>2, <1>3 DEF UploadInv

-----------------------------------------------------------------------------
(* The steps of a worker.                                                  *)

(* Where a step ends, if it stays at its object. *)
LEMMA Lands ==
  ASSUME TypeOK, NEW j \in Jobs, NEW pc, Goto(j, pc)
  PROVE  worker'[j].pc = pc /\ worker'[j].object = worker[j].object /\ Handle(j)' = Handle(j)
<1>1. worker[j] \in Workers
  BY HandleType
<1> QED
  BY <1>1 DEF TypeOK, Goto, Handle, Workers

(* Every step of a worker keeps the invariant. *)
LEMMA WorkKeepsUploads ==
  ASSUME UploadInv, NEW j \in Jobs, Work(j)
  PROVE  UploadInv'
<1> DEFINE h == Handle(j)
<1>0. /\ TypeOK /\ h \in Handles /\ h[1] = j /\ h[2] = worker[j].object
      /\ RowInv(h) /\ AtObject(j) /\ worker[j].object \in Objects
  BY HandleType DEF UploadInv, Handle
<1>a. ASSUME NEW pc, Goto(j, pc) PROVE worker'[j].pc = pc /\ worker'[j].object = worker[j].object /\ Handle(j)' = h
  BY <1>0, <1>a, Lands
<1>b. ASSUME NEW g \in Handles, g = h, RowInv(g)', AtObject(j)', UNCHANGED marker, ~FinishObject(j),
             worker[j].pc \notin Publishing \cup {"failed"}
      PROVE  UploadInv'
  BY <1>b, AtObjectStep
<1> DEFINE Kept == \A g \in Handles : g = h => RowInv(g)'
<1> USE DEF Publishing
<1>1. CASE Initiate(j)
  <2>1. h \notin tracked
    BY <1>0, <1>1 DEF Initiate, At, AtObject
  <2>2. row[h] = "none" /\ h[2] \notin receipt[j]
    BY <1>0, <2>1 DEF RowInv
  <2>3. Kept
    BY <1>0, <1>1, <2>1, <2>2 DEF Initiate, durable, RowInv
  <2>4. AtObject(j)'
    BY <1>1, <1>a, <2>1 DEF Initiate, durable, AtObject
  <2> QED
    BY <1>1, <1>0, <2>3, <2>4, <1>b DEF Initiate, At, FinishObject
<1>2. CASE Track(j)
  <2>1. h \notin tracked /\ h[2] \notin receipt[j]
    BY <1>0, <1>2 DEF Track, At, AtObject, RowInv
  <2>2. Kept
    BY <1>0, <1>2, <2>1 DEF Track, store, RowInv, TypeOK, Settled
  <2>3. AtObject(j)'
    BY <1>0, <1>2, <1>a, <2>1 DEF Track, store, AtObject
  <2> QED
    BY <1>2, <1>0, <2>2, <2>3, <1>b DEF Track, At, FinishObject, store
<1>3. CASE AbortUntracked(j)
  <2>1. h[2] \notin receipt[j]
    BY <1>0, <1>3 DEF AbortUntracked, At, AtObject
  <2>2. Kept
    BY <1>0, <1>3, <2>1 DEF AbortUntracked, Aborted, Either, durable, RowInv, TypeOK, Settled
  <2>3. AtObject(j)'
    BY <1>3, <1>a DEF AbortUntracked, AtObject
  <2> QED
    BY <1>3, <1>0, <2>2, <2>3, <1>b DEF AbortUntracked, At, FinishObject
<1>4. CASE SendPart(j)
  <2>1. worker'[j].pc \in {"part", "complete", "abort"} /\ worker'[j].object = worker[j].object
    <3>1. worker[j] \in Workers
      BY <1>0, HandleType
    <3> QED
      BY <1>4, <1>0, <3>1 DEF SendPart, At, Goto, TypeOK, Workers
  <2>2. Kept
    BY <1>0, <1>4 DEF SendPart, store, durable, RowInv, Settled
  <2>3. AtObject(j)'
    BY <1>0, <1>4, <2>1 DEF SendPart, At, Handle, store, durable, AtObject
  <2> QED
    BY <1>4, <1>0, <2>2, <2>3, <1>b DEF SendPart, At, FinishObject, store
<1>5. CASE Complete(j)
  <2>1. h \in tracked
    BY <1>0, <1>5 DEF Complete, At, AtObject
  <2>2. Kept
    BY <1>0, <1>5, <2>1 DEF Complete, durable, RowInv, TypeOK, Settled
  <2>3. AtObject(j)'
    BY <1>0, <1>5, <1>a, <2>1 DEF Complete, durable, AtObject, TypeOK
  <2> QED
    BY <1>5, <1>0, <2>2, <2>3, <1>b DEF Complete, At, FinishObject
<1>6. CASE StageReceipt(j)
  <2>1. h \in tracked /\ remote[h] = "completed"
    BY <1>0, <1>6 DEF StageReceipt, At, AtObject
  <2>2. h[2] \in receipt'[j]
    BY <1>0, <1>6 DEF StageReceipt, Staged, TypeOK
  <2>3. Kept
    BY <1>0, <1>6, <2>1, <2>2 DEF StageReceipt, store, RowInv, Settled
  <2>4. AtObject(j)'
    BY <1>0, <1>6, <1>a, <2>1, <2>2 DEF StageReceipt, store, AtObject
  <2> QED
    BY <1>6, <1>0, <2>3, <2>4, <1>b DEF StageReceipt, At, FinishObject, store
<1>7. CASE FinishObject(j)
  <2>1. remote[h] = "completed" /\ h \in tracked /\ h[2] \in receipt[j] /\ worker[j].pc = "finish"
    BY <1>0, <1>7 DEF FinishObject, At, AtObject
  <2>2. UNCHANGED <<remote, receipt, tracked, marker, state>> /\ row' = [row EXCEPT ![h] = "none"]
    BY <1>7 DEF FinishObject, store, Retired
  <2>3. Kept
    BY <1>0, <2>1, <2>2 DEF RowInv, Settled, TypeOK
  <2>4. ASSUME NEW o \in Objects, o <= worker[j].object PROVE Finished(j, o)'
    <3>1. <<j, o>> \in Handles /\ h = <<j, worker[j].object>>
      BY DEF Handles, Handle
    <3>2. CASE o = worker[j].object
      BY <3>1, <3>2, <2>1, <2>2, <1>0 DEF Finished, TypeOK
    <3>3. CASE o < worker[j].object
      <4>1. Finished(j, o)
        BY <3>3, <2>1 DEF UploadInv, InOrder
      <4> QED
        BY <4>1, <3>1, <2>2, <1>0 DEF Finished, TypeOK
    <3> QED
      BY <2>4, <3>2, <3>3, <1>0 DEF Objects
  <2>5. ASSUME NEW o \in Objects, o > worker[j].object PROVE <<j, o>> \notin tracked
    BY <2>5, <2>1 DEF UploadInv, InOrder
  <2>6. state[j] # "absent" /\ worker[j] \in Workers
    BY <1>0, <2>1, HandleType DEF UploadInv, InOrder, Gone
  <2>7. InOrder(j)' /\ AtObject(j)'
    <3>1. CASE worker[j].object < Contents
      <4>1. worker'[j] = [pc |-> "initiate", object |-> worker[j].object + 1, part |-> 1]
        BY <1>7, <1>0, <3>1 DEF FinishObject, TypeOK
      <4>2. worker[j].object + 1 \in Objects /\ worker[j].object + 1 > worker[j].object
        BY <1>0, <3>1, MultipartAssumption DEF Objects
      <4>3. Handle(j)' \notin tracked'
        BY <4>1, <4>2, <2>2, <2>5 DEF Handle
      <4>4. InOrder(j)'
        <5>1. ASSUME NEW o \in Objects
              PROVE  (o < worker[j].object + 1 => Finished(j, o)') /\ (o > worker[j].object + 1 => <<j, o>> \notin tracked')
          BY <2>2, <2>4, <2>5, <1>0 DEF Objects
        <5> QED
          BY <4>1, <5>1, <2>2, <2>6 DEF InOrder
      <4> QED
        BY <4>1, <4>3, <4>4 DEF AtObject
    <3>2. CASE ~(worker[j].object < Contents)
      <4>1. worker'[j] = [worker[j] EXCEPT !.pc = "marker"]
        BY <1>7, <1>0, <3>2 DEF FinishObject, TypeOK
      <4>2. worker'[j].pc = "marker" /\ worker'[j].object = worker[j].object
        BY <4>1, <2>6 DEF Workers
      <4>3. \A o \in Objects : o <= worker[j].object
        BY <1>0, <3>2, MultipartAssumption DEF Objects
      <4>4. AllFinished(j)'
        BY <4>3, <2>4 DEF AllFinished
      <4>5. InOrder(j)'
        BY <4>2, <4>3, <2>2, <2>4, <2>5, <2>6, <1>0 DEF InOrder, Objects
      <4> QED
        BY <4>2, <4>4, <4>5 DEF AtObject
    <3> QED
      BY <3>1, <3>2
  <2>8. TypeOK' /\ MarkerInv'
    BY <2>1, <2>2, <1>0, WorkTypes, MarkerStays
  <2>9. \A i \in Jobs : (InOrder(i) /\ AtObject(i))'
    BY <2>7, WorkKeepsOthers
  <2>10. \A g \in Handles : (RowInv(g) /\ OverInv(g))'
    BY <2>3, WorkKeepsOthers
  <2> QED
    BY <2>8, <2>9, <2>10 DEF UploadInv
<1>8. CASE MarkAborting(j)
  <2>1. row'[h] = "none" <=> row[h] = "none"
    BY <1>0, <1>8 DEF MarkAborting, Either, TypeOK
  <2>2. Kept
    BY <1>0, <1>8, <2>1 DEF MarkAborting, store, RowInv, Settled
  <2>3. AtObject(j)'
    BY <1>8, <1>a DEF MarkAborting, AtObject
  <2> QED
    BY <1>8, <1>0, <2>2, <2>3, <1>b DEF MarkAborting, At, FinishObject, store
<1>9. CASE AbortRemote(j)
  <2>0. UNCHANGED <<marker, row, receipt, tracked>> /\ worker[j].pc = "abort_remote"
    BY <1>9 DEF AbortRemote, durable, At
  <2>1. \/ UNCHANGED remote
        \/ remote[h] = "open" /\ remote' = [remote EXCEPT ![h] = "aborted"]
    BY <1>9 DEF AbortRemote, Aborted, Either
  <2>2. Kept
    BY <1>0, <2>0, <2>1 DEF RowInv, Settled, TypeOK
  <2>3. worker'[j].pc \in {"retire", "failed"} /\ Handle(j)' = h
    BY <1>9, <1>a DEF AbortRemote
  <2>4. worker'[j].pc = "retire" => remote'[h] = "aborted" \/ Accounted(h)
    BY <1>0, <1>9, <1>a DEF AbortRemote, Aborted, TypeOK
  <2>5. Accounted(h) => remote[h] = "completed" /\ h[2] \in receipt[j]
    BY <1>0 DEF Accounted, RowInv
  <2>6. worker'[j].pc = "retire" => Settled(Handle(j))'
    BY <2>0, <2>1, <2>3, <2>4, <2>5, <1>0 DEF Settled, TypeOK
  <2>7. AtObject(j)'
    BY <2>3, <2>6 DEF AtObject
  <2> QED
    BY <1>0, <2>0, <2>2, <2>7, <1>b DEF FinishObject, At
<1>10. CASE RetireRow(j)
  <2>1. Settled(h)
    BY <1>0, <1>10 DEF RetireRow, At, AtObject
  <2>2. Kept
    BY <1>0, <1>10, <2>1 DEF RetireRow, Retired, Either, store, RowInv, Settled, TypeOK
  <2>3. AtObject(j)'
    BY <1>10, <1>a DEF RetireRow, AtObject
  <2> QED
    BY <1>10, <1>0, <2>2, <2>3, <1>b DEF RetireRow, At, FinishObject, store
<1>11. CASE PutMarker(j) \/ StageMarker(j) \/ AwaitAdmission(j) \/ Finish(j)
  <2>0. /\ UNCHANGED <<remote, row, tracked, dismissed, orphans>>
        /\ worker[j].pc \in Publishing \cup {"failed"} /\ ~FinishObject(j)
    BY <1>11 DEF PutMarker, StageMarker, AwaitAdmission, Finish, store, durable, At, FinishObject
  <2>1. \A o \in Objects : o \in receipt'[j] <=> o \in receipt[j]
    <3>1. Marker \notin Objects /\ Admission \notin Objects
      BY MultipartAssumption DEF Objects, Marker, Admission
    <3>2. UNCHANGED receipt \/ \E o \in {Marker, Admission} : receipt' = Staged(j, o)
      BY <1>11 DEF PutMarker, StageMarker, AwaitAdmission, Finish, durable, Either
    <3> QED
      BY <1>0, <3>1, <3>2 DEF Staged, TypeOK
  <2>2. Kept
    BY <1>0, <2>0, <2>1 DEF RowInv, Settled
  <2>3. AllFinished(j)' <=> AllFinished(j)
    BY <2>0, <2>1 DEF AllFinished, Finished
  <2>4. worker[j].pc # "failed" => AllFinished(j)
    BY <1>0, <2>0 DEF AtObject
  <2>5. /\ worker'[j].pc \in Publishing \cup {"failed", "gone"}
        /\ worker'[j].pc \in Publishing => worker[j].pc \in Publishing
    <3>1. CASE Finish(j)
      BY <1>0, <3>1 DEF Finish, Gone, TypeOK
    <3>2. CASE PutMarker(j) \/ StageMarker(j) \/ AwaitAdmission(j)
      <4>1. \/ Goto(j, "failed")
            \/ worker[j].pc \in Publishing /\ \E pc \in Publishing : Goto(j, pc)
        BY <3>2 DEF PutMarker, StageMarker, AwaitAdmission, At
      <4> QED
        BY <4>1, <1>a
    <3> QED
      BY <1>11, <3>1, <3>2
  <2>6. AtObject(j)'
    BY <2>3, <2>4, <2>5 DEF AtObject
  <2>7. InOrder(j)' /\ state[j] # "absent"
    BY <2>0, StaysInOrder
  <2>8. state'[j] # "absent"
    BY <2>7, <1>0, WorkWrites DEF Finish, TypeOK
  <2>9. MarkerInv'
    <3>1. CASE AllFinished(j)
      BY <3>1, <2>3, <2>5, <2>8 DEF MarkerInv
    <3>2. CASE ~AllFinished(j)
      <4>1. worker[j].pc = "failed" /\ UNCHANGED marker
        BY <3>2, <2>0, <2>4, <1>11 DEF PutMarker, StageMarker, AwaitAdmission, Finish, store, At
      <4> SUFFICES ASSUME marker PROVE MarkerInv'
        BY <4>1 DEF MarkerInv
      <4>2. PICK i \in Jobs : /\ AllFinished(i) /\ state[i] # "absent"
                              /\ worker[i].pc \in Publishing \cup {"failed", "gone"}
        BY DEF UploadInv, MarkerInv
      <4>3. AllFinished(i)' /\ worker'[i] = worker[i] /\ state'[i] = state[i]
        BY <1>0, <3>2, <4>2, WorkKeepsOthers, OwnHandleOnly
      <4> QED
        BY <4>2, <4>3 DEF MarkerInv
    <3> QED
      BY <3>1, <3>2
  <2>10. \A i \in Jobs : (InOrder(i) /\ AtObject(i))'
    BY <2>6, <2>7, WorkKeepsOthers
  <2>11. \A g \in Handles : (RowInv(g) /\ OverInv(g))'
    BY <2>2, WorkKeepsOthers
  <2> QED
    BY <2>9, <2>10, <2>11, <1>0, WorkTypes DEF UploadInv
<1> QED
  BY <1>1, <1>2, <1>3, <1>4, <1>5, <1>6, <1>7, <1>8, <1>9, <1>10, <1>11 DEF Work

(* The calls that fail. *)
LEMMA FailingKeepsUploads ==
  ASSUME UploadInv, NEW j \in Jobs, Failing(j)
  PROVE  UploadInv'
<1> DEFINE h == Handle(j)
<1>0. /\ TypeOK /\ h \in Handles /\ h[1] = j /\ h[2] = worker[j].object
      /\ RowInv(h) /\ AtObject(j) /\ worker[j].object \in Objects
  BY HandleType DEF UploadInv, Handle
<1>a. ASSUME NEW pc, Goto(j, pc) PROVE worker'[j].pc = pc /\ worker'[j].object = worker[j].object /\ Handle(j)' = h
  BY <1>0, <1>a, Lands
<1>b. ASSUME NEW g \in Handles, g = h, RowInv(g)', AtObject(j)', UNCHANGED marker, ~FinishObject(j),
             worker[j].pc \notin Publishing \cup {"failed"}
      PROVE  UploadInv'
  BY <1>b, AtObjectStep
<1>c. worker'[j].pc \in {"abort", "failed"} => AtObject(j)'
  BY DEF AtObject, Publishing
<1> DEFINE Kept == \A g \in Handles : g = h => RowInv(g)'
<1> USE DEF Publishing
<1>1. CASE InitiateFails(j)
  <2>1. h \notin tracked /\ row[h] = "none" /\ h[2] \notin receipt[j]
    BY <1>0, <1>1 DEF InitiateFails, At, AtObject, RowInv
  <2>2. Kept
    BY <1>0, <1>1, <2>1 DEF InitiateFails, durable, RowInv
  <2> QED
    BY <1>1, <1>0, <1>a, <1>c, <2>2, <1>b DEF InitiateFails, At, FinishObject
<1>2. CASE TrackFails(j)
  <2>1. h \notin tracked /\ h[2] \notin receipt[j]
    BY <1>0, <1>2 DEF TrackFails, At, AtObject, RowInv
  <2>2. \/ UNCHANGED <<row, tracked>>
        \/ row' = [row EXCEPT ![h] = "running"] /\ tracked' = tracked \cup {h}
    BY <1>2 DEF TrackFails
  <2>3. Kept
    BY <1>0, <1>2, <2>1, <2>2 DEF TrackFails, store, RowInv, TypeOK
  <2>4. AtObject(j)'
    BY <1>0, <1>2, <1>a, <2>1 DEF TrackFails, AtObject
  <2> QED
    BY <1>2, <1>0, <2>3, <2>4, <1>b DEF TrackFails, At, FinishObject, store
<1>3. CASE SendPartFails(j)
  <2>1. worker'[j].pc = "abort"
    <3>1. worker[j] \in Workers
      BY <1>0, HandleType
    <3> QED
      BY <1>0, <1>3, <3>1 DEF SendPartFails, TypeOK, Workers
  <2>2. Kept
    BY <1>0, <1>3 DEF SendPartFails, store, durable, RowInv, Settled
  <2> QED
    BY <1>3, <1>0, <2>1, <2>2, <1>c, <1>b DEF SendPartFails, At, FinishObject, store
<1>4. CASE CompleteFails(j)
  <2>1. h \in tracked
    BY <1>0, <1>4 DEF CompleteFails, At, AtObject
  <2>2. UNCHANGED remote \/ (remote[h] = "open" /\ remote' = [remote EXCEPT ![h] = "completed"])
    <3>0. remote' = remote \/ remote' = [remote EXCEPT ![h] = IF remote[h] = "open" THEN "completed" ELSE remote[h]]
      BY <1>4, Zenon DEF CompleteFails, Either
    <3>1. CASE remote[h] = "open"
      BY <3>0, <3>1
    <3>2. CASE remote[h] # "open"
      <4>1. [remote EXCEPT ![h] = remote[h]] = remote
        BY <1>0 DEF TypeOK
      <4> QED
        BY <3>0, <3>2, <4>1
    <3> QED
      BY <3>1, <3>2
  <2>3. Kept
    BY <1>0, <1>4, <2>1, <2>2 DEF CompleteFails, durable, RowInv, Settled, TypeOK
  <2> QED
    BY <1>4, <1>0, <1>a, <1>c, <2>3, <1>b DEF CompleteFails, At, FinishObject
<1>5. CASE StageFails(j)
  <2>1. h \in tracked /\ remote[h] = "completed"
    BY <1>0, <1>5 DEF StageFails, At, AtObject
  <2>2. h[2] \in receipt[j] => h[2] \in receipt'[j]
    BY <1>0, <1>5 DEF StageFails, Either, Staged, TypeOK
  <2>3. Kept
    BY <1>0, <1>5, <2>1, <2>2 DEF StageFails, store, RowInv, Settled
  <2> QED
    BY <1>5, <1>0, <1>a, <1>c, <2>3, <1>b DEF StageFails, At, FinishObject, store
<1>6. CASE FinishFails(j)
  <2>1. remote[h] = "completed" /\ h \in tracked /\ h[2] \in receipt[j]
    BY <1>0, <1>6 DEF FinishFails, At, AtObject
  <2>2. Kept
    BY <1>0, <1>6, <2>1 DEF FinishFails, Either, Retired, store, RowInv, Settled, TypeOK
  <2>3. worker'[j].pc = "abort"
    BY <1>6, <1>a DEF FinishFails
  <2>4. worker[j].pc = "finish" /\ UNCHANGED marker /\ ~FinishObject(j)
    <3>1. FinishObject(j) => worker'[j].pc # "abort"
      BY <1>0, HandleType DEF FinishObject, TypeOK, Workers
    <3> QED
      BY <1>6, <2>3, <3>1 DEF FinishFails, At, store
  <2> QED
    BY <1>0, <1>c, <2>2, <2>3, <2>4, <1>b
<1> QED
  BY <1>1, <1>2, <1>3, <1>4, <1>5, <1>6 DEF Failing

-----------------------------------------------------------------------------
(* The steps of the others.                                                *)

(* A step that leaves the uploads and the workers alone. *)
LEMMA UploadsUntouched ==
  ASSUME UploadInv, TypeOK', UNCHANGED <<remote, row, receipt, tracked, worker, orphans, dismissed, marker>>,
         \A j \in Jobs : /\ state[j] \in Ended => state'[j] \in Ended
                         /\ state'[j] = "absent" <=> state[j] = "absent"
  PROVE  UploadInv'
<1>1. \A j \in Jobs : (InOrder(j) /\ AtObject(j))'
  BY DEF UploadInv, InOrder, AtObject, Finished, AllFinished, Settled, Handle
<1>2. \A h \in Handles : (RowInv(h) /\ OverInv(h))'
  <2>1. \A h \in Handles : h[1] \in Jobs
    BY DEF Handles
  <2> QED
    BY <2>1 DEF UploadInv, RowInv, OverInv, Settled
<1>3. MarkerInv'
  BY DEF UploadInv, MarkerInv, AllFinished, Finished
<1> QED
  BY <1>1, <1>2, <1>3 DEF UploadInv

(* So do the start of a job, its cancellation and its dismissal. *)
LEMMA JobKeepsUploads ==
  ASSUME UploadInv, NEW j \in Jobs,
         Start(j) \/ RequestCancel(j) \/ CommitCancel(j) \/ MarkRows(j) \/ Dismiss(j)
  PROVE  UploadInv'
<1>0. TypeOK /\ TypeOK'
  BY TypeStep DEF UploadInv, Next
<1>1. CASE Start(j)
  <2>0. /\ UNCHANGED <<remote, row, receipt, tracked, orphans, dismissed, marker>>
        /\ state[j] = "absent" /\ state' = [state EXCEPT ![j] = "open"]
    BY <1>1 DEF Start, store
  <2>1. worker[j] = Gone /\ \A o \in Objects : <<j, o>> \notin tracked
    BY <2>0 DEF UploadInv, InOrder
  <2>2. worker' = [worker EXCEPT ![j] = [Gone EXCEPT !.pc = "initiate"]]
    BY <1>1, <2>1, <1>0 DEF Start, Goto, TypeOK
  <2>3. worker'[j].pc = "initiate" /\ worker'[j].object = 1 /\ 1 \in Objects
    BY <2>2, <1>0, MultipartAssumption DEF Gone, TypeOK, Objects
  <2>4. InOrder(j)' /\ AtObject(j)'
    <3>1. InOrder(j)'
      BY <1>0, <2>0, <2>1, <2>3 DEF InOrder, Objects, TypeOK
    <3> QED
      BY <3>1, <2>0, <2>1, <2>3 DEF AtObject, Handle, Publishing
  <2>5. ASSUME NEW i \in Jobs, i # j PROVE (InOrder(i) /\ AtObject(i))'
    <3>1. worker'[i] = worker[i] /\ state'[i] = state[i] /\ InOrder(i) /\ AtObject(i)
      BY <1>0, <2>0, <2>2, <2>5 DEF TypeOK, UploadInv
    <3> QED
      BY <3>1, <2>0 DEF InOrder, AtObject, Finished, AllFinished, Settled, Handle
  <2>6. ASSUME NEW h \in Handles PROVE (RowInv(h) /\ OverInv(h))'
    <3>1. RowInv(h) /\ OverInv(h) /\ h[1] \in Jobs
      BY <2>6 DEF UploadInv, Handles
    <3>2. RowInv(h)'
      BY <3>1, <2>0 DEF RowInv, Settled
    <3>3. CASE h[1] = j
      <4>1. h \notin orphans /\ j \notin dismissed
        BY <1>0, <3>1, <3>3, <2>0 DEF OverInv, TypeOK, Ended
      <4> QED
        BY <3>2, <4>1, <3>3, <2>0 DEF OverInv
    <3>4. CASE h[1] # j
      <4>1. worker'[h[1]] = worker[h[1]] /\ state'[h[1]] = state[h[1]]
        BY <1>0, <3>1, <3>4, <2>0, <2>2 DEF TypeOK
      <4> QED
        BY <3>1, <3>2, <4>1, <2>0 DEF OverInv
    <3> QED
      BY <3>2, <3>3, <3>4
  <2>7. MarkerInv'
    <3> SUFFICES ASSUME marker PROVE MarkerInv'
      BY <2>0 DEF MarkerInv
    <3>1. PICK i \in Jobs : /\ AllFinished(i) /\ state[i] # "absent"
                            /\ worker[i].pc \in Publishing \cup {"failed", "gone"}
      BY DEF UploadInv, MarkerInv
    <3>2. worker'[i] = worker[i] /\ state'[i] = state[i] /\ AllFinished(i)'
      BY <3>1, <1>0, <2>0, <2>2 DEF TypeOK, AllFinished, Finished
    <3> QED
      BY <3>1, <3>2 DEF MarkerInv
  <2> QED
    BY <1>0, <2>4, <2>5, <2>6, <2>7 DEF UploadInv
<1>2. CASE RequestCancel(j)
  BY <1>0, <1>2, UploadsUntouched DEF RequestCancel, store, durable
<1>3. CASE CommitCancel(j)
  <2>1. \A i \in Jobs : /\ state[i] \in Ended => state'[i] \in Ended
                        /\ state'[i] = "absent" <=> state[i] = "absent"
    BY <1>0, <1>3 DEF CommitCancel, TypeOK, Ended
  <2> QED
    BY <1>0, <1>3, <2>1, UploadsUntouched DEF CommitCancel, store
<1>4. CASE MarkRows(j)
  <2>0. UNCHANGED <<remote, receipt, tracked, worker, state, orphans, dismissed, marker>>
    BY <1>4 DEF MarkRows, store
  <2>1. \A h \in Handles : row'[h] = "none" <=> row[h] = "none"
    BY <1>4 DEF MarkRows, Rows
  <2>2. ASSUME NEW i \in Jobs, NEW o \in Objects PROVE Finished(i, o)' <=> Finished(i, o)
    BY <2>0, <2>1 DEF Finished, Handles
  <2>3. \A i \in Jobs : (InOrder(i) /\ AtObject(i))'
    BY <2>0, <2>2 DEF UploadInv, InOrder, AtObject, AllFinished, Settled, Handle
  <2>4. \A h \in Handles : (RowInv(h) /\ OverInv(h))'
    BY <2>0, <2>1 DEF UploadInv, RowInv, OverInv, Settled
  <2>5. MarkerInv'
    BY <2>0, <2>2 DEF UploadInv, MarkerInv, AllFinished
  <2> QED
    BY <1>0, <2>3, <2>4, <2>5 DEF UploadInv
<1>5. CASE Dismiss(j)
  <2>0. UNCHANGED <<remote, row, receipt, tracked, worker, state, orphans, marker>>
    BY <1>5 DEF Dismiss, store
  <2>1. ASSUME NEW h \in Handles PROVE (RowInv(h) /\ OverInv(h))'
    <3>1. RowInv(h) /\ OverInv(h)
      BY <2>1 DEF UploadInv
    <3>2. h[1] = j => row[h] = "none" /\ worker[j].pc = "gone"
      BY <1>5 DEF Dismiss, Rows, At
    <3> QED
      BY <1>5, <2>0, <3>1, <3>2 DEF Dismiss, RowInv, OverInv, Settled
  <2>2. \A i \in Jobs : (InOrder(i) /\ AtObject(i))'
    BY <2>0 DEF UploadInv, InOrder, AtObject, Finished, AllFinished, Settled, Handle
  <2>3. MarkerInv'
    BY <2>0 DEF UploadInv, MarkerInv, AllFinished, Finished
  <2> QED
    BY <1>0, <2>1, <2>2, <2>3 DEF UploadInv
<1> QED
  BY <1>1, <1>2, <1>3, <1>4, <1>5

(* A crash: only what is durable counts from here on. *)
LEMMA RestartKeepsUploads ==
  ASSUME UploadInv, Restart
  PROVE  UploadInv'
<1>0. TypeOK /\ TypeOK'
  BY TypeStep DEF UploadInv, Next
<1>1. UNCHANGED <<remote, receipt, tracked, dismissed, marker>> /\ \A j \in Jobs : worker'[j] = Gone
  BY DEF Restart, store
<1>2. \A h \in Handles : row'[h] = "none" <=> row[h] = "none"
  BY DEF Restart
<1>3. \A j \in Jobs : /\ state'[j] = "absent" <=> state[j] = "absent"
                      /\ state'[j] # "absent" => state'[j] \in Ended
  BY <1>0 DEF Restart, TypeOK, Ended
<1>4. \A j \in Jobs : (InOrder(j) /\ AtObject(j))'
  BY <1>1, <1>3 DEF UploadInv, InOrder, AtObject, Gone, Publishing
<1>5. ASSUME NEW h \in Handles PROVE (RowInv(h) /\ OverInv(h))'
  <2>1. RowInv(h) /\ OverInv(h) /\ h[1] \in Jobs /\ h[2] \in Objects /\ h = <<h[1], h[2]>>
    BY <1>5 DEF UploadInv, Handles
  <2>2. h \in orphans' => state'[h[1]] \in Ended
    <3> SUFFICES ASSUME h \in orphans' PROVE state[h[1]] # "absent"
      BY <1>3, <2>1
    <3>1. h \in tracked
      BY <2>1 DEF Restart, RowInv
    <3> QED
      BY <3>1, <2>1 DEF UploadInv, InOrder
  <2> QED
    BY <1>1, <1>2, <2>1, <2>2 DEF RowInv, OverInv, Settled, Gone
<1>6. MarkerInv'
  <2>1. ASSUME NEW i \in Jobs, AllFinished(i) PROVE AllFinished(i)'
    BY <2>1, <1>1, <1>2 DEF AllFinished, Finished, Handles
  <2> QED
    BY <1>1, <1>3, <2>1 DEF UploadInv, MarkerInv, Gone
<1> QED
  BY <1>0, <1>4, <1>5, <1>6 DEF UploadInv

(* The cleanup thread, one row. *)
LEMMA OrphanKeepsUploads ==
  ASSUME UploadInv, NEW h \in Handles, AbortOrphan(h)
  PROVE  UploadInv'
<1>0. TypeOK /\ TypeOK'
  BY TypeStep DEF UploadInv, Next, Cleanup
<1>1. /\ UNCHANGED <<marker, receipt, state, dismissed, worker, tracked>> /\ orphans' = orphans \ {h}
      /\ RowInv(h) /\ OverInv(h) /\ h \in orphans
      /\ h[1] \in Jobs /\ h[2] \in Objects /\ h = <<h[1], h[2]>>
  BY DEF AbortOrphan, ToAbort, UploadInv, Handles
<1>2. worker[h[1]].pc = "gone"
  BY <1>1 DEF OverInv
<1>3. \/ UNCHANGED remote
      \/ remote[h] = "open" /\ remote' = [remote EXCEPT ![h] = "aborted"]
  BY DEF AbortOrphan, Aborted, Either
<1>4. \/ UNCHANGED row
      \/ row' = [row EXCEPT ![h] = "none"] /\ (remote'[h] = "aborted" \/ Accounted(h))
  BY <1>0 DEF AbortOrphan, Aborted, Retired, TypeOK
<1>5. \A g \in Handles \ {h} : remote'[g] = remote[g] /\ row'[g] = row[g]
  BY <1>0, <1>3, <1>4 DEF TypeOK
<1>6. RowInv(h)' /\ OverInv(h)'
  BY <1>0, <1>1, <1>3, <1>4 DEF RowInv, OverInv, Settled, Accounted, TypeOK
<1>7. \A g \in Handles : (RowInv(g) /\ OverInv(g))'
  <2>1. ASSUME NEW g \in Handles \ {h} PROVE (RowInv(g) /\ OverInv(g))'
    BY <2>1, <1>1, <1>5 DEF UploadInv, RowInv, OverInv, Settled
  <2> QED
    BY <2>1, <1>6
<1>8. ASSUME NEW i \in Jobs, NEW o \in Objects, Finished(i, o) PROVE Finished(i, o)'
  <2>1. <<i, o>> \in Handles
    BY DEF Handles
  <2> QED
    BY <1>0, <1>1, <1>3, <1>4, <1>8, <2>1 DEF Finished, TypeOK
<1>9. ASSUME NEW i \in Jobs PROVE (InOrder(i) /\ AtObject(i))'
  <2>1. InOrder(i) /\ AtObject(i)
    BY <1>9 DEF UploadInv
  <2>2. InOrder(i)'
    BY <2>1, <1>1, <1>8 DEF InOrder
  <2>3. CASE i = h[1]
    BY <2>2, <2>3, <1>1, <1>2 DEF AtObject, Publishing
  <2>4. CASE i # h[1]
    <3>1. Handle(i) \in Handles \ {h} /\ Handle(i)' = Handle(i)
      BY <2>4, <1>0, <1>1, HandleType DEF Handle
    <3>2. /\ remote'[Handle(i)] = remote[Handle(i)]
          /\ Settled(Handle(i))' <=> Settled(Handle(i))
      BY <3>1, <1>1, <1>5 DEF Settled
    <3> QED
      BY <2>1, <2>2, <3>1, <3>2, <1>1, <1>8 DEF AtObject, AllFinished
  <2> QED
    BY <2>3, <2>4
<1>10. MarkerInv'
  BY <1>1, <1>8 DEF UploadInv, MarkerInv, AllFinished
<1> QED
  BY <1>0, <1>7, <1>9, <1>10 DEF UploadInv

(* The invariant holds at the start. *)
LEMMA InitUploads == Init => UploadInv
<1> SUFFICES ASSUME Init PROVE UploadInv
  OBVIOUS
<1>1. TypeOK
  BY GoneType, MultipartAssumption DEF Init, TypeOK, Workers, Ended
<1>2. \A j \in Jobs : InOrder(j) /\ AtObject(j)
  BY DEF Init, InOrder, AtObject, Gone, Publishing
<1>3. \A h \in Handles : RowInv(h) /\ OverInv(h)
  BY DEF Init, RowInv, OverInv, Handles
<1> QED
  BY <1>1, <1>2, <1>3 DEF Init, UploadInv, MarkerInv

(* The invariant holds in every reachable state. *)
LEMMA UploadInvariant == Spec => []UploadInv
<1>1. UploadInv /\ [Next]_vars => UploadInv'
  <2> SUFFICES ASSUME UploadInv, [Next]_vars PROVE UploadInv'
    OBVIOUS
  <2>0. TypeOK'
    BY TypeStep DEF UploadInv
  <2>1. CASE UNCHANGED vars
    BY <2>0, <2>1, UploadsUntouched DEF vars
  <2>2. CASE Admit \/ CleanupGivesUp
    <3>1. CASE Admit
      BY <2>0, <3>1, UploadsUntouched DEF Admit, durable
    <3>2. CASE CleanupGivesUp
      <4>1. /\ UNCHANGED <<remote, row, receipt, tracked, worker, dismissed, marker, state>>
            /\ orphans' = {}
        BY <3>2 DEF CleanupGivesUp, store, durable
      <4>2. \A h \in Handles : (RowInv(h) /\ OverInv(h))'
        BY <4>1 DEF UploadInv, RowInv, OverInv, Settled
      <4>3. \A i \in Jobs : (InOrder(i) /\ AtObject(i))'
        BY <4>1 DEF UploadInv, InOrder, AtObject, Finished, AllFinished, Settled, Handle
      <4>4. MarkerInv'
        BY <4>1 DEF UploadInv, MarkerInv, AllFinished, Finished
      <4> QED
        BY <2>0, <4>2, <4>3, <4>4 DEF UploadInv
    <3> QED
      BY <2>2, <3>1, <3>2
  <2> QED
    BY <2>1, <2>2, WorkKeepsUploads, FailingKeepsUploads, JobKeepsUploads, RestartKeepsUploads,
       OrphanKeepsUploads DEF Next, Cleanup
<1> QED
  BY <1>1, InitUploads, PTL DEF Spec

-----------------------------------------------------------------------------
(* The theorems.                                                           *)

(* Every variable keeps its type, whatever fails. *)
THEOREM TypeCorrect == Spec => []TypeOK
<1>1. UploadInv => TypeOK
  BY DEF UploadInv
<1> QED
  BY <1>1, UploadInvariant, PTL

(* upload_store.rs: through any number of failing calls, lost answers,      *)
(* cancellations and crashes, a tracked multipart upload loses its row, or  *)
(* its job is dismissed, only when it is accounted for.                     *)
THEOREM RowsAccountForUploads == Spec => []RetiredIsAccounted
<1>1. UploadInv => RetiredIsAccounted
  <2> SUFFICES ASSUME UploadInv, NEW h \in tracked, row[h] = "none" \/ h[1] \in dismissed
               PROVE  Settled(h)
    BY DEF RetiredIsAccounted, Settled
  <2>1. h \in Handles
    BY DEF UploadInv, TypeOK
  <2> QED
    BY <2>1 DEF UploadInv, RowInv, OverInv
<1> QED
  BY <1>1, UploadInvariant, PTL

(* perform_upload: when the marker is there, one attempt has every content  *)
(* object complete, verified and off its rows.                              *)
THEOREM MarkerComesLast == Spec => []MarkerLast
<1>1. UploadInv => MarkerLast
  BY DEF UploadInv, MarkerInv, MarkerLast, AllFinished, Finished
<1> QED
  BY <1>1, UploadInvariant, PTL

(* claim_orphan_uploads: the cleanup of a start, which runs beside new      *)
(* uploads, aborts none of an open job; only its own worker does.           *)
THEOREM CleanupSparesOpenJobs == Spec => OpenJobNotAborted
<1> DEFINE Spared == \A h \in Handles : remote[h] = "open" /\ remote'[h] = "aborted" =>
               state[h[1]] # "open" \/ worker[h[1]].pc \in {"untracked", "abort_remote"}
<1>1. UploadInv /\ [Next]_vars => [Spared]_vars
  <2> SUFFICES ASSUME UploadInv, Next, NEW h \in Handles, remote[h] = "open", remote'[h] = "aborted"
               PROVE  state[h[1]] # "open" \/ worker[h[1]].pc \in {"untracked", "abort_remote"}
    OBVIOUS
  <2>0. TypeOK
    BY DEF UploadInv
  <2>1. ASSUME NEW j \in Jobs, Work(j) \/ Failing(j)
        PROVE  worker[h[1]].pc \in {"untracked", "abort_remote"}
    <3>1. h = Handle(j)
      BY <2>0, <2>1, OwnHandleOnly
    <3>2. h[1] = j
      BY <3>1 DEF Handle
    <3>3. CASE AbortUntracked(j) \/ AbortRemote(j)
      BY <3>2, <3>3 DEF AbortUntracked, AbortRemote, At
    <3>4. CASE ~(AbortUntracked(j) \/ AbortRemote(j))
      <4>1. remote' = remote \/ remote'[h] \in {"open", "completed"}
        BY <2>0, <2>1, <3>1, <3>4
           DEF TypeOK, Either, store, durable, Work, Failing, Initiate, Track, SendPart, Complete,
               StageReceipt, FinishObject, MarkAborting, RetireRow, PutMarker, StageMarker,
               AwaitAdmission, Finish, InitiateFails, TrackFails, SendPartFails, CompleteFails,
               StageFails, FinishFails
      <4> QED
        BY <4>1
    <3> QED
      BY <3>3, <3>4
  <2>2. ASSUME NEW g \in Handles, AbortOrphan(g) PROVE state[h[1]] # "open"
    <3>1. h = g
      BY <2>0, <2>2 DEF AbortOrphan, Aborted, Either, TypeOK
    <3> QED
      BY <2>2, <3>1 DEF AbortOrphan, ToAbort, UploadInv, OverInv, Ended
  <2>3. ASSUME NEW j \in Jobs, Start(j) \/ RequestCancel(j) \/ CommitCancel(j) \/ MarkRows(j) \/ Dismiss(j)
        PROVE  FALSE
    BY <2>3 DEF Start, RequestCancel, CommitCancel, MarkRows, Dismiss, store
  <2>4. CASE Admit \/ Restart \/ CleanupGivesUp
    BY <2>4 DEF Admit, Restart, CleanupGivesUp, store
  <2> QED
    BY <2>1, <2>2, <2>3, <2>4 DEF Next, Cleanup
<1> QED
  BY <1>1, UploadInvariant, PTL DEF Spec, OpenJobNotAborted
=============================================================================
