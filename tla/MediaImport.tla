----------------------------- MODULE MediaImport -----------------------------
(* Importing one recording from removable media into the local library       *)
(* (RecordingIngestExecutor and its Ubuntu runtime): the worker of the       *)
(* import lane takes the durable job through preflight, copy, verification   *)
(* and publication, while the user pauses, cancels, resumes and retries it,  *)
(* the card is pulled and another one with the same recording put in, steps  *)
(* fail, and the process dies and recovers.                                  *)
(*                                                                           *)
(* Every change of the job is a load, a decision of the reducer and a        *)
(* compare-and-swap that is repeated when another thread was faster: one     *)
(* step here. What follows it (the stop flag, the wake-up) is a later step.  *)
(* Commands do not overlap: the library root's mutex serialises them.        *)
EXTENDS Integers, Sequences

CONSTANTS
    Locators,       \* acquisitions: a card, as identified at one insertion
    SpecLocator,    \* the acquisition the job was created from
    None,           \* no acquisition, no thread
    NFiles,         \* files of the recording
    Size,           \* chunks of a file
    Budgets         \* bounds: commands, card moves, failing steps, crashes

ASSUME MediaImportAssumption ==
    /\ SpecLocator \in Locators /\ None \notin Locators \cup {"worker", "command"}
    /\ NFiles \in Nat \ {0} /\ Size \in Nat \ {0}
    /\ Budgets \subseteq [commands : SUBSET {"pause", "cancel", "resume", "retry"},
                          clicks : Nat, moves : Nat, faults : Nat, crashes : Nat]

VARIABLES
    row,        \* the durable job: its snapshot and its locator row
    disk,       \* staging and the visible tree
    worker,     \* the thread of the import lane
    command,    \* the command that is running
    stop,       \* the stop flag of JobControl
    writer,     \* the holder of its writer lock
    wake,       \* the wake queue holds the job
    errored,    \* the last run of the lane ended in an error
    up,         \* the process runs
    card,       \* the acquisition that is mounted
    source,     \* what the cards hold, and whether the recording is signed
    budget      \* what is left of the bounds

control == <<stop, writer, wake, errored>>
vars == <<row, disk, worker, command, stop, writer, wake, errored, up, card, source, budget>>

Files == 1 .. NFiles
Nothing == [f \in Files |-> <<>>]
NoFiles == [part |-> Nothing, journal |-> [f \in Files |-> 0], target |-> Nothing, published |-> Nothing]
Copied(l) == [n \in 1 .. Size |-> source.bytes[l]]

(* -------------------------------- the reducer --------------------------- *)

Runnable == {"queued", "preflighting", "copying", "verifying", "committing"}
Terminal == {"local_verified", "cancelled", "failed"}

(* resume is the resume point of waiting, pausing, paused and retry_wait. A  *)
(* digest stands for the bytes it was taken of; a file with one is verified. *)
NewRow ==
    [state |-> "queued", resume |-> "preflight", offset |-> [f \in Files |-> 0],
     digest |-> Nothing, locator |-> SpecLocator, installed |-> SpecLocator, verified |-> FALSE]

NoRow == [NewRow EXCEPT !.state = "absent"]

ResumePoint(r) ==
    IF \/ r.state \in {"copying", "verifying", "committing"}
       \/ r.state \in {"pausing", "paused", "retry_wait"} /\ r.resume = "copy"
    THEN "copy" ELSE "preflight"

(* Each operator returns the next snapshot, r itself when r rejects the      *)
(* command. installed is the locator row, which follows the active one.      *)
If(p, r, next) == IF p THEN next ELSE r

Activate(r, l, s) == [r EXCEPT !.state = s, !.locator = l, !.installed = l]

Start(r) ==
    If(r.state = "queued", r,
       Activate(r, IF r.locator = None THEN SpecLocator ELSE r.locator, "preflighting"))

ResetProgressForSource(r) ==
    If(r.state = "waiting", r,
       [r EXCEPT !.resume = "preflight", !.offset = [f \in Files |-> 0], !.digest = Nothing,
                 !.locator = None, !.verified = FALSE])

SourceAvailable(r, l) ==
    If(r.state = "waiting", r,
       Activate(r, l, IF r.resume = "copy" THEN "copying" ELSE "preflighting"))

SourceUnavailable(r) ==
    If(r.state \in {"preflighting", "copying"}, r,
       [r EXCEPT !.state = "waiting", !.resume = ResumePoint(r), !.locator = None])

PreflightPassed(r) == If(r.state = "preflighting", r, [r EXCEPT !.state = "copying"])

CopyCheckpoint(r, f, n) ==
    If(r.state = "copying" /\ r.offset[f] <= n, r, [r EXCEPT !.offset[f] = n])

CopyFinished(r) ==
    If(r.state = "copying" /\ \A f \in Files : r.offset[f] = Size, r,
       [r EXCEPT !.state = "verifying"])

FileVerified(r, f, d) ==
    If(r.state = "verifying" /\ r.offset[f] = Size, r, [r EXCEPT !.digest[f] = d])

VerificationPassed(r) ==
    If(r.state = "verifying" /\ \A f \in Files : r.digest[f] # <<>>, r,
       [r EXCEPT !.state = "committing", !.verified = TRUE])

CommitSucceeded(r) == If(r.state = "committing", r, [r EXCEPT !.state = "local_verified"])

RetryableFailure(r) ==
    If(r.state \notin Terminal, r, [r EXCEPT !.state = "retry_wait", !.resume = ResumePoint(r)])

PermanentFailure(r) == If(r.state \notin Terminal, r, [r EXCEPT !.state = "failed"])

RequestPause(r) ==
    If(r.state \notin Terminal, r, [r EXCEPT !.state = "pausing", !.resume = ResumePoint(r)])

PauseCompleted(r) == If(r.state = "pausing", r, [r EXCEPT !.state = "paused"])

Resume(r) == If(r.state = "paused", r, [r EXCEPT !.state = "queued"])

RequestCancel(r) == If(r.state \notin Terminal, r, [r EXCEPT !.state = "cancelling"])

CancellationCompleted(r) == If(r.state = "cancelling", r, [r EXCEPT !.state = "cancelled"])

Retry(r) == If(r.state = "retry_wait", r, [r EXCEPT !.state = "queued"])

(* The snapshots the store accepts through compare_and_swap. It refuses the  *)
(* terminal ones: only a verified import is completed through another call.  *)
CompareAndSwap(next) == next.state \notin {"cancelled", "failed"}

(* It lets checkpoints go back only while no verified source is recorded. *)
LegalReset(r) == ~r.verified

(* ------------------------------- the lane ------------------------------- *)

Idle ==
    [pc |-> "idle", locator |-> None, file |-> 1, hashed |-> <<>>, evidence |-> Nothing,
     effects |-> "none"]

Spend(k) == budget[k] > 0 /\ budget' = [budget EXCEPT ![k] = @ - 1]

At(pc) == up /\ worker.pc = pc
Goto(pc) == worker' = [worker EXCEPT !.pc = pc]

Released == IF writer = "worker" THEN None ELSE writer

(* A phase returns to the loop of the run and gives up the writer lock.      *)
Return ==
    /\ Goto("turn")
    /\ writer' = Released
    /\ UNCHANGED <<row, disk, stop, wake, errored>>

(* A run that ends in an error leaves the job as it stands. *)
Fail ==
    /\ worker' = Idle
    /\ writer' = Released
    /\ errored' = TRUE
    /\ UNCHANGED <<row, disk, stop, wake>>

(* The worker's change of the job, and the effects that follow it unless the *)
(* job rejected it; the writer lock is kept until they are done.             *)
Apply(next, effects) ==
    IF CompareAndSwap(next)
    THEN /\ row' = next
         /\ worker' = [worker EXCEPT !.pc = "effects",
                                     !.effects = IF next = row THEN "none" ELSE effects]
         /\ UNCHANGED <<disk, stop, writer, wake, errored>>
    ELSE Fail

Effects ==
    /\ At("effects")
    /\ stop' = (stop \/ worker.effects \in {"cancel_io", "schedule_retry"})
    /\ wake' = (wake \/ worker.effects \in {"schedule", "schedule_retry"})
    /\ worker' = [worker EXCEPT !.pc = "turn", !.effects = "none"]
    /\ writer' = Released
    /\ UNCHANGED <<row, disk, errored, command, up, card, source, budget>>

(* The lane takes the job from its queue and runs it. *)
NextJob ==
    /\ At("idle") /\ wake
    /\ wake' = FALSE
    /\ errored' = FALSE
    /\ Goto("turn")
    /\ UNCHANGED <<row, disk, stop, writer, command, up, card, source, budget>>

(* One turn of the run: the phase the job is in, on the locator it has now.  *)
Turn ==
    /\ At("turn")
    /\ \/ /\ stop \/ row.state \notin Runnable
          /\ Goto("done")
          /\ UNCHANGED <<row, disk, control>>
       \/ ~stop /\ row.state = "queued" /\ Apply(Start(row), "schedule")
       \/ /\ ~stop /\ row.state \in Runnable \ {"queued"}
          /\ worker' = [worker EXCEPT !.pc = row.state, !.locator = row.locator]
          /\ UNCHANGED <<row, disk, control>>
    /\ UNCHANGED <<command, up, card, source, budget>>

(* Mutant: the wake-up that came during the run is dropped at its end. *)
DoneDropsWake ==
    /\ At("done")
    /\ wake' = FALSE
    /\ worker' = Idle
    /\ UNCHANGED <<row, disk, stop, writer, errored, command, up, card, source, budget>>

(* The end of a run: a wake-up that came meanwhile is absorbed by another    *)
(* one, which starts without the evidence of this one.                       *)
Done ==
    /\ At("done")
    /\ wake' = FALSE
    /\ worker' = [Idle EXCEPT !.pc = IF wake THEN "turn" ELSE "idle"]
    /\ UNCHANGED <<row, disk, stop, writer, errored, command, up, card, source, budget>>

(* A phase takes the writer lock and looks again before it goes on to next.  *)
Enter(phase, next) ==
    /\ At(phase) /\ writer = None
    /\ IF \/ stop \/ row.state # phase
          \/ phase \in {"preflighting", "copying"} /\ row.locator # worker.locator
       THEN Return
       ELSE /\ next
            /\ writer' = "worker"
            /\ UNCHANGED <<row, disk, stop, wake, errored>>
    /\ UNCHANGED <<command, up, card, source, budget>>

EnterPreflight == Enter("preflighting", Goto("preflight"))
EnterCopy == Enter("copying", Goto("resolve"))
EnterVerification ==
    Enter("verifying",
          worker' = [worker EXCEPT !.pc = "verify", !.file = 1,
                                   !.evidence = [f \in Files |-> IF row.digest[f] # <<>>
                                                 THEN row.digest[f] ELSE @[f]]])
EnterCommit == Enter("committing", Goto("seal"))

(* Preflight: the space, then the card. *)
Preflight ==
    /\ At("preflight")
    /\ \/ /\ IF card = worker.locator
             THEN Apply(PreflightPassed(row), "schedule")
             ELSE Apply(SourceUnavailable(row), "cancel_io")
          /\ UNCHANGED budget
       \/ Spend("faults") /\ Apply(RetryableFailure(row), "schedule_retry")
    /\ UNCHANGED <<command, up, card, source>>

(* ------------------------------- the copy ------------------------------- *)

current == worker.file
Part == disk.part[current]
Target == disk.target[current]
NextFile(digest) ==
    worker' = [worker EXCEPT !.pc = "file", !.file = @ + 1, !.evidence[current] = digest]

(* A read of the card: stopped, gone, or go on. *)
Read(next) ==
    IF stop THEN Return
    ELSE IF card # worker.locator THEN Apply(SourceUnavailable(row), "cancel_io")
    ELSE next

Resolve ==
    /\ At("resolve")
    /\ IF card = worker.locator
       THEN /\ worker' = [worker EXCEPT !.pc = "file", !.file = 1, !.evidence = Nothing]
            /\ UNCHANGED <<row, disk, control>>
       ELSE Apply(SourceUnavailable(row), "cancel_io")
    /\ UNCHANGED <<command, up, card, source, budget>>

(* The bytes that a partial file resumes after. *)
Durable == LET n == IF disk.journal[current] <= Len(Part) THEN disk.journal[current] ELSE Len(Part)
           IN  IF row.offset[current] <= n THEN row.offset[current] ELSE n

(* Mutant: a staged target of the right size is taken as it is. *)
CopyOneFileBySize ==
    \/ Target # <<>> /\ Goto("known") /\ UNCHANGED disk
    \/ /\ Target = <<>>
       /\ disk' = [disk EXCEPT !.part[current] = SubSeq(@, 1, Durable)]
       /\ Goto("prefix")

(* The target that is already staged: one whose digest is known to be right  *)
(* counts; one that no digest vouches for is compared with the card, or goes *)
(* when the job has no progress on it; a wrong one goes.                     *)
CopyOneFile ==
    LET known == source.signed /\ Target = Copied(SpecLocator)
        compared == ~source.signed /\ Target # <<>> /\ row.offset[current] # 0
    IN  \/ known /\ Goto("known") /\ UNCHANGED disk
        \/ compared /\ Goto("rehash") /\ UNCHANGED disk
        \/ /\ ~known /\ ~compared
           /\ disk' = [disk EXCEPT !.target[current] = <<>>, !.part[current] = SubSeq(@, 1, Durable)]
           /\ Goto("prefix")

File ==
    /\ At("file")
    /\ IF current > NFiles THEN Apply(CopyFinished(row), "schedule")
       ELSE IF stop \/ row.state # "copying" THEN Return
       ELSE /\ IF row.digest[current] # <<>>
               THEN NextFile(row.digest[current]) /\ UNCHANGED disk
               ELSE CopyOneFile
            /\ UNCHANGED <<row, control>>
    /\ UNCHANGED <<command, up, card, source, budget>>

Rehash ==
    /\ At("rehash")
    /\ Read(IF Target = Copied(worker.locator)
            THEN Goto("known") /\ UNCHANGED <<row, disk, control>>
            ELSE Apply(PermanentFailure(row), "cancel_io"))
    /\ UNCHANGED <<command, up, card, source, budget>>

(* A checkpoint, and next when the job is still copying after it. *)
PersistCheckpoint(n, next) ==
    LET r == CopyCheckpoint(row, current, n)
    IN  IF stop \/ r.state # "copying"
        THEN Return
        ELSE row' = r /\ next /\ UNCHANGED <<disk, control>>

Known ==
    /\ At("known")
    /\ PersistCheckpoint(Size, NextFile(Target))
    /\ UNCHANGED <<command, up, card, source, budget>>

(* The part that is already there is hashed from the card again. *)
Prefix ==
    /\ At("prefix")
    /\ LET ready == /\ worker' = [worker EXCEPT !.pc = "chunk",
                                   !.hashed = SubSeq(Copied(worker.locator), 1, Len(Part))]
                    /\ UNCHANGED <<row, disk, control>>
       IN  IF Part = <<>> THEN ready ELSE Read(ready)
    /\ UNCHANGED <<command, up, card, source, budget>>

(* Mutant: the checkpoint is persisted before the part is flushed. *)
ChunkUnflushed ==
    /\ At("chunk")
    /\ IF Len(Part) = Size
       THEN Goto("flush") /\ UNCHANGED <<row, disk, control>>
       ELSE Read(/\ disk' = [disk EXCEPT !.part[current] = Append(@, source.bytes[card])]
                 /\ worker' = [worker EXCEPT !.pc = "checkpoint",
                                             !.hashed = Append(@, source.bytes[card])]
                 /\ UNCHANGED <<row, control>>)
    /\ UNCHANGED <<command, up, card, source, budget>>

(* A chunk is written; a write may fail. *)
Chunk ==
    /\ At("chunk")
    /\ \/ /\ IF Len(Part) = Size
             THEN Goto("flush") /\ UNCHANGED <<row, disk, control>>
             ELSE Read(/\ disk' = [disk EXCEPT !.part[current] = Append(@, source.bytes[card])]
                       /\ worker' = [worker EXCEPT !.pc = "journal",
                                                   !.hashed = Append(@, source.bytes[card])]
                       /\ UNCHANGED <<row, control>>)
          /\ UNCHANGED budget
       \/ Spend("faults") /\ Apply(RetryableFailure(row), "schedule_retry")
    /\ UNCHANGED <<command, up, card, source>>

(* The part is flushed, and the journal, which never goes back, moves up. *)
Advance(pc, after) ==
    /\ At(pc)
    /\ IF Len(Part) < disk.journal[current]
       THEN Apply(RetryableFailure(row), "schedule_retry")
       ELSE /\ disk' = [disk EXCEPT !.journal[current] = Len(Part)]
            /\ Goto(after)
            /\ UNCHANGED <<row, control>>
    /\ UNCHANGED <<command, up, card, source, budget>>

Journal == Advance("journal", "checkpoint")
Flush == Advance("flush", "full")

Checkpoint ==
    /\ At("checkpoint")
    /\ PersistCheckpoint(Len(Part), Goto("chunk"))
    /\ UNCHANGED <<command, up, card, source, budget>>

FullCheckpoint ==
    /\ At("full")
    /\ PersistCheckpoint(Size, Goto("place"))
    /\ UNCHANGED <<command, up, card, source, budget>>

(* The copy is read back and compared with what came from the card, then it  *)
(* takes the target's name. Its journal goes last.                           *)
Place ==
    /\ At("place")
    /\ IF \/ worker.hashed # Part
          \/ source.signed /\ Part # Copied(SpecLocator)
       THEN Apply(PermanentFailure(row), "cancel_io")
       ELSE IF stop THEN Return
       ELSE /\ disk' = [disk EXCEPT !.target[current] = Part, !.part[current] = <<>>]
            /\ Goto("placed")
            /\ UNCHANGED <<row, control>>
    /\ UNCHANGED <<command, up, card, source, budget>>

Placed ==
    /\ At("placed")
    /\ disk' = [disk EXCEPT !.journal[current] = 0]
    /\ NextFile(worker.hashed)
    /\ UNCHANGED <<row, control, command, up, card, source, budget>>

(* -------------------- verification and publication ---------------------- *)

(* The digests of this run's copy become durable one by one; without them    *)
(* the job waits for a retry.                                                *)
Verify ==
    /\ At("verify")
    /\ IF current > NFiles THEN Apply(VerificationPassed(row), "schedule")
       ELSE LET digest == worker.evidence[current]
                r == IF row.digest[current] # <<>> THEN row
                     ELSE FileVerified(row, current, digest)
            IN  IF digest = <<>> THEN Apply(RetryableFailure(row), "schedule_retry")
                ELSE IF r.state # "verifying" THEN Return
                ELSE /\ row' = r
                     /\ worker' = [worker EXCEPT !.file = @ + 1]
                     /\ UNCHANGED <<disk, control>>
    /\ UNCHANGED <<command, up, card, source, budget>>

(* The staged tree is what the manifest says, and nothing else is in it. *)
Seal ==
    /\ At("seal")
    /\ IF \/ disk.published # Nothing
          \/ /\ disk.target = row.digest
             /\ disk.part = Nothing /\ \A f \in Files : disk.journal[f] = 0
       THEN Goto("publish") /\ UNCHANGED <<row, disk, control>>
       ELSE Fail
    /\ UNCHANGED <<command, up, card, source, budget>>

(* One rename makes the tree visible; a tree that is already visible stays. *)
Publish ==
    /\ At("publish")
    /\ IF stop THEN Return
       ELSE /\ disk' = IF disk.published # Nothing THEN disk
                       ELSE [NoFiles EXCEPT !.published = disk.target]
            /\ Goto("commit")
            /\ UNCHANGED <<row, control>>
    /\ UNCHANGED <<command, up, card, source, budget>>

Commit ==
    /\ At("commit")
    /\ Apply(CommitSucceeded(row), "none")
    /\ UNCHANGED <<command, up, card, source, budget>>

(* The library root or the publication lease is lost: the run ends in an     *)
(* error at the next place that asks for it.                                 *)
LoseRoot ==
    /\ up /\ worker.pc \in {"turn", "preflight", "resolve", "file", "rehash", "prefix", "chunk",
                            "place", "verify", "seal", "publish"}
    /\ Spend("faults")
    /\ Fail
    /\ UNCHANGED <<command, up, card, source>>

(* ------------------------------- commands ------------------------------- *)

NoCommand == [pc |-> "idle", name |-> "none", locator |-> None]
Running(pc) == up /\ command.pc = pc

(* The import is created from the card's recording, then started. *)
StartImport ==
    /\ Running("idle") /\ row = NoRow /\ card = SpecLocator
    /\ row' = NewRow
    /\ command' = [NoCommand EXCEPT !.pc = "created", !.name = "start"]
    /\ UNCHANGED <<disk, worker, control, up, card, source, budget>>

Created ==
    /\ Running("created")
    /\ row' = Start(row)
    /\ command' = [command EXCEPT !.pc = "effects"]
    /\ UNCHANGED <<disk, worker, control, up, card, source, budget>>

Requested(name) ==
    CASE name = "pause" -> RequestPause(row)
      [] name = "cancel" -> RequestCancel(row)
      [] name = "resume" -> Resume(row)
      [] name = "retry" -> Retry(row)

(* A command that the job takes; a rejected one changes nothing. *)
Request(name) ==
    /\ Running("idle") /\ row # NoRow
    /\ Spend("clicks")
    /\ Requested(name) # row
    /\ row' = Requested(name)
    /\ command' = [NoCommand EXCEPT !.pc = "effects", !.name = name]
    /\ UNCHANGED <<disk, worker, control, up, card, source>>

CommandEffects ==
    /\ Running("effects")
    /\ IF command.name \in {"pause", "cancel"}
       THEN stop' = TRUE /\ command' = [command EXCEPT !.pc = "ack"] /\ UNCHANGED wake
       ELSE /\ stop' = (stop /\ command.name = "start")
            /\ wake' = TRUE /\ command' = NoCommand
    /\ UNCHANGED <<row, disk, worker, writer, errored, up, card, source, budget>>

(* Mutant: the acknowledgement does not wait for the worker. *)
AcknowledgeAtOnce ==
    /\ Running("ack")
    /\ row' = IF command.name = "pause" THEN PauseCompleted(row) ELSE row
    /\ command' = NoCommand
    /\ UNCHANGED <<disk, worker, control, up, card, source, budget>>

(* A pause or a cancel is done once the worker has let go of the files. *)
Acknowledge ==
    /\ Running("ack") /\ writer = None
    /\ LET r == IF command.name = "pause" THEN PauseCompleted(row) ELSE CancellationCompleted(row)
       IN  row' = IF CompareAndSwap(r) THEN r ELSE row
    /\ command' = NoCommand
    /\ UNCHANGED <<disk, worker, control, up, card, source, budget>>

(* The recording is found again, on the same card or on another one: without *)
(* a signature nothing is kept of another card's bytes. The writer lock is   *)
(* held to the end.                                                          *)
SourceFound ==
    /\ Running("idle") /\ row.state = "waiting" /\ card # None /\ writer = None
    /\ \/ /\ source.signed \/ row.installed = card
          /\ command' = [pc |-> "available", name |-> "source", locator |-> card]
          /\ UNCHANGED row
       \/ /\ ~source.signed /\ row.installed # card /\ LegalReset(row)
          /\ command' = [pc |-> "discard", name |-> "source", locator |-> card]
          /\ row' = ResetProgressForSource(row)
    /\ writer' = "command"
    /\ UNCHANGED <<disk, worker, stop, wake, errored, up, card, source, budget>>

Discard ==
    /\ Running("discard")
    /\ disk' = [NoFiles EXCEPT !.published = disk.published]
    /\ command' = [command EXCEPT !.pc = "available"]
    /\ UNCHANGED <<row, worker, control, up, card, source, budget>>

Available ==
    /\ Running("available")
    /\ row' = SourceAvailable(row, command.locator)
    /\ command' = [command EXCEPT !.pc = "activated"]
    /\ UNCHANGED <<disk, worker, control, up, card, source, budget>>

Activated ==
    /\ Running("activated")
    /\ stop' = FALSE /\ wake' = TRUE /\ writer' = None
    /\ command' = NoCommand
    /\ UNCHANGED <<row, disk, worker, errored, up, card, source, budget>>

(* --------------------- the card, the crash, the start ------------------- *)

MoveCard ==
    /\ Spend("moves")
    /\ card' \in (Locators \cup {None}) \ {card}
    /\ UNCHANGED <<row, disk, worker, command, control, up, source>>

Unflushed(f) ==
    \/ Len(disk.part[f]) > disk.journal[f]
    \/ worker.pc = "journal" /\ current = f

(* A chunk that was not flushed may be lost. *)
Crash ==
    /\ up /\ Spend("crashes")
    /\ up' = FALSE
    /\ disk' \in {disk} \cup {[disk EXCEPT !.part[f] = SubSeq(@, 1, Len(@) - 1)] :
                              f \in {g \in Files : Unflushed(g)}}
    /\ worker' = Idle /\ command' = NoCommand
    /\ stop' = FALSE /\ writer' = None /\ wake' = FALSE /\ errored' = FALSE
    /\ UNCHANGED <<row, card, source>>

Recover ==
    /\ ~up
    /\ up' = TRUE
    /\ wake' = (row.state \in Runnable)
    /\ UNCHANGED <<row, disk, worker, command, stop, writer, errored, card, source, budget>>

(* ----------------------------- specification ---------------------------- *)

Init ==
    /\ row = NoRow /\ disk = NoFiles
    /\ worker = Idle /\ command = NoCommand
    /\ stop = FALSE /\ writer = None /\ wake = FALSE /\ errored = FALSE
    /\ up = TRUE /\ card = SpecLocator
    /\ source \in [bytes : [Locators -> {0, 1}], signed : BOOLEAN]
    /\ source.bytes[SpecLocator] = 0
    /\ budget \in Budgets

Work ==
    \/ NextJob \/ Turn \/ Done \/ Effects
    \/ EnterPreflight \/ Preflight
    \/ EnterCopy \/ Resolve \/ File \/ Rehash \/ Known \/ Prefix
    \/ Chunk \/ Journal \/ Checkpoint \/ Flush \/ FullCheckpoint \/ Place \/ Placed
    \/ EnterVerification \/ Verify
    \/ EnterCommit \/ Seal \/ Publish \/ Commit

Finish == Created \/ CommandEffects \/ Acknowledge \/ Discard \/ Available \/ Activated

Next ==
    \/ Work \/ LoseRoot
    \/ StartImport \/ (\E name \in budget.commands : Request(name)) \/ SourceFound \/ Finish
    \/ MoveCard \/ Crash \/ Recover

Spec == Init /\ [][Next]_vars

(* The lane's thread and the commands that have begun go on, and the         *)
(* application is started again; the user and the card owe nothing.          *)
FairSpec == Spec /\ WF_vars(Work) /\ WF_vars(Finish) /\ WF_vars(Recover)

(* ------------------------------ properties ------------------------------ *)

(* The types of the state: a file is the chunks it has, a digest the file it *)
(* was taken of (StoredImport, SessionStaging, JobControl).                  *)
Pieces == UNION {[1 .. n -> {0, 1}] : n \in 0 .. Size}
TypeOK ==
    /\ row \in [state : Runnable \cup Terminal \cup
                       {"absent", "waiting", "pausing", "paused", "cancelling", "retry_wait"},
                resume : {"preflight", "copy"}, offset : [Files -> 0 .. Size],
                digest : [Files -> Pieces], locator : Locators \cup {None},
                installed : Locators, verified : BOOLEAN]
    /\ disk \in [part : [Files -> Pieces], journal : [Files -> 0 .. Size],
                 target : [Files -> Pieces], published : [Files -> Pieces]]
    /\ worker.locator \in Locators \cup {None} /\ worker.file \in 1 .. NFiles + 1
    /\ worker.hashed \in Pieces /\ worker.evidence \in [Files -> Pieces]
    /\ command.locator \in Locators \cup {None}
    /\ stop \in BOOLEAN /\ wake \in BOOLEAN /\ errored \in BOOLEAN /\ up \in BOOLEAN
    /\ writer \in {None, "worker", "command"}
    /\ card \in Locators \cup {None}

(* What becomes visible in the library is the recording of one card, whole:  *)
(* cards pulled and exchanged, crashes, pauses and retries never leave a     *)
(* tree with files, or pieces of a file, of two (copy_one_file,              *)
(* source_available, seal). A job is local_verified only with that tree.     *)
OneCardPublished ==
    /\ disk.published # Nothing =>
         \E l \in Locators : \A f \in Files : disk.published[f] = Copied(l)
    /\ row.state = "local_verified" => disk.published # Nothing

(* A checkpoint never claims bytes that a crash can take away or a discard   *)
(* took: the file's part or target holds them, or the visible tree does      *)
(* (copy_source_to_partial flushes before it persists).                      *)
CheckpointsBacked ==
    \A f \in Files : row.offset[f] <= Len(disk.part[f]) + Len(disk.target[f]) + Len(disk.published[f])

(* From the acknowledged pause to the resume a running process writes        *)
(* nothing: the acknowledgement waits for the writer lock, and the worker    *)
(* looks at the job again after it has taken it (command_impl, run_copy,     *)
(* run_commit). What a crash takes away was never flushed.                   *)
PausedIsQuiet ==
    [][row.state = "paused" /\ row'.state = "paused" /\ up' => UNCHANGED disk]_vars

(* A job that the worker should run does not wait for ever with the stop     *)
(* flag down: somebody wakes the lane, at a resume, at the return of a card, *)
(* at a wake-up that comes during a run, at the start after a crash          *)
(* (execute_post_persist_effects, run_import_once, recover_pending_imports). *)
NoLostWake == []<>~(row.state \in Runnable /\ ~stop /\ ~errored)

(* What the job is taken for: a cancellation ends in cancelled (ports.rs: a  *)
(* terminal cancellation is written by compare_and_swap).                    *)
CancelEnds == row.state = "cancelling" ~> row.state # "cancelling"

(* A pause is over some time, acknowledged or overtaken. *)
PauseEnds == row.state = "pausing" ~> row.state # "pausing"

(* A job does not stay runnable for ever unless a run ended in an error. *)
RunnableSettles == []<>(row.state \notin Runnable \/ errored)

(* A job does not stay committing for ever. *)
CommitEnds == row.state = "committing" ~> row.state # "committing"
=============================================================================
