------------------------- MODULE MediaImport_proofs -------------------------
(***************************************************************************)
(* Proofs about MediaImport: for any number of cards, files, chunks,       *)
(* commands, failing steps and crashes what becomes visible is the whole   *)
(* recording of one card, checkpoints are backed by what was flushed, and  *)
(* a paused import is left alone.                                          *)
(***************************************************************************)
EXTENDS MediaImport, SequenceTheorems, TLAPS

Chunks == Seq({0, 1})
States == Runnable \cup Terminal \cup
          {"absent", "waiting", "pausing", "paused", "cancelling", "retry_wait"}
Rows == [state : States, resume : {"preflight", "copy"}, offset : [Files -> 0 .. Size],
         digest : [Files -> Chunks], locator : Locators \cup {None}, installed : Locators,
         verified : BOOLEAN]
Disks == [part : [Files -> Chunks], journal : [Files -> 0 .. Size], target : [Files -> Chunks],
          published : [Files -> Chunks]]

(* The places of a file's copy, of the phase around it and of the other      *)
(* phases. In all of them the worker holds the writer lock.                  *)
Streaming == {"prefix", "chunk", "journal", "checkpoint", "flush", "full", "place"}
OneFile == Streaming \cup {"rehash", "known", "placed"}
Copying == OneFile \cup {"resolve", "file"}
Sealing == {"seal", "publish", "commit"}
Inside == {"preflight", "verify"} \cup Copying \cup Sealing
Outside == {"idle", "turn", "done", "effects", "preflighting", "copying", "verifying", "committing"}

Workers == [pc : Inside \cup Outside, locator : Locators \cup {None}, file : 1 .. NFiles + 1,
            hashed : Chunks, evidence : [Files -> Chunks],
            effects : {"none", "cancel_io", "schedule", "schedule_retry"}]
Requests == {"pause", "cancel", "resume", "retry"}
Acquiring == {"discard", "available", "activated"}
Commands == [pc : {"idle", "created", "effects", "ack"} \cup Acquiring,
             name : Requests \cup {"none", "start", "source"}, locator : Locators \cup {None}]
Sources == [bytes : [Locators -> {0, 1}], signed : BOOLEAN]
Limited == [commands : SUBSET Requests, clicks : Nat, moves : Nat, faults : Nat, crashes : Nat]

(* The types. *)
TypeInv ==
    /\ row \in Rows /\ disk \in Disks /\ worker \in Workers /\ command \in Commands
    /\ card \in Locators \cup {None} /\ source \in Sources /\ budget \in Limited
    /\ stop \in BOOLEAN /\ wake \in BOOLEAN /\ up \in BOOLEAN
    /\ writer \in {None, "worker", "command"}

(* Who holds the writer lock. *)
LockInv ==
    /\ worker.pc \in Inside => writer = "worker"
    /\ writer = "worker" => worker.pc \in Inside \cup {"effects"}
    /\ command.pc \in Acquiring <=> writer = "command"
    /\ ~up => worker.pc = "idle" /\ command.pc = "idle"

(* In a phase the job is in the state of the phase, or has been told to stop *)
(* since; an acquisition finds it waiting.                                   *)
Told == {"pausing", "cancelling"}
StateInv ==
    /\ worker.pc = "preflight" => row.state \in Told \cup {"preflighting"}
    /\ worker.pc \in Copying => row.state \in Told \cup {"copying"} /\ worker.locator \in Locators
    /\ worker.pc = "verify" => row.state \in Told \cup {"verifying"}
    /\ worker.pc \in Sealing => row.state \in Told \cup {"committing"}
    /\ command.pc \in {"discard", "available"} =>
         row.state = "waiting" /\ command.locator \in Locators
    /\ row.state \in {"preflighting", "copying"} => row.locator \in Locators
    /\ row.state = "absent" => row = NoRow

(* The files that are staged: a target and a visible file are whole, and a   *)
(* checkpoint stands for what was flushed, or for one of these.              *)
Whole(file) == file = <<>> \/ Len(file) = Size
DiskInv ==
    \A f \in Files :
      /\ Len(disk.part[f]) <= Size /\ Whole(disk.target[f]) /\ Whole(disk.published[f])
      /\ \/ row.offset[f] <= disk.journal[f] /\ row.offset[f] <= Len(disk.part[f])
         \/ disk.target[f] # <<>> \/ disk.published[f] # <<>>

(* The card whose bytes a copy has to yield. *)
Origin == IF source.signed THEN SpecLocator ELSE worker.locator

NoDigest == \A f \in Files : row.digest[f] = <<>>

(* The file that is being copied. What came from the card was hashed on the  *)
(* way, also the part that an earlier run had left.                          *)
FileInv ==
    LET f == worker.file IN
    /\ f \in Files /\ disk.published[f] = <<>> /\ row.digest[f] = <<>>
    /\ worker.pc = "rehash" => ~source.signed /\ disk.target[f] # <<>>
    /\ worker.pc = "known" => disk.target[f] = Copied(Origin)
    /\ worker.pc \in Streaming => disk.target[f] = <<>> /\ NoDigest
    /\ worker.pc \in Streaming \ {"prefix"} =>
         /\ Len(worker.hashed) = Len(disk.part[f])
         /\ \A i \in 1 .. Len(worker.hashed) : worker.hashed[i] = source.bytes[worker.locator]
    /\ worker.pc = "journal" => row.offset[f] < Len(disk.part[f])
    /\ worker.pc = "checkpoint" => disk.journal[f] = Len(disk.part[f])
    /\ worker.pc \in {"flush", "full", "place"} => Len(disk.part[f]) = Size
    /\ worker.pc \in {"full", "place"} => disk.journal[f] = Size
    /\ worker.pc = "placed" =>
         disk.target[f] = Copied(Origin) /\ worker.hashed = Copied(Origin) /\ NoDigest

(* The files the copy is done with: staged, and evidence of what was staged. *)
Behind ==
    \A f \in Files : f < worker.file =>
       \/ row.digest[f] # <<>> /\ worker.evidence[f] = row.digest[f]
       \/ /\ row.digest[f] = <<>> /\ worker.evidence[f] = Copied(Origin)
          /\ disk.target[f] = Copied(Origin)

PassInv ==
    /\ worker.pc \in OneFile => FileInv
    /\ worker.pc \in OneFile \cup {"file"} => Behind

(* One card's recording, in staging or visible, and the digests of it. *)
Sealed(l) ==
    /\ \/ \A f \in Files : disk.target[f] = Copied(l)
       \/ \A f \in Files : disk.published[f] = Copied(l)
    /\ \A f \in Files : row.offset[f] = Size /\ row.digest[f] \in {<<>>, Copied(l)}
    /\ row.state = "verifying" => \A f \in Files : worker.evidence[f] \in {<<>>, Copied(l)}

(* From the first digest on the staged tree is one card's. *)
TreeInv ==
    /\ row.state = "verifying" \/ ~NoDigest => \E l \in Locators : Sealed(l)
    /\ row.verified => \A f \in Files : row.digest[f] # <<>>
    /\ row.state \in {"committing", "local_verified"} \/ worker.pc \in Sealing => row.verified
    /\ disk.published # Nothing =>
         row.verified /\ \E l \in Locators : \A f \in Files : disk.published[f] = Copied(l)
    /\ row.state = "local_verified" \/ worker.pc = "commit" => disk.published # Nothing
    /\ worker.pc = "publish" => disk.published # Nothing \/ disk.target = row.digest
    /\ source.signed => \A f \in Files : disk.target[f] \in {<<>>, Copied(SpecLocator)}
    /\ command.pc = "discard" => NoDigest /\ ~row.verified /\ \A f \in Files : row.offset[f] = 0

ImportInv == TypeInv /\ LockInv /\ StateInv /\ DiskInv /\ PassInv /\ TreeInv

-----------------------------------------------------------------------------
(* Cards, files and places.                                                *)

(* The constants. *)
LEMMA Basics ==
  /\ SpecLocator \in Locators /\ None \notin Locators /\ None # "worker" /\ None # "command"
  /\ NFiles \in Nat /\ NFiles >= 1 /\ Size \in Nat /\ Size >= 1 /\ 1 \in Files /\ Files \subseteq Nat
BY MediaImportAssumption DEF Files

(* The pieces of the state. *)
LEMMA Fields ==
  ASSUME TypeInv
  PROVE  /\ row.state \in States /\ row.offset \in [Files -> 0 .. Size]
         /\ row.digest \in [Files -> Chunks] /\ row.locator \in Locators \cup {None}
         /\ row.installed \in Locators /\ row.verified \in BOOLEAN
         /\ disk.part \in [Files -> Chunks] /\ disk.journal \in [Files -> 0 .. Size]
         /\ disk.target \in [Files -> Chunks] /\ disk.published \in [Files -> Chunks]
         /\ worker.pc \in Inside \cup Outside /\ worker.locator \in Locators \cup {None}
         /\ worker.file \in 1 .. NFiles + 1 /\ worker.hashed \in Chunks
         /\ worker.evidence \in [Files -> Chunks]
         /\ source.bytes \in [Locators -> {0, 1}] /\ source.signed \in BOOLEAN
BY DEF TypeInv, Rows, Disks, Workers, Sources

(* A file made of numbered chunks. *)
LEMMA PieceIs ==
  ASSUME NEW n \in Nat, NEW s, s \in [1 .. n -> {0, 1}]
  PROVE  s \in Chunks /\ Len(s) = n
<1>1. s \in Chunks
  BY SeqDef DEF Chunks
<1>2. Len(s) \in Nat /\ DOMAIN s = 1 .. Len(s)
  BY <1>1, LenProperties DEF Chunks
<1>3. 1 .. Len(s) = 1 .. n
  BY <1>2
<1> QED
  BY <1>1, <1>2, <1>3

(* The recording of a card. *)
LEMMA CopiedIs ==
  ASSUME TypeInv, NEW l \in Locators
  PROVE  /\ Copied(l) \in Chunks /\ Len(Copied(l)) = Size /\ Copied(l) # <<>>
         /\ \A i \in 1 .. Size : Copied(l)[i] = source.bytes[l]
<1>1. source.bytes[l] \in {0, 1}
  BY Fields
<1>2. Copied(l) \in [1 .. Size -> {0, 1}]
  BY <1>1 DEF Copied
<1>3. Copied(l) \in Chunks /\ Len(Copied(l)) = Size
  BY <1>2, PieceIs, Basics
<1>4. Len(<<>>) = 0
  OBVIOUS
<1> QED
  BY <1>3, <1>4, Basics DEF Copied

(* A file whose chunks are all of one card is its recording when it is full. *)
LEMMA WholeIs ==
  ASSUME TypeInv, NEW l \in Locators, NEW s \in Chunks, Len(s) = Size,
         \A i \in 1 .. Len(s) : s[i] = source.bytes[l]
  PROVE  s = Copied(l)
<1>1. /\ Copied(l) \in Chunks /\ Len(s) = Len(Copied(l))
      /\ \A i \in 1 .. Len(s) : s[i] = Copied(l)[i]
  BY CopiedIs
<1> QED
  BY <1>1, SeqEqual DEF Chunks

(* No files. *)
LEMMA NothingIs ==
  /\ Nothing \in [Files -> Chunks] /\ \A f \in Files : Nothing[f] = <<>>
  /\ NoFiles \in Disks /\ NoFiles.part = Nothing /\ NoFiles.target = Nothing
  /\ NoFiles.published = Nothing /\ \A f \in Files : NoFiles.journal[f] = 0
<1>1. <<>> \in Chunks
  BY EmptySeq DEF Chunks
<1>2. Nothing \in [Files -> Chunks] /\ \A f \in Files : Nothing[f] = <<>>
  BY <1>1 DEF Nothing
<1>3. [f \in Files |-> 0] \in [Files -> 0 .. Size]
  BY Basics
<1> QED
  BY <1>2, <1>3 DEF NoFiles, Disks

(* A tree of files is not empty when a file of it is there. *)
LEMMA SomeIs ==
  ASSUME NEW d \in [Files -> Chunks]
  PROVE  d = Nothing <=> \A f \in Files : d[f] = <<>>
BY NothingIs DEF Nothing

(* A worker at rest. *)
LEMMA IdleIs ==
  /\ Idle \in Workers /\ Idle.pc = "idle" /\ Idle.evidence = Nothing
  /\ NoCommand \in Commands /\ NoCommand.pc = "idle" /\ NoCommand.locator = None
<1>1. 1 \in 1 .. NFiles + 1 /\ <<>> \in Chunks
  BY Basics, EmptySeq DEF Chunks
<1> QED
  BY <1>1, NothingIs DEF Idle, Workers, Outside, NoCommand, Commands

(* The worker goes to another place and keeps what it has. *)
LEMMA GotoIs ==
  ASSUME TypeInv, NEW pc \in Inside \cup Outside, Goto(pc)
  PROVE  /\ worker' \in Workers /\ worker'.pc = pc /\ worker'.locator = worker.locator
         /\ worker'.file = worker.file /\ worker'.hashed = worker.hashed
         /\ worker'.evidence = worker.evidence
BY DEF TypeInv, Workers, Goto

(* The places inside and outside of the phases differ. *)
LEMMA PlacesDiffer ==
  ASSUME NEW pc
  PROVE  /\ pc \in Outside => pc \notin Inside
         /\ pc \in Copying => pc \in Inside /\ pc \notin Sealing /\ pc \notin {"preflight", "verify"}
         /\ pc \in Sealing => pc \in Inside /\ pc \notin Copying /\ pc \notin {"preflight", "verify"}
         /\ pc \in OneFile => pc \in Copying
         /\ pc \in Streaming => pc \in OneFile
BY DEF Outside, Inside, Copying, OneFile, Streaming, Sealing

-----------------------------------------------------------------------------
(* The reducer.                                                            *)

(* A change of the job that leaves its progress alone. *)
PlainStates == {"queued", "preflighting", "copying", "waiting", "pausing", "paused", "cancelling",
                "retry_wait"}
Plain(next) ==
    /\ next \in Rows /\ next.offset = row.offset /\ next.digest = row.digest
    /\ next.verified = row.verified
    /\ next.state = row.state \/ next.state \in PlainStates
    /\ next.state \in {"preflighting", "copying"} => next.locator \in Locators
    /\ next.state = "absent" => next = row

(* The row itself. *)
LEMMA SamePlain ==
  ASSUME TypeInv, StateInv
  PROVE  Plain(row)
BY DEF TypeInv, StateInv, Plain

(* A row with another state and resume point. *)
LEMMA TurnedPlain ==
  ASSUME TypeInv, StateInv, NEW s \in PlainStates \ {"preflighting"},
         NEW p \in {"preflight", "copy"}, s = "copying" => row.locator \in Locators
  PROVE  /\ Plain([row EXCEPT !.state = s]) /\ Plain([row EXCEPT !.state = s, !.resume = p])
         /\ [row EXCEPT !.state = s].state = s /\ [row EXCEPT !.state = s, !.resume = p].state = s
<1>1. row \in Rows /\ s \in States
  BY DEF TypeInv, PlainStates, States, Runnable, Terminal
<1>2. /\ [row EXCEPT !.state = s] \in Rows /\ [row EXCEPT !.state = s, !.resume = p] \in Rows
      /\ [row EXCEPT !.state = s].state = s /\ [row EXCEPT !.state = s, !.resume = p].state = s
  BY <1>1 DEF Rows
<1>3. s # "absent"
  BY DEF PlainStates
<1>4. ASSUME NEW n \in {[row EXCEPT !.state = s], [row EXCEPT !.state = s, !.resume = p]}
      PROVE  /\ n.offset = row.offset /\ n.digest = row.digest /\ n.verified = row.verified
             /\ n.locator = row.locator
  BY <1>1, <1>4 DEF Rows
<1> QED
  BY <1>2, <1>3, <1>4 DEF Plain

(* A row that has become active on a card. *)
LEMMA ActivatePlain ==
  ASSUME TypeInv, NEW l \in Locators, NEW s \in {"preflighting", "copying"}
  PROVE  Plain(Activate(row, l, s)) /\ Activate(row, l, s).state = s
<1>1. row \in Rows /\ s \in States
  BY DEF TypeInv, States, Runnable, Terminal
<1>2. Activate(row, l, s) \in Rows
  BY <1>1 DEF Rows, Activate
<1> QED
  BY <1>1, <1>2 DEF Plain, Activate, Rows, PlainStates

(* The decisions that leave the progress alone. *)
LEMMA OpsPlain ==
  ASSUME TypeInv, StateInv
  PROVE  /\ Plain(Start(row)) /\ Plain(PreflightPassed(row)) /\ Plain(RetryableFailure(row))
         /\ Plain(RequestPause(row)) /\ Plain(PauseCompleted(row)) /\ Plain(Resume(row))
         /\ Plain(RequestCancel(row)) /\ Plain(Retry(row)) /\ Plain(SourceUnavailable(row))
         /\ \A l \in Locators : Plain(SourceAvailable(row, l))
<1>1. Plain(row) /\ ResumePoint(row) \in {"preflight", "copy"}
  BY SamePlain DEF ResumePoint
<1>2. ASSUME NEW s \in PlainStates \ {"preflighting", "copying"}
      PROVE  Plain([row EXCEPT !.state = s]) /\ Plain([row EXCEPT !.state = s, !.resume = ResumePoint(row)])
  BY <1>1, TurnedPlain
<1> HIDE DEF ResumePoint
<1>3. /\ Plain(RetryableFailure(row)) /\ Plain(RequestPause(row)) /\ Plain(PauseCompleted(row))
      /\ Plain(Resume(row)) /\ Plain(RequestCancel(row)) /\ Plain(Retry(row))
  BY <1>1, <1>2 DEF If, RetryableFailure, RequestPause, PauseCompleted, Resume, RequestCancel, Retry,
                    PlainStates
<1>4. Plain(PreflightPassed(row))
  <2>1. CASE row.state = "preflighting"
    <3>1. row.locator \in Locators
      BY <2>1 DEF StateInv
    <3>2. Plain([row EXCEPT !.state = "copying"])
      BY <3>1, TurnedPlain DEF PlainStates
    <3> QED
      BY <2>1, <3>2 DEF If, PreflightPassed
  <2>2. CASE row.state # "preflighting"
    BY <2>2, <1>1 DEF If, PreflightPassed
  <2> QED
    BY <2>1, <2>2
<1>5. Plain(Start(row)) /\ \A l \in Locators : Plain(SourceAvailable(row, l))
  <2>1. (IF row.locator = None THEN SpecLocator ELSE row.locator) \in Locators
    BY Fields, Basics
  <2> QED
    BY <1>1, <2>1, ActivatePlain DEF If, Start, SourceAvailable
<1>6. Plain(SourceUnavailable(row))
  <2> DEFINE n == [row EXCEPT !.state = "waiting", !.resume = ResumePoint(row), !.locator = None]
  <2>1. row \in Rows /\ "waiting" \in States /\ None \in Locators \cup {None}
    BY DEF TypeInv, States
  <2>2. n \in Rows
    BY <1>1, <2>1 DEF Rows
  <2>3. /\ n.offset = row.offset /\ n.digest = row.digest /\ n.verified = row.verified
        /\ n.state = "waiting"
    BY <2>1 DEF Rows
  <2>4. Plain(n)
    BY <2>2, <2>3 DEF Plain, PlainStates
  <2> QED
    BY <1>1, <2>4 DEF If, SourceUnavailable
<1> QED
  BY <1>3, <1>4, <1>5, <1>6

-----------------------------------------------------------------------------
(* Steps that leave the files alone.                                       *)

(* What the files, the copy and the tree are stays true while no file        *)
(* changes and the worker stays where it is or is outside of the phases.     *)
LEMMA FilesKept ==
  ASSUME ImportInv, Plain(row'), UNCHANGED <<disk, source>>,
         \/ worker' = worker
         \/ worker' \in Workers /\ worker'.pc \in Outside
            /\ worker'.evidence \in {worker.evidence, Nothing},
         command'.pc = "discard" => command.pc = "discard"
  PROVE  DiskInv' /\ PassInv' /\ TreeInv'
<1>1. /\ row'.offset = row.offset /\ row'.digest = row.digest /\ row'.verified = row.verified
      /\ NoDigest' = NoDigest
  BY DEF Plain, NoDigest
<1>2. DiskInv'
  BY <1>1 DEF ImportInv, DiskInv, Whole
<1>3. PassInv'
  <2>1. CASE worker' = worker
    <3>1. Origin' = Origin /\ \A l : Copied(l)' = Copied(l)
      BY <2>1 DEF Origin, Copied
    <3>2. PassInv
      BY DEF ImportInv
    <3>3. FileInv => FileInv'
      BY <1>1, <2>1, <3>1 DEF FileInv, Copied, Origin
    <3> QED
      BY <1>1, <2>1, <3>1, <3>2, <3>3 DEF PassInv, Behind, Copied, Origin
  <2>2. CASE worker'.pc \in Outside
    BY <2>2, PlacesDiffer DEF PassInv, OneFile, Streaming, Outside
  <2> QED
    BY <2>1, <2>2
<1>4. TreeInv'
  <2>1. TreeInv
    BY DEF ImportInv
  <2>2. \A f \in Files : worker'.evidence[f] \in {worker.evidence[f], <<>>}
    BY NothingIs
  <2>3. /\ worker'.pc \in Sealing => worker' = worker
        /\ worker'.pc \in {"publish", "commit"} => worker' = worker
    BY PlacesDiffer DEF Outside, Sealing
  <2>4. row'.state \in {"verifying", "committing", "local_verified"} => row'.state = row.state
    BY DEF Plain, PlainStates
  <2>5. \A l \in Locators : Sealed(l) => Sealed(l)'
    <3> SUFFICES ASSUME NEW l \in Locators, Sealed(l) PROVE Sealed(l)'
      OBVIOUS
    <3>1. Copied(l)' = Copied(l)
      BY DEF Copied
    <3>2. \/ \A f \in Files : disk'.target[f] = Copied(l)
          \/ \A f \in Files : disk'.published[f] = Copied(l)
      BY DEF Sealed
    <3>3. \A f \in Files : row'.offset[f] = Size /\ row'.digest[f] \in {<<>>, Copied(l)}
      BY <1>1 DEF Sealed
    <3>4. row'.state = "verifying" => \A f \in Files : worker'.evidence[f] \in {<<>>, Copied(l)}
      BY <2>2, <2>4 DEF Sealed
    <3> QED
      BY <3>1, <3>2, <3>3, <3>4 DEF Sealed
  <2>6. row'.state = "verifying" \/ ~NoDigest' => \E l \in Locators : Sealed(l)'
    BY <1>1, <2>1, <2>4, <2>5 DEF TreeInv
  <2> QED
    <3>1. \A l : Copied(l)' = Copied(l)
      BY DEF Copied
    <3>2. row'.verified => \A f \in Files : row'.digest[f] # <<>>
      BY <1>1, <2>1 DEF TreeInv
    <3>3. row'.state \in {"committing", "local_verified"} \/ worker'.pc \in Sealing => row'.verified
      BY <1>1, <2>1, <2>3, <2>4 DEF TreeInv
    <3>4. /\ disk'.published # Nothing =>
               row'.verified /\ \E l \in Locators : \A f \in Files : disk'.published[f] = Copied(l)
          /\ source'.signed => \A f \in Files : disk'.target[f] \in {<<>>, Copied(SpecLocator)}
      BY <1>1, <2>1 DEF TreeInv
    <3>5. /\ row'.state = "local_verified" \/ worker'.pc = "commit" => disk'.published # Nothing
          /\ worker'.pc = "publish" => disk'.published # Nothing \/ disk'.target = row'.digest
      BY <1>1, <2>1, <2>3, <2>4 DEF TreeInv
    <3>6. command'.pc = "discard" =>
            NoDigest' /\ ~row'.verified /\ \A f \in Files : row'.offset[f] = 0
      BY <1>1, <2>1 DEF TreeInv
    <3> QED
      BY <2>6, <3>1, <3>2, <3>3, <3>4, <3>5, <3>6 DEF TreeInv
<1> QED
  BY <1>2, <1>3, <1>4

(* The worker leaves a phase, or is not in one. *)
Leaves ==
    /\ up /\ Plain(row') /\ UNCHANGED <<disk, source, command, up, card>>
    /\ worker' \in Workers /\ worker'.pc \in Outside
    /\ worker'.evidence \in {worker.evidence, Nothing}
    /\ \/ writer' = Released
       \/ writer' = writer /\ (worker'.pc = "effects" \/ worker.pc \in Outside \ {"effects"})
    /\ row' = row \/ row.state # "waiting"
    /\ stop' \in BOOLEAN /\ wake' \in BOOLEAN

(* Such a step keeps the invariant. *)
LEMMA LeavesKept ==
  ASSUME ImportInv, Leaves, budget' \in Limited
  PROVE  ImportInv'
<1>1. DiskInv' /\ PassInv' /\ TreeInv'
  BY FilesKept DEF Leaves
<1>2. writer' \in {None, "worker", "command"}
  BY DEF Leaves, Released, ImportInv, TypeInv
<1>3. TypeInv'
  BY <1>2 DEF Leaves, Plain, ImportInv, TypeInv
<1>4. LockInv'
  <2>1. worker'.pc \notin Inside
    BY PlacesDiffer DEF Leaves
  <2>2. writer' = "worker" => worker'.pc = "effects"
    BY Basics, PlacesDiffer DEF Leaves, ImportInv, LockInv, Released
  <2>3. writer' = "command" <=> writer = "command"
    BY Basics DEF Leaves, Released
  <2> QED
    BY <2>1, <2>2, <2>3 DEF Leaves, ImportInv, LockInv
<1>5. StateInv'
  <2>1. worker'.pc \notin Inside
    BY PlacesDiffer DEF Leaves
  <2>2. /\ worker'.pc # "preflight" /\ worker'.pc \notin Copying /\ worker'.pc # "verify"
        /\ worker'.pc \notin Sealing
    BY <2>1 DEF Inside
  <2>3. command'.pc \in {"discard", "available"} =>
          row'.state = "waiting" /\ command'.locator \in Locators
    BY DEF Leaves, ImportInv, StateInv
  <2>4. row'.state = "absent" => row' = NoRow
    BY DEF Leaves, Plain, ImportInv, StateInv
  <2>5. row'.state \in {"preflighting", "copying"} => row'.locator \in Locators
    BY DEF Leaves, Plain
  <2> QED
    BY <2>2, <2>3, <2>4, <2>5 DEF StateInv, NoRow, NewRow
<1> QED
  BY <1>1, <1>3, <1>4, <1>5 DEF ImportInv

(* A phase that returns. *)
LEMMA ReturnLeaves ==
  ASSUME ImportInv, up, Return, UNCHANGED <<command, up, card, source>>
  PROVE  Leaves
<1>1. TypeInv /\ StateInv
  BY DEF ImportInv
<1>2. worker' \in Workers /\ worker'.pc = "turn" /\ worker'.evidence = worker.evidence
  BY <1>1, GotoIs DEF Return, Outside
<1> QED
  BY <1>1, <1>2, SamePlain DEF Leaves, Return, TypeInv, Outside

(* A run that fails. *)
LEMMA FailLeaves ==
  ASSUME ImportInv, up, Fail, UNCHANGED <<command, up, card, source>>
  PROVE  Leaves
<1>1. TypeInv /\ StateInv
  BY DEF ImportInv
<1> QED
  BY <1>1, SamePlain, IdleIs DEF Leaves, Fail, TypeInv, Outside

(* A change of the job by the worker. *)
LEMMA ApplyLeaves ==
  ASSUME ImportInv, up, UNCHANGED <<command, up, card, source>>, NEW next, Plain(next),
         NEW e \in {"none", "cancel_io", "schedule", "schedule_retry"}, Apply(next, e),
         next = row \/ row.state # "waiting"
  PROVE  Leaves
<1>1. TypeInv /\ StateInv
  BY DEF ImportInv
<1>2. CASE CompareAndSwap(next)
  <2>1. /\ row' = next /\ UNCHANGED <<disk, stop, writer, wake>>
        /\ worker' = [worker EXCEPT !.pc = "effects", !.effects = IF next = row THEN "none" ELSE e]
    BY <1>2 DEF Apply
  <2>2. (IF next = row THEN "none" ELSE e) \in {"none", "cancel_io", "schedule", "schedule_retry"}
    OBVIOUS
  <2>3. worker' \in Workers /\ worker'.pc = "effects" /\ worker'.evidence = worker.evidence
    BY <1>1, <2>1, <2>2 DEF TypeInv, Workers, Outside
  <2> QED
    BY <1>1, <2>1, <2>3 DEF Leaves, TypeInv, Outside
<1>3. CASE ~CompareAndSwap(next)
  BY <1>3, FailLeaves DEF Apply
<1> QED
  BY <1>2, <1>3

(* A permanent failure is refused by the store. *)
LEMMA PermanentLeaves ==
  ASSUME ImportInv, up, UNCHANGED <<command, up, card, source>>,
         Apply(PermanentFailure(row), "cancel_io")
  PROVE  Leaves
<1>1. TypeInv /\ StateInv
  BY DEF ImportInv
<1>2. CASE row.state \in Terminal
  <2>1. PermanentFailure(row) = row
    BY <1>2 DEF PermanentFailure, If
  <2> QED
    BY <1>1, <2>1, SamePlain, ApplyLeaves
<1>3. CASE row.state \notin Terminal
  <2>1. PermanentFailure(row).state = "failed"
    BY <1>1, <1>3 DEF PermanentFailure, If, TypeInv, Rows
  <2> QED
    BY <2>1, FailLeaves DEF Apply, CompareAndSwap
<1> QED
  BY <1>2, <1>3

(* execute_post_persist_effects. *)
LEMMA EffectsLeave ==
  ASSUME ImportInv, Effects
  PROVE  Leaves
<1>1. TypeInv /\ StateInv
  BY DEF ImportInv
<1>2. worker' \in Workers /\ worker'.pc = "turn" /\ worker'.evidence = worker.evidence
  BY <1>1 DEF Effects, TypeInv, Workers, Outside
<1>3. up /\ row' = row /\ UNCHANGED <<disk, command, up, card, source>> /\ writer' = Released
  BY DEF Effects, At
<1>4. stop' \in BOOLEAN /\ wake' \in BOOLEAN
  BY DEF Effects
<1> QED
  BY <1>1, <1>2, <1>3, <1>4, SamePlain DEF Leaves, Outside

(* The lane takes the job, or is done with a run. *)
LEMMA LaneLeaves ==
  ASSUME ImportInv, NextJob \/ Done
  PROVE  Leaves
<1>1. TypeInv /\ StateInv
  BY DEF ImportInv
<1>2. /\ up /\ worker.pc \in {"idle", "done"} /\ UNCHANGED <<row, disk, stop, writer, command, up, card, source>>
      /\ wake' = FALSE
  BY DEF NextJob, Done, At
<1>3. worker' \in Workers /\ worker'.pc \in {"turn", "idle"} /\ worker'.evidence \in {worker.evidence, Nothing}
  <2>1. CASE NextJob
    BY <1>1, <2>1, GotoIs DEF NextJob, Outside
  <2>2. CASE Done
    BY <2>2, IdleIs DEF Done, Workers, Outside
  <2> QED
    BY <2>1, <2>2
<1> QED
  BY <1>1, <1>2, <1>3, SamePlain DEF Leaves, Outside, TypeInv

(* One turn of a run. *)
LEMMA TurnLeaves ==
  ASSUME ImportInv, Turn
  PROVE  Leaves
<1>1. TypeInv /\ StateInv
  BY DEF ImportInv
<1>2. up /\ worker.pc = "turn" /\ UNCHANGED <<command, up, card, source>>
  BY DEF Turn, At
<1>3. CASE Goto("done") /\ UNCHANGED <<row, disk, control>>
  BY <1>1, <1>2, <1>3, GotoIs, SamePlain DEF Leaves, Outside, TypeInv, control
<1>4. CASE row.state = "queued" /\ Apply(Start(row), "schedule")
  BY <1>1, <1>2, <1>4, OpsPlain, ApplyLeaves
<1>5. CASE /\ row.state \in Runnable \ {"queued"} /\ UNCHANGED <<row, disk, control>>
           /\ worker' = [worker EXCEPT !.pc = row.state, !.locator = row.locator]
  <2>1. row.state \in Outside /\ row.locator \in Locators \cup {None}
    BY <1>1, <1>5, Fields DEF Runnable, Outside
  <2>2. worker' \in Workers /\ worker'.pc \in Outside /\ worker'.evidence = worker.evidence
    BY <1>1, <1>5, <2>1 DEF TypeInv, Workers
  <2> QED
    BY <1>1, <1>2, <1>5, <2>2, SamePlain DEF Leaves, Outside, TypeInv, control
<1> QED
  BY <1>3, <1>4, <1>5 DEF Turn

(* The library root is lost. *)
LEMMA LoseRootLeaves ==
  ASSUME ImportInv, LoseRoot
  PROVE  Leaves
BY FailLeaves DEF LoseRoot

(* Preflight finds the card, or not, or fails. *)
LEMMA PreflightLeaves ==
  ASSUME ImportInv, Preflight
  PROVE  Leaves
<1>1. TypeInv /\ StateInv
  BY DEF ImportInv
<1>2. up /\ worker.pc = "preflight" /\ UNCHANGED <<command, up, card, source>>
  BY DEF Preflight, At
<1>3. row.state # "waiting"
  BY <1>1, <1>2 DEF StateInv, Told
<1>4. \/ Apply(PreflightPassed(row), "schedule") \/ Apply(SourceUnavailable(row), "cancel_io")
      \/ Apply(RetryableFailure(row), "schedule_retry")
  BY DEF Preflight
<1> QED
  BY <1>1, <1>2, <1>3, <1>4, OpsPlain, ApplyLeaves

-----------------------------------------------------------------------------
(* The phases are entered with the writer lock.                            *)

(* A phase of the job is entered at its first place. *)
LEMMA EnterKept ==
  ASSUME ImportInv, up, writer = None, writer' = "worker", worker' \in Workers,
         UNCHANGED <<row, disk, stop, wake, command, up, card, source>>, budget' \in Limited,
         \/ worker'.pc = "preflight" /\ row.state = "preflighting"
         \/ worker'.pc = "resolve" /\ row.state = "copying" /\ worker'.locator \in Locators
         \/ worker'.pc = "verify" /\ row.state = "verifying"
         \/ worker'.pc = "seal" /\ row.state = "committing",
         \A f \in Files : worker'.evidence[f] \in {worker.evidence[f], row.digest[f]}
  PROVE  ImportInv'
<1>1. TypeInv /\ LockInv /\ StateInv /\ DiskInv /\ TreeInv
  BY DEF ImportInv
<1>2. worker'.pc \in {"preflight", "resolve", "verify", "seal"} /\ worker'.pc \in Inside
  BY DEF Inside, Copying, Sealing
<1>3. TypeInv'
  BY <1>1 DEF TypeInv
<1>4. LockInv'
  <2>1. command.pc \notin Acquiring
    BY <1>1, Basics DEF LockInv
  <2> QED
    BY <1>2, <2>1 DEF LockInv
<1>5. StateInv'
  BY <1>1, <1>2 DEF StateInv, Copying, OneFile, Streaming, Sealing, Told, NoRow, NewRow
<1>6. DiskInv'
  BY <1>1 DEF DiskInv, Whole
<1>7. PassInv'
  BY <1>2 DEF PassInv, OneFile, Streaming
<1>8. TreeInv'
  <2>1. \A l : Copied(l)' = Copied(l)
    BY DEF Copied
  <2>2. \A l \in Locators : Sealed(l) => Sealed(l)'
    <3> SUFFICES ASSUME NEW l \in Locators, Sealed(l) PROVE Sealed(l)'
      OBVIOUS
    <3>1. row.state = "verifying" => \A f \in Files : worker'.evidence[f] \in {<<>>, Copied(l)}
      BY DEF Sealed
    <3> QED
      BY <2>1, <3>1 DEF Sealed
  <2>3. NoDigest' = NoDigest
    BY DEF NoDigest
  <2>4. row'.state = "verifying" \/ ~NoDigest' => \E l \in Locators : Sealed(l)'
    BY <1>1, <2>2, <2>3 DEF TreeInv
  <2>5. worker'.pc \in Sealing => row.state = "committing"
    BY <1>2 DEF Sealing
  <2> QED
    BY <1>1, <1>2, <2>1, <2>3, <2>4, <2>5 DEF TreeInv
<1> QED
  BY <1>3, <1>4, <1>5, <1>6, <1>7, <1>8 DEF ImportInv

(* run_preflight, run_copy, run_verification and run_commit look at the job  *)
(* again once they have the lock.                                            *)
LEMMA EntersKept ==
  ASSUME ImportInv, EnterPreflight \/ EnterCopy \/ EnterVerification \/ EnterCommit,
         budget' \in Limited
  PROVE  ImportInv'
<1>1. TypeInv /\ StateInv
  BY DEF ImportInv
<1>2. up /\ writer = None /\ UNCHANGED <<command, up, card, source>>
  BY DEF EnterPreflight, EnterCopy, EnterVerification, EnterCommit, Enter, At
<1>3. CASE Return
  BY <1>2, <1>3, ReturnLeaves, LeavesKept
<1> DEFINE Entered == writer' = "worker" /\ UNCHANGED <<row, disk, stop, wake, errored>>
<1>4. CASE EnterPreflight /\ ~Return
  <2>1. Entered /\ row.state = "preflighting" /\ Goto("preflight")
    BY <1>4 DEF EnterPreflight, Enter
  <2>2. worker' \in Workers /\ worker'.pc = "preflight" /\ worker'.evidence = worker.evidence
    BY <1>1, <2>1, GotoIs DEF Inside
  <2> QED
    BY <1>2, <2>1, <2>2, EnterKept
<1>5. CASE EnterCopy /\ ~Return
  <2>1. Entered /\ row.state = "copying" /\ row.locator = worker.locator /\ Goto("resolve")
    BY <1>5 DEF EnterCopy, Enter
  <2>2. /\ worker' \in Workers /\ worker'.pc = "resolve" /\ worker'.evidence = worker.evidence
        /\ worker'.locator = worker.locator
    BY <1>1, <2>1, GotoIs DEF Inside, Copying
  <2>3. worker'.locator \in Locators
    BY <1>1, <2>1, <2>2 DEF StateInv
  <2> QED
    BY <1>2, <2>1, <2>2, <2>3, EnterKept
<1>6. CASE EnterVerification /\ ~Return
  <2> DEFINE E == [f \in Files |-> IF row.digest[f] # <<>> THEN row.digest[f] ELSE worker.evidence[f]]
  <2>1. /\ Entered /\ row.state = "verifying"
        /\ worker' = [worker EXCEPT !.pc = "verify", !.file = 1, !.evidence = E]
    BY <1>6 DEF EnterVerification, Enter
  <2>2. E \in [Files -> Chunks] /\ 1 \in 1 .. NFiles + 1
    BY <1>1, Fields, Basics
  <2>3. \A f \in Files : E[f] \in {worker.evidence[f], row.digest[f]}
    OBVIOUS
  <2> HIDE DEF E
  <2>4. worker' \in Workers /\ worker'.pc = "verify" /\ worker'.evidence = E
    BY <1>1, <2>1, <2>2 DEF TypeInv, Workers, Inside
  <2> QED
    BY <1>2, <2>1, <2>3, <2>4, EnterKept
<1>7. CASE EnterCommit /\ ~Return
  <2>1. Entered /\ row.state = "committing" /\ Goto("seal")
    BY <1>7 DEF EnterCommit, Enter
  <2>2. worker' \in Workers /\ worker'.pc = "seal" /\ worker'.evidence = worker.evidence
    BY <1>1, <2>1, GotoIs DEF Inside, Sealing
  <2> QED
    BY <1>2, <2>1, <2>2, EnterKept
<1> QED
  BY <1>3, <1>4, <1>5, <1>6, <1>7

-----------------------------------------------------------------------------
(* The copy.                                                               *)

(* A step inside the copy. *)
Copies ==
    /\ up /\ worker.pc \in Copying /\ worker' \in Workers /\ worker'.pc \in OneFile \cup {"file"}
    /\ worker'.locator = worker.locator
    /\ row' \in Rows /\ row'.state = row.state /\ row'.digest = row.digest
    /\ row'.verified = row.verified /\ row'.locator = row.locator
    /\ \A f \in Files : row'.offset[f] >= row.offset[f]
    /\ disk' \in Disks /\ disk'.published = disk.published
    /\ NoDigest \/ disk'.target = disk.target
    /\ source.signed => \A f \in Files : disk'.target[f] \in {<<>>, Copied(SpecLocator)}
    /\ UNCHANGED <<command, up, card, source, control, budget>>

(* It keeps the invariant when the files and the pass are as they should be. *)
LEMMA CopiesKept ==
  ASSUME ImportInv, Copies, DiskInv', PassInv'
  PROVE  ImportInv'
<1>1. TypeInv /\ LockInv /\ StateInv /\ TreeInv
  BY DEF ImportInv
<1>2. worker'.pc \in Copying /\ worker'.pc \in Inside /\ worker'.pc \notin Sealing
      /\ worker'.pc \notin {"preflight", "verify"}
  BY PlacesDiffer DEF Copies, Copying
<1>3. writer = "worker" /\ row.state \in Told \cup {"copying"}
      /\ worker.locator \in Locators
  BY <1>1, PlacesDiffer DEF Copies, LockInv, StateInv
<1>4. command.pc \notin Acquiring
  BY <1>1, <1>3 DEF LockInv
<1>5. TypeInv'
  BY <1>1 DEF TypeInv, Copies, control
<1>6. LockInv'
  BY <1>1, <1>2, <1>3, <1>4 DEF LockInv, Copies, control
<1>7. StateInv'
  BY <1>1, <1>2, <1>3, <1>4 DEF StateInv, Copies, Told, Acquiring
<1>8. TreeInv'
  <2>1. \A l : Copied(l)' = Copied(l)
    BY DEF Copies, Copied
  <2>2. NoDigest' = NoDigest /\ row.state # "verifying"
    BY <1>3 DEF NoDigest, Copies, Told
  <2>3. ~NoDigest => \E l \in Locators : Sealed(l)'
    <3> SUFFICES ASSUME ~NoDigest PROVE \E l \in Locators : Sealed(l)'
      OBVIOUS
    <3>1. PICK l \in Locators : Sealed(l)
      BY <1>1 DEF TreeInv
    <3>2. \A f \in Files : row'.offset[f] = Size
      <4> SUFFICES ASSUME NEW f \in Files PROVE row'.offset[f] = Size
        OBVIOUS
      <4>1. row'.offset[f] \in 0 .. Size /\ row.offset[f] = Size /\ row'.offset[f] >= row.offset[f]
        BY <3>1 DEF Copies, Rows, Sealed
      <4> QED
        BY <4>1, Basics
    <3>3. \A f \in Files : row'.digest[f] \in {<<>>, Copied(l)}
      BY <3>1 DEF Copies, Sealed
    <3>4. \/ \A f \in Files : disk'.target[f] = Copied(l)
          \/ \A f \in Files : disk'.published[f] = Copied(l)
      BY <3>1 DEF Copies, Sealed
    <3> QED
      BY <2>1, <2>2, <3>2, <3>3, <3>4 DEF Sealed, Copies
  <2>4. command'.pc # "discard"
    BY <1>4 DEF Copies, Acquiring
  <2>5. /\ row'.state \notin {"committing", "local_verified", "verifying"}
        /\ worker'.pc \notin {"commit", "publish"}
    BY <1>2, <1>3 DEF Copies, Told, Sealing
  <2>6. row'.verified => \A f \in Files : row'.digest[f] # <<>>
    BY <1>1 DEF TreeInv, Copies
  <2>7. disk'.published # Nothing =>
          row'.verified /\ \E l \in Locators : \A f \in Files : disk'.published[f] = Copied(l)
    BY <1>1 DEF TreeInv, Copies
  <2>8. source'.signed => \A f \in Files : disk'.target[f] \in {<<>>, Copied(SpecLocator)}
    BY DEF Copies
  <2> QED
    BY <1>2, <2>1, <2>2, <2>3, <2>4, <2>5, <2>6, <2>7, <2>8 DEF TreeInv
<1> QED
  BY <1>5, <1>6, <1>7, <1>8 DEF ImportInv

(* The files the copy is done with stay. *)
LEMMA BehindKept ==
  ASSUME ImportInv, Copies, worker.pc \in OneFile \cup {"file"}, worker'.file = worker.file,
         worker'.evidence = worker.evidence,
         \A f \in Files : f < worker.file => disk'.target[f] = disk.target[f]
  PROVE  Behind'
<1>1. Behind /\ Origin' = Origin
  BY DEF ImportInv, PassInv, Copies, Origin
<1>2. Copied(Origin)' = Copied(Origin)
  BY <1>1 DEF Copied, Copies
<1> QED
  BY <1>1, <1>2 DEF Behind, Copies

(* The next file, when the present one is staged and its digest is known. *)
LEMMA NextFileIs ==
  ASSUME TypeInv, worker.pc \in OneFile \cup {"file"}, current \in Files, NEW d \in Chunks,
         NextFile(d)
  PROVE  /\ worker' \in Workers /\ worker'.pc = "file" /\ worker'.locator = worker.locator
         /\ worker'.file = current + 1 /\ worker'.evidence[current] = d
         /\ \A f \in Files : f # current => worker'.evidence[f] = worker.evidence[f]
<1>1. worker'.evidence = [worker.evidence EXCEPT ![current] = d]
  BY DEF NextFile, TypeInv, Workers
<1>2. worker.evidence \in [Files -> Chunks] /\ current + 1 \in 1 .. NFiles + 1
  BY Fields, Basics DEF Files
<1>3. worker'.evidence \in [Files -> Chunks]
  BY <1>1, <1>2
<1>4. worker' = [worker EXCEPT !.pc = "file", !.file = current + 1, !.evidence = worker'.evidence]
  BY <1>1 DEF NextFile, TypeInv, Workers, current
<1>5. /\ worker' \in Workers /\ worker'.pc = "file" /\ worker'.locator = worker.locator
      /\ worker'.file = current + 1
  BY <1>2, <1>3, <1>4 DEF TypeInv, Workers, Inside, Copying
<1> QED
  BY <1>1, <1>2, <1>5

(* After it the pass is as it should be. *)
LEMMA NextFileKept ==
  ASSUME ImportInv, Copies, worker.pc \in OneFile \cup {"file"}, current \in Files,
         NEW d \in Chunks, NextFile(d), disk'.target = disk.target,
         \/ row.digest[current] # <<>> /\ d = row.digest[current]
         \/ row.digest[current] = <<>> /\ d = Copied(Origin) /\ Target = Copied(Origin)
  PROVE  PassInv'
<1>1. TypeInv /\ Behind
  BY DEF ImportInv, PassInv
<1>2. Origin' = Origin
  BY DEF Copies, Origin
<1>3. Copied(Origin)' = Copied(Origin)
  BY <1>2 DEF Copied, Copies
<1>4. /\ worker'.pc = "file" /\ worker'.file = current + 1 /\ worker'.evidence[current] = d
      /\ \A f \in Files : f # current => worker'.evidence[f] = worker.evidence[f]
  BY <1>1, NextFileIs
<1>5. \A f \in Files : f < current + 1 => f = current \/ f < current
  BY Basics
<1>6. row'.digest = row.digest
  BY DEF Copies
<1>7. Behind'
  <2> SUFFICES ASSUME NEW f \in Files, f < current + 1
               PROVE  \/ row.digest[f] # <<>> /\ worker'.evidence[f] = row.digest[f]
                      \/ /\ row.digest[f] = <<>> /\ worker'.evidence[f] = Copied(Origin)
                         /\ disk.target[f] = Copied(Origin)
    BY <1>3, <1>4, <1>6 DEF Behind
  <2>1. CASE f = current
    BY <1>4, <2>1 DEF Target
  <2>2. CASE f # current
    BY <1>1, <1>4, <1>5, <2>2 DEF Behind, current
  <2> QED
    BY <2>1, <2>2
<1> QED
  BY <1>4, <1>7 DEF PassInv, OneFile, Streaming

(* The ways out of the copy: the card is gone, a step fails. *)
LEMMA CopyLeaves ==
  ASSUME ImportInv, up, worker.pc \in Copying, UNCHANGED <<command, up, card, source>>,
         \/ Return \/ Apply(SourceUnavailable(row), "cancel_io")
         \/ Apply(RetryableFailure(row), "schedule_retry")
         \/ Apply(PermanentFailure(row), "cancel_io")
  PROVE  Leaves
<1>1. TypeInv /\ StateInv
  BY DEF ImportInv
<1>2. row.state # "waiting"
  BY <1>1 DEF StateInv, Told
<1> QED
  BY <1>1, <1>2, OpsPlain, ApplyLeaves, ReturnLeaves, PermanentLeaves

(* While a file is being copied: what the types and the pass say. *)
LEMMA CopyingIs ==
  ASSUME ImportInv, worker.pc \in Copying
  PROVE  /\ TypeInv /\ row \in Rows /\ disk \in Disks /\ worker.locator \in Locators
         /\ Origin \in Locators /\ row.state # "verifying"
         /\ worker.pc \in OneFile => FileInv /\ current \in Files
         /\ source.signed => \A f \in Files : disk.target[f] \in {<<>>, Copied(SpecLocator)}
<1>1. TypeInv /\ StateInv /\ PassInv /\ TreeInv
  BY DEF ImportInv
<1>2. worker.locator \in Locators /\ row.state # "verifying"
  BY <1>1 DEF StateInv, Told
<1>3. worker.pc \in OneFile => FileInv /\ current \in Files
  BY <1>1 DEF PassInv, FileInv, current
<1> QED
  BY <1>1, <1>2, <1>3, Basics DEF TypeInv, Origin, TreeInv

(* A step that leaves row and files alone. *)
LEMMA MovesCopies ==
  ASSUME ImportInv, up, worker.pc \in Copying, worker' \in Workers,
         worker'.pc \in OneFile \cup {"file"}, worker'.locator = worker.locator,
         UNCHANGED <<row, disk, command, up, card, source, control, budget>>
  PROVE  Copies /\ DiskInv'
<1>1. row.offset \in [Files -> 0 .. Size]
  BY CopyingIs, Fields
<1>2. \A f \in Files : row.offset[f] >= row.offset[f]
  BY <1>1, Basics
<1>3. DiskInv
  BY DEF ImportInv
<1> QED
  BY <1>2, <1>3, CopyingIs DEF Copies, DiskInv, Whole

(* The card is there: the copy begins with its first file. *)
LEMMA ResolveKept ==
  ASSUME ImportInv, Resolve, budget' \in Limited
  PROVE  ImportInv'
<1>1. up /\ worker.pc = "resolve" /\ worker.pc \in Copying /\ UNCHANGED <<command, up, card, source, budget>>
  BY DEF Resolve, At, Copying
<1>2. CASE Apply(SourceUnavailable(row), "cancel_io")
  BY <1>1, <1>2, CopyLeaves, LeavesKept
<1>3. CASE /\ worker' = [worker EXCEPT !.pc = "file", !.file = 1, !.evidence = Nothing]
           /\ UNCHANGED <<row, disk, control>>
  <2>1. 1 \in 1 .. NFiles + 1 /\ worker \in Workers
    BY <1>1, CopyingIs, Basics DEF TypeInv
  <2>2. /\ worker' \in Workers /\ worker'.pc = "file" /\ worker'.locator = worker.locator
        /\ worker'.file = 1
    BY <1>3, <2>1, NothingIs DEF Workers, Inside, Copying
  <2>3. Copies /\ DiskInv'
    BY <1>1, <1>3, <2>2, MovesCopies
  <2>4. \A f \in Files : ~(f < 1)
    BY DEF Files
  <2>5. PassInv'
    BY <2>2, <2>4 DEF PassInv, OneFile, Streaming, Behind
  <2> QED
    BY <2>3, <2>5, CopiesKept
<1> QED
  BY <1>2, <1>3 DEF Resolve

(* The last file is done: the staged tree is one card's. *)
LEMMA FinishedKept ==
  ASSUME ImportInv, up, worker.pc = "file", current > NFiles, Apply(CopyFinished(row), "schedule"),
         UNCHANGED <<command, up, card, source>>, budget' \in Limited
  PROVE  ImportInv'
<1>1. /\ TypeInv /\ StateInv /\ LockInv /\ DiskInv /\ TreeInv /\ Behind /\ worker.pc \in Copying
      /\ worker.pc \in Inside /\ worker.pc \notin Sealing
  BY DEF ImportInv, PassInv, Copying, Inside, Sealing
<1>2. CASE ~(row.state = "copying" /\ \A f \in Files : row.offset[f] = Size)
  <2>1. CopyFinished(row) = row
    BY <1>2 DEF CopyFinished, If
  <2> QED
    BY <1>1, <2>1, SamePlain, ApplyLeaves, LeavesKept
<1>3. CASE row.state = "copying" /\ \A f \in Files : row.offset[f] = Size
  <2>1. CopyFinished(row) = [row EXCEPT !.state = "verifying"]
    BY <1>3 DEF CopyFinished, If
  <2> DEFINE n == [row EXCEPT !.state = "verifying"]
  <2>2. /\ n \in Rows /\ n.state = "verifying" /\ n.offset = row.offset /\ n.digest = row.digest
        /\ n.verified = row.verified
    BY <1>1 DEF TypeInv, Rows, States, Runnable
  <2>3. n # row
    BY <1>3, <2>2
  <2> HIDE DEF n
  <2>4. /\ row' = n /\ UNCHANGED <<disk, stop, writer, wake>>
        /\ worker' = [worker EXCEPT !.pc = "effects", !.effects = "schedule"]
    BY <2>1, <2>2, <2>3 DEF Apply, CompareAndSwap, n
  <2>5. worker' \in Workers /\ worker'.pc = "effects" /\ worker'.evidence = worker.evidence
    BY <1>1, <2>4 DEF TypeInv, Workers, Outside
  <2>6. TypeInv'
    BY <1>1, <2>2, <2>4, <2>5 DEF TypeInv
  <2>7. writer = "worker" /\ command.pc \notin Acquiring
    BY <1>1 DEF LockInv
  <2>8. LockInv'
    BY <1>1, <2>4, <2>5, <2>7 DEF LockInv, Inside, Copying, OneFile, Streaming, Sealing
  <2>9. StateInv'
    BY <1>1, <2>2, <2>4, <2>5, <2>7 DEF StateInv, Copying, OneFile, Streaming, Sealing, Acquiring
  <2>10. DiskInv'
    BY <1>1, <2>2, <2>4 DEF DiskInv, Whole
  <2>11. PassInv'
    BY <2>5 DEF PassInv, OneFile, Streaming
  <2>12. \A f \in Files : f < worker.file
    BY <1>1, Fields, Basics DEF current, Files
  <2>13. \A l : Copied(l)' = Copied(l)
    BY DEF Copied
  <2>14. \E l \in Locators : Sealed(l)'
    <3>1. CASE NoDigest
      <4>1. \A f \in Files : worker.evidence[f] = Copied(Origin) /\ disk.target[f] = Copied(Origin)
        BY <1>1, <2>12, <3>1 DEF Behind, NoDigest
      <4>2. \A f \in Files : row'.offset[f] = Size /\ row'.digest[f] \in {<<>>, Copied(Origin)}
        BY <1>3, <2>2, <2>4, <3>1 DEF NoDigest
      <4>3. Origin \in Locators
        BY <1>1, CopyingIs
      <4>4. PICK l \in Locators : l = Origin
        BY <4>3
      <4>5. Sealed(l)'
        BY <2>4, <2>5, <2>13, <4>1, <4>2, <4>4 DEF Sealed
      <4> QED
        BY <4>5
    <3>2. CASE ~NoDigest
      <4>1. PICK l \in Locators : Sealed(l)
        BY <1>1, <3>2 DEF TreeInv
      <4>2. \A f \in Files : worker.evidence[f] = Copied(l)
        <5> SUFFICES ASSUME NEW f \in Files PROVE worker.evidence[f] = Copied(l)
          OBVIOUS
        <5>1. CASE row.digest[f] # <<>>
          BY <1>1, <2>12, <4>1, <5>1 DEF Behind, Sealed
        <5>2. CASE row.digest[f] = <<>>
          <6>1. worker.evidence[f] = disk.target[f]
            BY <1>1, <2>12, <5>2 DEF Behind
          <6>2. disk.published = Nothing
            BY <1>1, <5>2 DEF TreeInv
          <6>3. disk.target[f] = Copied(l)
            BY <1>1, <4>1, <6>2, CopiedIs, NothingIs DEF Sealed
          <6> QED
            BY <6>1, <6>3
        <5> QED
          BY <5>1, <5>2
      <4> QED
        BY <2>2, <2>4, <2>5, <2>13, <4>1, <4>2 DEF Sealed
    <3> QED
      BY <3>1, <3>2
  <2>15. TreeInv'
    <3>1. NoDigest' = NoDigest
      BY <2>2, <2>4 DEF NoDigest
    <3> QED
      BY <1>1, <2>2, <2>4, <2>5, <2>7, <2>13, <2>14, <3>1 DEF TreeInv, Sealing, Acquiring
  <2> QED
    BY <2>6, <2>8, <2>9, <2>10, <2>11, <2>15 DEF ImportInv
<1> QED
  BY <1>2, <1>3

(* Assignments to one file. *)
LEMMA PartSet ==
  ASSUME TypeInv, current \in Files, NEW s \in Chunks, disk' = [disk EXCEPT !.part[current] = s]
  PROVE  /\ disk' \in Disks /\ disk'.part[current] = s
         /\ \A f \in Files : f # current => disk'.part[f] = disk.part[f]
         /\ disk'.journal = disk.journal /\ disk'.target = disk.target
         /\ disk'.published = disk.published
<1>1. disk'.part = [disk.part EXCEPT ![current] = s] /\ disk.part \in [Files -> Chunks]
  BY DEF TypeInv, Disks
<1>2. disk'.part \in [Files -> Chunks]
  BY <1>1
<1>3. disk' = [disk EXCEPT !.part = disk'.part]
  BY <1>1 DEF TypeInv, Disks
<1> QED
  BY <1>1, <1>2, <1>3 DEF TypeInv, Disks

(* Likewise. *)
LEMMA JournalSet ==
  ASSUME TypeInv, current \in Files, NEW n \in 0 .. Size, disk' = [disk EXCEPT !.journal[current] = n]
  PROVE  /\ disk' \in Disks /\ disk'.journal[current] = n
         /\ \A f \in Files : f # current => disk'.journal[f] = disk.journal[f]
         /\ disk'.part = disk.part /\ disk'.target = disk.target
         /\ disk'.published = disk.published
<1>1. disk'.journal = [disk.journal EXCEPT ![current] = n] /\ disk.journal \in [Files -> 0 .. Size]
  BY DEF TypeInv, Disks
<1>2. disk'.journal \in [Files -> 0 .. Size]
  BY <1>1
<1>3. disk' = [disk EXCEPT !.journal = disk'.journal]
  BY <1>1 DEF TypeInv, Disks
<1> QED
  BY <1>1, <1>2, <1>3 DEF TypeInv, Disks

(* Likewise. *)
LEMMA TargetSet ==
  ASSUME TypeInv, current \in Files, NEW s \in Chunks, NEW t \in Chunks,
         disk' = [disk EXCEPT !.target[current] = t, !.part[current] = s]
  PROVE  /\ disk' \in Disks /\ disk'.part[current] = s /\ disk'.target[current] = t
         /\ \A f \in Files : f # current => /\ disk'.part[f] = disk.part[f]
                                            /\ disk'.target[f] = disk.target[f]
         /\ disk'.journal = disk.journal /\ disk'.published = disk.published
<1>1. /\ disk'.part = [disk.part EXCEPT ![current] = s] /\ disk.part \in [Files -> Chunks]
      /\ disk'.target = [disk.target EXCEPT ![current] = t] /\ disk.target \in [Files -> Chunks]
  BY DEF TypeInv, Disks
<1>2. disk'.part \in [Files -> Chunks] /\ disk'.target \in [Files -> Chunks]
  BY <1>1
<1>3. disk' = [disk EXCEPT !.target = disk'.target, !.part = disk'.part]
  BY <1>1 DEF TypeInv, Disks
<1> QED
  BY <1>1, <1>2, <1>3 DEF TypeInv, Disks

(* The beginning of a file. *)
LEMMA CutIs ==
  ASSUME NEW s \in Chunks, NEW n \in Nat, n <= Len(s)
  PROVE  /\ SubSeq(s, 1, n) \in Chunks /\ Len(SubSeq(s, 1, n)) = n
         /\ \A i \in 1 .. n : SubSeq(s, 1, n)[i] = s[i]
<1>1. \A i \in 1 .. n : s[i] \in {0, 1}
  BY ElementOfSeq, LenProperties DEF Chunks
<1>2. /\ SubSeq(s, 1, n) \in Seq({0, 1}) /\ Len(SubSeq(s, 1, n)) = IF 1 <= n THEN n - 1 + 1 ELSE 0
      /\ \A i \in 1 .. n - 1 + 1 : SubSeq(s, 1, n)[i] = s[1 + i - 1]
  BY <1>1, SubSeqProperties
<1>3. n - 1 + 1 = n /\ \A i \in 1 .. n : 1 + i - 1 = i
  OBVIOUS
<1> QED
  BY <1>2, <1>3 DEF Chunks

(* What a partial file resumes after is not more than is there. *)
LEMMA DurableIs ==
  ASSUME TypeInv, current \in Files
  PROVE  /\ Part \in Chunks /\ Durable \in Nat /\ Durable <= Len(Part)
         /\ row.offset[current] <= disk.journal[current] /\ row.offset[current] <= Len(Part) =>
              Durable = row.offset[current]
<1>1. Part \in Chunks
  BY Fields DEF Part
<1>2. Len(Part) \in Nat
  BY <1>1, LenProperties DEF Chunks
<1>3. row.offset[current] \in Nat /\ disk.journal[current] \in Nat
  BY Fields, Basics
<1> QED
  BY <1>1, <1>2, <1>3 DEF Durable

(* copy_one_file: a staged target of no use is given up, which can only be   *)
(* while there is no digest.                                                 *)
LEMMA GivesUpKept ==
  ASSUME ImportInv, up, worker.pc = "file", current \in Files, row.digest[current] = <<>>,
         ~(source.signed /\ Target = Copied(SpecLocator)),
         ~(~source.signed /\ Target # <<>> /\ row.offset[current] # 0),
         disk' = [disk EXCEPT !.target[current] = <<>>, !.part[current] = SubSeq(@, 1, Durable)],
         Goto("prefix"), UNCHANGED <<row, control, command, up, card, source, budget>>
  PROVE  ImportInv'
<1>1. /\ TypeInv /\ worker.pc \in Copying /\ DiskInv /\ TreeInv /\ worker.pc \in OneFile \cup {"file"}
  BY DEF ImportInv, Copying
<1> DEFINE s == SubSeq(Part, 1, Durable)
<1>2. s \in Chunks /\ Len(s) = Durable /\ Durable <= Len(Part) /\ Durable \in Nat
  BY <1>1, DurableIs, CutIs
<1>3. disk' = [disk EXCEPT !.target[current] = <<>>, !.part[current] = s]
  BY <1>1 DEF Part, TypeInv, Disks
<1> HIDE DEF s
<1>4. <<>> \in Chunks
  BY EmptySeq DEF Chunks
<1>5. /\ disk' \in Disks /\ disk'.part[current] = s /\ disk'.target[current] = <<>>
      /\ \A f \in Files : f # current => /\ disk'.part[f] = disk.part[f]
                                         /\ disk'.target[f] = disk.target[f]
      /\ disk'.journal = disk.journal /\ disk'.published = disk.published
  BY <1>1, <1>2, <1>3, <1>4, TargetSet
<1>6. disk.published = Nothing /\ disk.published[current] = <<>>
  BY <1>1, NothingIs DEF TreeInv
<1>7. Target = <<>> \/ row.offset[current] = 0
  BY <1>1 DEF TreeInv, Target
<1>8. NoDigest
  <2> SUFFICES ASSUME ~NoDigest PROVE FALSE
    OBVIOUS
  <2>1. PICK l \in Locators : Sealed(l)
    BY <1>1 DEF TreeInv
  <2>2. Copied(l) # <<>>
    BY <1>1, CopiedIs
  <2>3. Target = Copied(l) /\ row.offset[current] = Size
    BY <1>6, <2>1, <2>2 DEF Sealed, Target
  <2> QED
    BY <1>7, <2>2, <2>3, Basics
<1>9. row.offset[current] <= disk.journal[current] /\ row.offset[current] <= Len(s)
  <2>1. CASE row.offset[current] = 0
    BY <1>1, <1>2, <2>1, Fields, Basics
  <2>2. CASE Target = <<>>
    BY <1>1, <1>2, <1>6, <2>2, DurableIs DEF DiskInv, Target, Part
  <2> QED
    BY <1>7, <2>1, <2>2
<1>10. /\ worker' \in Workers /\ worker'.pc = "prefix" /\ worker'.locator = worker.locator
       /\ worker'.file = worker.file /\ worker'.evidence = worker.evidence
  BY <1>1, GotoIs DEF Inside, Copying, OneFile, Streaming
<1>11. \A f \in Files : row.offset[f] >= row.offset[f]
  BY <1>1, Fields, Basics
<1>12. source.signed => \A f \in Files : disk'.target[f] \in {<<>>, Copied(SpecLocator)}
  BY <1>1, <1>5, CopyingIs
<1>13. Copies
  BY <1>1, <1>5, <1>8, <1>10, <1>11, <1>12 DEF Copies, OneFile, Streaming, TypeInv
<1>14. DiskInv'
  <2> SUFFICES ASSUME NEW f \in Files
               PROVE  /\ Len(disk'.part[f]) <= Size /\ Whole(disk'.target[f]) /\ Whole(disk'.published[f])
                      /\ \/ row.offset[f] <= disk'.journal[f] /\ row.offset[f] <= Len(disk'.part[f])
                         \/ disk'.target[f] # <<>> \/ disk'.published[f] # <<>>
    BY DEF DiskInv, Whole
  <2>1. CASE f = current
    <3>1. Len(Part) \in Nat /\ Len(Part) <= Size
      BY <1>1, DurableIs, LenProperties DEF DiskInv, Part, Chunks
    <3>2. Durable <= Size
      BY <1>2, <3>1, Basics
    <3> QED
      BY <1>1, <1>2, <1>5, <1>9, <2>1, <3>2 DEF Whole, DiskInv
  <2>2. CASE f # current
    BY <1>1, <1>5, <2>2 DEF DiskInv
  <2> QED
    BY <2>1, <2>2
<1>15. PassInv'
  <2>1. \A f \in Files : f < worker.file => f # current
    BY Basics DEF current
  <2>2. Behind'
    BY <1>1, <1>5, <1>10, <1>13, <2>1, BehindKept
  <2>3. NoDigest'
    BY <1>8 DEF NoDigest
  <2>4. FileInv'
    BY <1>5, <1>6, <1>10, <2>3 DEF FileInv, Streaming, current
  <2> QED
    BY <1>10, <2>2, <2>4 DEF PassInv
<1> QED
  BY <1>13, <1>14, <1>15, CopiesKept

(* The next file of the list. *)
LEMMA FileKept ==
  ASSUME ImportInv, File, budget' \in Limited
  PROVE  ImportInv'
<1>1. /\ up /\ worker.pc = "file" /\ UNCHANGED <<command, up, card, source, budget>>
      /\ worker.pc \in Copying /\ TypeInv /\ worker.pc \in OneFile \cup {"file"}
  BY DEF File, At, Copying, ImportInv
<1>2. CASE current > NFiles
  BY <1>1, <1>2, FinishedKept DEF File
<1>3. CASE ~(current > NFiles) /\ Return
  BY <1>1, <1>3, CopyLeaves, LeavesKept
<1>4. CASE ~(current > NFiles) /\ ~Return
  <2>1. current \in Files /\ UNCHANGED <<row, control>>
    BY <1>1, <1>4, Fields, Basics DEF File, current, Files
  <2>2. CASE row.digest[current] # <<>>
    <3>1. NextFile(row.digest[current]) /\ UNCHANGED disk
      BY <1>4, <2>2 DEF File
    <3>2. row.digest[current] \in Chunks
      BY <1>1, <2>1, Fields
    <3>3. worker' \in Workers /\ worker'.pc = "file" /\ worker'.locator = worker.locator
      BY <1>1, <2>1, <3>1, <3>2, NextFileIs
    <3>4. Copies /\ DiskInv'
      BY <1>1, <2>1, <3>1, <3>3, MovesCopies
    <3>5. PassInv'
      BY <1>1, <2>1, <2>2, <3>1, <3>2, <3>4, NextFileKept
    <3> QED
      BY <3>4, <3>5, CopiesKept
  <2>3. CASE row.digest[current] = <<>>
    <3>1. CopyOneFile
      BY <1>4, <2>3 DEF File
    <3>2. ASSUME NEW pc \in {"known", "rehash"}, Goto(pc), UNCHANGED disk,
                 pc = "known" => source.signed /\ Target = Copied(SpecLocator),
                 pc = "rehash" => ~source.signed /\ Target # <<>>
          PROVE  ImportInv'
      <4>1. /\ worker' \in Workers /\ worker'.pc = pc /\ worker'.locator = worker.locator
            /\ worker'.file = worker.file /\ worker'.evidence = worker.evidence
        BY <1>1, <3>2, GotoIs DEF Inside, Copying, OneFile
      <4>2. Copies /\ DiskInv'
        BY <1>1, <2>1, <3>2, <4>1, MovesCopies DEF OneFile
      <4>3. Behind'
        BY <1>1, <3>2, <4>1, <4>2, BehindKept
      <4>4. disk.published[current] = <<>>
        BY <2>1, <2>3, NothingIs DEF ImportInv, TreeInv
      <4>5. source.signed => Origin' = SpecLocator
        BY <1>1 DEF Origin
      <4>6. FileInv'
        BY <1>1, <2>1, <2>3, <3>2, <4>1, <4>4, <4>5 DEF FileInv, Streaming, current, Target, Copied
      <4> QED
        BY <4>1, <4>2, <4>3, <4>6, CopiesKept DEF PassInv
    <3> QED
      BY <1>1, <2>1, <2>3, <3>1, <3>2, GivesUpKept DEF CopyOneFile
  <2> QED
    BY <2>2, <2>3
<1> QED
  BY <1>2, <1>3, <1>4

(* A step within one file. *)
LEMMA StepKept ==
  ASSUME ImportInv, Copies, worker.pc \in OneFile, worker'.pc \in OneFile,
         worker'.file = worker.file, worker'.evidence = worker.evidence,
         \A f \in Files : f # current => disk'.target[f] = disk.target[f], DiskInv', FileInv'
  PROVE  ImportInv'
<1>1. \A f \in Files : f < worker.file => f # current
  BY Basics DEF current
<1>2. Behind'
  BY <1>1, BehindKept
<1> QED
  BY <1>2, CopiesKept DEF PassInv

(* The digest of a staged target, taken again from the card. *)
LEMMA RehashKept ==
  ASSUME ImportInv, Rehash, budget' \in Limited
  PROVE  ImportInv'
<1>1. /\ up /\ worker.pc = "rehash" /\ UNCHANGED <<command, up, card, source, budget>>
      /\ worker.pc \in Copying /\ worker.pc \in OneFile /\ TypeInv
  BY DEF Rehash, At, Copying, OneFile, ImportInv
<1>2. CASE \/ Return \/ Apply(SourceUnavailable(row), "cancel_io")
           \/ Apply(PermanentFailure(row), "cancel_io")
  BY <1>1, <1>2, CopyLeaves, LeavesKept
<1>3. CASE Target = Copied(worker.locator) /\ Goto("known") /\ UNCHANGED <<row, disk, control>>
  <2>1. /\ worker' \in Workers /\ worker'.pc = "known" /\ worker'.locator = worker.locator
        /\ worker'.file = worker.file /\ worker'.evidence = worker.evidence
    BY <1>1, <1>3, GotoIs DEF Inside, Copying, OneFile
  <2>2. Copies /\ DiskInv'
    BY <1>1, <1>3, <2>1, MovesCopies DEF OneFile
  <2>3. FileInv
    BY <1>1, CopyingIs
  <2>4. Origin' = worker.locator /\ \A l : Copied(l)' = Copied(l)
    BY <1>1, <2>1, <2>3 DEF Origin, FileInv, Copied
  <2>5. FileInv'
    BY <1>1, <1>3, <2>1, <2>3, <2>4 DEF FileInv, Streaming, Target, current
  <2> QED
    BY <1>1, <1>3, <2>1, <2>2, <2>5, StepKept DEF OneFile
<1> QED
  BY <1>2, <1>3 DEF Rehash, Read

(* A checkpoint that is backed. *)
LEMMA CheckpointIs ==
  ASSUME ImportInv, worker.pc \in OneFile, NEW n \in 0 .. Size,
         row' = CopyCheckpoint(row, current, n), UNCHANGED disk,
         (n <= disk.journal[current] /\ n <= Len(Part)) \/ Target # <<>>
  PROVE  /\ row' \in Rows /\ row'.state = row.state /\ row'.digest = row.digest
         /\ row'.verified = row.verified /\ row'.locator = row.locator
         /\ \A f \in Files : row'.offset[f] >= row.offset[f]
         /\ DiskInv'
<1>1. TypeInv /\ DiskInv /\ current \in Files /\ row \in Rows
  BY CopyingIs, PlacesDiffer DEF ImportInv
<1>2. \A f \in Files : row.offset[f] \in 0 .. Size
  BY <1>1, Fields
<1>3. CASE row' = row
  BY <1>1, <1>2, <1>3, Basics DEF DiskInv, Whole
<1>4. CASE row.offset[current] <= n /\ row' = [row EXCEPT !.offset[current] = n]
  <2>1. row'.offset = [row.offset EXCEPT ![current] = n] /\ row.offset \in [Files -> 0 .. Size]
    BY <1>1, <1>4 DEF Rows
  <2>2. row'.offset \in [Files -> 0 .. Size]
    BY <2>1
  <2>3. row' = [row EXCEPT !.offset = row'.offset]
    BY <1>1, <1>4, <2>1 DEF Rows
  <2>4. /\ row' \in Rows /\ row'.state = row.state /\ row'.digest = row.digest
        /\ row'.verified = row.verified /\ row'.locator = row.locator
    BY <1>1, <2>2, <2>3 DEF Rows
  <2>5. \A f \in Files : row'.offset[f] >= row.offset[f]
    BY <1>1, <1>2, <1>4, <2>1, Basics
  <2>6. row'.offset[current] = n /\ \A f \in Files : f # current => row'.offset[f] = row.offset[f]
    BY <1>1, <2>1
  <2>7. DiskInv'
    <3> SUFFICES ASSUME NEW f \in Files
                 PROVE  \/ row'.offset[f] <= disk.journal[f] /\ row'.offset[f] <= Len(disk.part[f])
                        \/ disk.target[f] # <<>> \/ disk.published[f] # <<>>
      BY <1>1 DEF DiskInv, Whole
    <3>1. CASE f = current
      BY <2>6, <3>1 DEF Part, Target
    <3>2. CASE f # current
      BY <1>1, <2>6, <3>2 DEF DiskInv
    <3> QED
      BY <3>1, <3>2
  <2> QED
    BY <2>4, <2>5, <2>7
<1> QED
  BY <1>3, <1>4 DEF CopyCheckpoint, If

(* persist_checkpoint for a target that is known to be right. *)
LEMMA KnownKept ==
  ASSUME ImportInv, Known, budget' \in Limited
  PROVE  ImportInv'
<1>1. /\ up /\ worker.pc = "known" /\ UNCHANGED <<command, up, card, source, budget>>
      /\ worker.pc \in Copying /\ worker.pc \in OneFile /\ TypeInv
  BY DEF Known, At, Copying, OneFile, ImportInv
<1>2. CASE Return
  BY <1>1, <1>2, CopyLeaves, LeavesKept
<1>3. CASE row' = CopyCheckpoint(row, current, Size) /\ NextFile(Target) /\ UNCHANGED <<disk, control>>
  <2>1. FileInv /\ current \in Files /\ Origin \in Locators /\ disk \in Disks
    BY <1>1, CopyingIs
  <2>2. Target = Copied(Origin) /\ row.digest[current] = <<>>
    BY <1>1, <2>1 DEF FileInv, Target, current
  <2>3. Target # <<>> /\ Target \in Chunks
    BY <1>1, <2>1, <2>2, CopiedIs
  <2>4. /\ row' \in Rows /\ row'.state = row.state /\ row'.digest = row.digest
        /\ row'.verified = row.verified /\ row'.locator = row.locator
        /\ \A f \in Files : row'.offset[f] >= row.offset[f]
        /\ DiskInv'
    BY <1>1, <1>3, <2>3, CheckpointIs, Basics
  <2>5. worker' \in Workers /\ worker'.pc = "file" /\ worker'.locator = worker.locator
    BY <1>1, <1>3, <2>1, <2>3, NextFileIs
  <2>6. Copies
    BY <1>1, <1>3, <2>1, <2>4, <2>5, CopyingIs DEF Copies
  <2>7. PassInv'
    BY <1>1, <1>3, <2>1, <2>2, <2>3, <2>6, NextFileKept
  <2> QED
    BY <2>4, <2>6, <2>7, CopiesKept
<1> QED
  BY <1>2, <1>3 DEF Known, PersistCheckpoint

(* persist_checkpoint while the part grows, and when it is full. *)
LEMMA CheckpointsKept ==
  ASSUME ImportInv, Checkpoint \/ FullCheckpoint, budget' \in Limited
  PROVE  ImportInv'
<1> DEFINE n == IF worker.pc = "checkpoint" THEN Len(Part) ELSE Size
           pc == IF worker.pc = "checkpoint" THEN "chunk" ELSE "place"
<1>1. /\ up /\ worker.pc \in {"checkpoint", "full"} /\ UNCHANGED <<command, up, card, source, budget>>
      /\ worker.pc \in Copying /\ worker.pc \in OneFile /\ TypeInv /\ worker.pc \in Streaming \ {"prefix"}
  BY DEF Checkpoint, FullCheckpoint, At, Copying, OneFile, Streaming, ImportInv
<1>2. CASE Return
  BY <1>1, <1>2, CopyLeaves, LeavesKept
<1>3. CASE row' = CopyCheckpoint(row, current, n) /\ Goto(pc) /\ UNCHANGED <<disk, control>>
  <2>1. FileInv /\ current \in Files /\ DiskInv /\ disk \in Disks
    BY <1>1, CopyingIs DEF ImportInv
  <2>2. n \in 0 .. Size /\ n <= disk.journal[current] /\ n <= Len(Part)
    <3>1. Len(Part) \in Nat /\ Len(Part) <= Size
      <4>1. Part \in Chunks
        BY <1>1, <2>1, Fields DEF Part
      <4>2. Len(Part) \in Nat
        BY <4>1, LenProperties DEF Chunks
      <4> QED
        BY <2>1, <4>2 DEF DiskInv, Part
    <3>2. CASE worker.pc = "checkpoint"
      BY <2>1, <3>1, <3>2, Basics DEF FileInv, Part, current
    <3>3. CASE worker.pc = "full"
      BY <2>1, <3>1, <3>3, Basics DEF FileInv, Part, current
    <3> QED
      BY <1>1, <3>2, <3>3
  <2> HIDE DEF n
  <2>3. /\ row' \in Rows /\ row'.state = row.state /\ row'.digest = row.digest
        /\ row'.verified = row.verified /\ row'.locator = row.locator
        /\ \A f \in Files : row'.offset[f] >= row.offset[f]
        /\ DiskInv'
    BY <1>1, <1>3, <2>2, CheckpointIs
  <2>4. pc \in {"chunk", "place"} /\ (pc = "place" => worker.pc = "full")
    BY <1>1
  <2> HIDE DEF pc
  <2>5. /\ worker' \in Workers /\ worker'.pc = pc /\ worker'.locator = worker.locator
        /\ worker'.file = worker.file /\ worker'.evidence = worker.evidence
        /\ worker'.hashed = worker.hashed
    BY <1>1, <1>3, <2>4, GotoIs DEF Inside, Copying, OneFile, Streaming
  <2>6. Copies
    BY <1>1, <1>3, <2>1, <2>3, <2>4, <2>5, CopyingIs DEF Copies, OneFile, Streaming
  <2>7. FileInv'
    <3>1. NoDigest' = NoDigest
      BY <2>3 DEF NoDigest
    <3> QED
      BY <1>1, <1>3, <2>1, <2>3, <2>4, <2>5, <3>1 DEF FileInv, Streaming
  <2> QED
    BY <1>1, <1>3, <2>3, <2>4, <2>5, <2>6, <2>7, StepKept DEF OneFile, Streaming
<1> QED
  BY <1>1, <1>2, <1>3 DEF Checkpoint, FullCheckpoint, PersistCheckpoint, At

(* The part of a file that is there. *)
LEMMA PartIs ==
  ASSUME ImportInv, worker.pc \in OneFile
  PROVE  /\ current \in Files /\ Part \in Chunks /\ Len(Part) \in Nat /\ Len(Part) <= Size
         /\ worker.hashed \in Chunks /\ Len(worker.hashed) \in Nat
<1>1. TypeInv /\ DiskInv /\ current \in Files
  BY CopyingIs, PlacesDiffer DEF ImportInv
<1>2. Part \in Chunks /\ worker.hashed \in Chunks
  BY <1>1, Fields DEF Part
<1>3. Len(Part) \in Nat /\ Len(worker.hashed) \in Nat
  BY <1>2, LenProperties DEF Chunks
<1> QED
  BY <1>1, <1>2, <1>3 DEF DiskInv, Part

(* The part that an earlier run left is hashed from the card of this one. *)
LEMMA PrefixKept ==
  ASSUME ImportInv, Prefix, budget' \in Limited
  PROVE  ImportInv'
<1> DEFINE h == SubSeq(Copied(worker.locator), 1, Len(Part))
<1>1. /\ up /\ worker.pc = "prefix" /\ UNCHANGED <<command, up, card, source, budget>>
      /\ worker.pc \in Copying /\ worker.pc \in OneFile /\ TypeInv
  BY DEF Prefix, At, Copying, OneFile, Streaming, ImportInv
<1>2. CASE Return \/ Apply(SourceUnavailable(row), "cancel_io")
  BY <1>1, <1>2, CopyLeaves, LeavesKept
<1>3. CASE /\ worker' = [worker EXCEPT !.pc = "chunk", !.hashed = h]
           /\ UNCHANGED <<row, disk, control>>
  <2>1. FileInv /\ worker.locator \in Locators
    BY <1>1, CopyingIs
  <2>2. /\ h \in Chunks /\ Len(h) = Len(Part)
        /\ \A i \in 1 .. Len(h) : h[i] = source.bytes[worker.locator]
    <3>1. /\ Copied(worker.locator) \in Chunks /\ Len(Copied(worker.locator)) = Size
          /\ \A i \in 1 .. Size : Copied(worker.locator)[i] = source.bytes[worker.locator]
      BY <1>1, <2>1, CopiedIs
    <3>2. Len(Part) \in Nat /\ Len(Part) <= Size
      BY <1>1, PartIs
    <3>3. h \in Chunks /\ Len(h) = Len(Part) /\ \A i \in 1 .. Len(Part) : h[i] = Copied(worker.locator)[i]
      BY <3>1, <3>2, CutIs
    <3>4. \A i \in 1 .. Len(Part) : i \in 1 .. Size
      BY <3>2, Basics
    <3> QED
      BY <3>1, <3>3, <3>4
  <2> HIDE DEF h
  <2>3. /\ worker' \in Workers /\ worker'.pc = "chunk" /\ worker'.locator = worker.locator
        /\ worker'.file = worker.file /\ worker'.evidence = worker.evidence /\ worker'.hashed = h
    BY <1>1, <1>3, <2>2 DEF TypeInv, Workers, Inside, Copying, OneFile, Streaming
  <2>4. Copies /\ DiskInv'
    BY <1>1, <1>3, <2>3, MovesCopies DEF OneFile, Streaming
  <2>5. FileInv'
    <3>1. NoDigest /\ NoDigest' = NoDigest
      BY <1>1, <1>3, <2>1 DEF FileInv, NoDigest, Streaming
    <3> QED
      BY <1>1, <1>3, <2>1, <2>2, <2>3, <3>1 DEF FileInv, Streaming, Part, current
  <2> QED
    BY <1>1, <1>3, <2>3, <2>4, <2>5, StepKept DEF OneFile, Streaming
<1> QED
  BY <1>2, <1>3 DEF Prefix, Read

(* A chunk longer. *)
LEMMA AppendIs ==
  ASSUME NEW s \in Chunks, NEW b \in {0, 1}
  PROVE  /\ Append(s, b) \in Chunks /\ Len(Append(s, b)) = Len(s) + 1
         /\ \A i \in 1 .. Len(s) : Append(s, b)[i] = s[i]
         /\ Append(s, b)[Len(s) + 1] = b
BY DEF Chunks

(* A chunk of the card is written, hashed but not yet flushed. *)
LEMMA WriteKept ==
  ASSUME ImportInv, up, worker.pc = "chunk", Len(Part) # Size, card = worker.locator,
         disk' = [disk EXCEPT !.part[current] = Append(@, source.bytes[card])],
         worker' = [worker EXCEPT !.pc = "journal", !.hashed = Append(@, source.bytes[card])],
         UNCHANGED <<row, control, command, up, card, source, budget>>
  PROVE  ImportInv'
<1> DEFINE b == source.bytes[worker.locator]
           s == Append(Part, b)
           h == Append(worker.hashed, b)
<1>1. /\ worker.pc \in Copying /\ worker.pc \in OneFile /\ worker.pc \in Streaming \ {"prefix"}
      /\ TypeInv /\ DiskInv
  BY DEF Copying, OneFile, Streaming, ImportInv
<1>2. /\ FileInv /\ worker.locator \in Locators /\ current \in Files
      /\ Part \in Chunks /\ Len(Part) \in Nat /\ Len(Part) <= Size
      /\ worker.hashed \in Chunks /\ Len(worker.hashed) \in Nat
  BY <1>1, CopyingIs, PartIs
<1>3. b \in {0, 1}
  BY <1>1, <1>2, Fields
<1>4. /\ s \in Chunks /\ Len(s) = Len(Part) + 1 /\ h \in Chunks /\ Len(h) = Len(worker.hashed) + 1
      /\ \A i \in 1 .. Len(worker.hashed) : h[i] = worker.hashed[i]
      /\ h[Len(worker.hashed) + 1] = b
  BY <1>2, <1>3, AppendIs
<1>5. disk' = [disk EXCEPT !.part[current] = s]
  BY <1>1 DEF Part, TypeInv, Disks
<1>6. worker' = [worker EXCEPT !.pc = "journal", !.hashed = h]
  OBVIOUS
<1>7. Len(worker.hashed) = Len(Part) /\ \A i \in 1 .. Len(worker.hashed) : worker.hashed[i] = b
  BY <1>1, <1>2 DEF FileInv, Part, current
<1>8. \A i \in 1 .. Len(h) : h[i] = b
  <2> SUFFICES ASSUME NEW i \in 1 .. Len(h) PROVE h[i] = b
    OBVIOUS
  <2>1. i \in 1 .. Len(worker.hashed) \/ i = Len(worker.hashed) + 1
    BY <1>2, <1>4
  <2> QED
    BY <1>4, <1>7, <2>1
<1> HIDE DEF b, s, h
<1>9. /\ disk' \in Disks /\ disk'.part[current] = s
      /\ \A f \in Files : f # current => disk'.part[f] = disk.part[f]
      /\ disk'.journal = disk.journal /\ disk'.target = disk.target
      /\ disk'.published = disk.published
  BY <1>1, <1>2, <1>4, <1>5, PartSet
<1>10. /\ worker' \in Workers /\ worker'.pc = "journal" /\ worker'.locator = worker.locator
       /\ worker'.file = worker.file /\ worker'.evidence = worker.evidence /\ worker'.hashed = h
  BY <1>1, <1>4, <1>6 DEF TypeInv, Workers, Inside, Copying, OneFile, Streaming
<1>11. row.offset[current] <= Len(Part) /\ row.offset[current] <= disk.journal[current]
       /\ row.offset[current] \in Nat
  <2>1. disk.target[current] = <<>> /\ disk.published[current] = <<>>
    BY <1>1, <1>2 DEF FileInv, current
  <2>2. row.offset[current] \in Nat
    BY <1>1, <1>2, Fields, Basics
  <2> QED
    BY <1>1, <1>2, <2>1, <2>2 DEF DiskInv, Part
<1>12. \A f \in Files : row.offset[f] >= row.offset[f]
  BY <1>1, Fields, Basics
<1>13. Copies
  BY <1>1, <1>9, <1>10, <1>12, CopyingIs DEF Copies, OneFile, Streaming
<1>14. Len(s) <= Size /\ row.offset[current] <= Len(s) /\ row.offset[current] < Len(s)
  BY <1>2, <1>4, <1>11, Basics
<1>15. DiskInv'
  <2> SUFFICES ASSUME NEW f \in Files
               PROVE  /\ Len(disk'.part[f]) <= Size
                      /\ \/ row.offset[f] <= disk.journal[f] /\ row.offset[f] <= Len(disk'.part[f])
                         \/ disk.target[f] # <<>> \/ disk.published[f] # <<>>
    BY <1>1, <1>9 DEF DiskInv, Whole
  <2>1. CASE f = current
    BY <1>9, <1>11, <1>14, <2>1
  <2>2. CASE f # current
    BY <1>1, <1>9, <2>2 DEF DiskInv
  <2> QED
    BY <2>1, <2>2
<1>16. FileInv'
  <2>1. NoDigest /\ NoDigest' = NoDigest
    BY <1>1, <1>2 DEF FileInv, NoDigest
  <2>2. Len(h) = Len(s)
    BY <1>4, <1>7
  <2> QED
    BY <1>1, <1>2, <1>8, <1>9, <1>10, <1>14, <2>1, <2>2 DEF FileInv, Streaming, current, b
<1> QED
  BY <1>1, <1>9, <1>10, <1>13, <1>15, <1>16, StepKept DEF OneFile, Streaming

(* The next chunk, or the end of the file. *)
LEMMA ChunkKept ==
  ASSUME ImportInv, Chunk, budget' \in Limited
  PROVE  ImportInv'
<1>1. /\ up /\ worker.pc = "chunk" /\ UNCHANGED <<command, up, card, source>>
      /\ worker.pc \in Copying /\ worker.pc \in OneFile /\ TypeInv
  BY DEF Chunk, At, Copying, OneFile, Streaming, ImportInv
<1>2. CASE \/ Return \/ Apply(SourceUnavailable(row), "cancel_io")
           \/ Apply(RetryableFailure(row), "schedule_retry")
  BY <1>1, <1>2, CopyLeaves, LeavesKept
<1>3. CASE Len(Part) = Size /\ Goto("flush") /\ UNCHANGED <<row, disk, control, budget>>
  <2>1. /\ worker' \in Workers /\ worker'.pc = "flush" /\ worker'.locator = worker.locator
        /\ worker'.file = worker.file /\ worker'.evidence = worker.evidence
        /\ worker'.hashed = worker.hashed
    BY <1>1, <1>3, GotoIs DEF Inside, Copying, OneFile, Streaming
  <2>2. Copies /\ DiskInv'
    BY <1>1, <1>3, <2>1, MovesCopies DEF OneFile, Streaming
  <2>3. FileInv
    BY <1>1, CopyingIs
  <2>4. FileInv'
    <3>1. NoDigest /\ NoDigest' = NoDigest
      BY <1>1, <1>3, <2>3 DEF FileInv, NoDigest, Streaming
    <3> QED
      BY <1>1, <1>3, <2>1, <2>3, <3>1 DEF FileInv, Streaming, Part, current
  <2> QED
    BY <1>1, <1>3, <2>1, <2>2, <2>4, StepKept DEF OneFile, Streaming
<1>4. CASE /\ Len(Part) # Size /\ card = worker.locator
           /\ disk' = [disk EXCEPT !.part[current] = Append(@, source.bytes[card])]
           /\ worker' = [worker EXCEPT !.pc = "journal", !.hashed = Append(@, source.bytes[card])]
           /\ UNCHANGED <<row, control, budget>>
  BY <1>1, <1>4, WriteKept
<1> QED
  BY <1>2, <1>3, <1>4 DEF Chunk, Read

(* The part is flushed and the journal follows. *)
LEMMA AdvanceKept ==
  ASSUME ImportInv, Journal \/ Flush, budget' \in Limited
  PROVE  ImportInv'
<1> DEFINE pc == IF worker.pc = "journal" THEN "checkpoint" ELSE "full"
<1>1. /\ up /\ worker.pc \in {"journal", "flush"} /\ UNCHANGED <<command, up, card, source, budget>>
      /\ worker.pc \in Copying /\ worker.pc \in OneFile /\ worker.pc \in Streaming \ {"prefix"}
      /\ TypeInv /\ DiskInv
  BY DEF Journal, Flush, Advance, At, Copying, OneFile, Streaming, ImportInv
<1>2. CASE Apply(RetryableFailure(row), "schedule_retry")
  BY <1>1, <1>2, CopyLeaves, LeavesKept
<1>3. CASE /\ ~(Len(Part) < disk.journal[current])
           /\ disk' = [disk EXCEPT !.journal[current] = Len(Part)]
           /\ Goto(pc) /\ UNCHANGED <<row, control>>
  <2>1. FileInv /\ current \in Files /\ Len(Part) \in 0 .. Size /\ Len(Part) \in Nat
    BY <1>1, CopyingIs, PartIs, Basics
  <2>2. /\ disk' \in Disks /\ disk'.journal[current] = Len(Part)
        /\ \A f \in Files : f # current => disk'.journal[f] = disk.journal[f]
        /\ disk'.part = disk.part /\ disk'.target = disk.target
        /\ disk'.published = disk.published
    BY <1>1, <1>3, <2>1, JournalSet
  <2>3. pc \in {"checkpoint", "full"} /\ (pc = "full" => worker.pc = "flush")
    BY <1>1
  <2> HIDE DEF pc
  <2>4. /\ worker' \in Workers /\ worker'.pc = pc /\ worker'.locator = worker.locator
        /\ worker'.file = worker.file /\ worker'.evidence = worker.evidence
        /\ worker'.hashed = worker.hashed
    BY <1>1, <1>3, <2>3, GotoIs DEF Inside, Copying, OneFile, Streaming
  <2>5. \A f \in Files : row.offset[f] >= row.offset[f]
    BY <1>1, Fields, Basics
  <2>6. Copies
    BY <1>1, <1>3, <2>2, <2>3, <2>4, <2>5, CopyingIs DEF Copies, OneFile, Streaming
  <2>7. DiskInv'
    <3> SUFFICES ASSUME NEW f \in Files
                 PROVE  \/ row.offset[f] <= disk'.journal[f] /\ row.offset[f] <= Len(disk.part[f])
                        \/ disk.target[f] # <<>> \/ disk.published[f] # <<>>
      BY <1>1, <1>3, <2>2 DEF DiskInv, Whole
    <3>1. CASE f = current
      <4>1. disk.target[f] = <<>> /\ disk.published[f] = <<>>
        BY <1>1, <2>1, <3>1 DEF FileInv, current
      <4> QED
        BY <1>1, <2>2, <3>1, <4>1 DEF DiskInv, Part
    <3>2. CASE f # current
      BY <1>1, <2>2, <3>2 DEF DiskInv
    <3> QED
      BY <3>1, <3>2
  <2>8. FileInv'
    <3>1. NoDigest /\ NoDigest' = NoDigest
      BY <1>1, <1>3, <2>1 DEF FileInv, NoDigest
    <3> QED
      BY <1>1, <1>3, <2>1, <2>2, <2>3, <2>4, <3>1 DEF FileInv, Streaming, Part, current
  <2> QED
    BY <1>1, <2>2, <2>3, <2>4, <2>6, <2>7, <2>8, StepKept DEF OneFile, Streaming
<1> QED
  BY <1>2, <1>3 DEF Journal, Flush, Advance, At

(* The copy takes the target's name: what was read back is what the card had. *)
LEMMA PlaceKept ==
  ASSUME ImportInv, Place, budget' \in Limited
  PROVE  ImportInv'
<1>1. /\ up /\ worker.pc = "place" /\ UNCHANGED <<command, up, card, source, budget>>
      /\ worker.pc \in Copying /\ worker.pc \in OneFile /\ worker.pc \in Streaming \ {"prefix"}
      /\ TypeInv /\ DiskInv
  BY DEF Place, At, Copying, OneFile, Streaming, ImportInv
<1>2. CASE Return \/ Apply(PermanentFailure(row), "cancel_io")
  BY <1>1, <1>2, CopyLeaves, LeavesKept
<1>3. CASE /\ worker.hashed = Part /\ (source.signed => Part = Copied(SpecLocator))
           /\ disk' = [disk EXCEPT !.target[current] = Part, !.part[current] = <<>>]
           /\ Goto("placed") /\ UNCHANGED <<row, control>>
  <2>1. /\ FileInv /\ current \in Files /\ Part \in Chunks /\ worker.locator \in Locators
        /\ <<>> \in Chunks
    BY <1>1, CopyingIs, PartIs, EmptySeq DEF Chunks
  <2>2. /\ Len(Part) = Size /\ disk.published[current] = <<>> /\ row.digest[current] = <<>> /\ NoDigest
        /\ \A i \in 1 .. Len(worker.hashed) : worker.hashed[i] = source.bytes[worker.locator]
    BY <1>1, <2>1 DEF FileInv, Part, current
  <2>3. Part = Copied(worker.locator)
    BY <1>1, <1>3, <2>1, <2>2, WholeIs
  <2>4. Part = Copied(Origin) /\ Part # <<>>
    BY <1>1, <1>3, <2>1, <2>3, CopiedIs DEF Origin
  <2>5. /\ disk' \in Disks /\ disk'.part[current] = <<>> /\ disk'.target[current] = Part
        /\ \A f \in Files : f # current => /\ disk'.part[f] = disk.part[f]
                                           /\ disk'.target[f] = disk.target[f]
        /\ disk'.journal = disk.journal /\ disk'.published = disk.published
    BY <1>1, <1>3, <2>1, TargetSet
  <2>6. /\ worker' \in Workers /\ worker'.pc = "placed" /\ worker'.locator = worker.locator
        /\ worker'.file = worker.file /\ worker'.evidence = worker.evidence
        /\ worker'.hashed = worker.hashed
    BY <1>1, <1>3, GotoIs DEF Inside, Copying, OneFile
  <2>7. \A f \in Files : row.offset[f] >= row.offset[f]
    BY <1>1, Fields, Basics
  <2>8. source.signed => \A f \in Files : disk'.target[f] \in {<<>>, Copied(SpecLocator)}
    BY <1>1, <1>3, <2>5, CopyingIs
  <2>9. Copies
    BY <1>1, <1>3, <2>2, <2>5, <2>6, <2>7, <2>8, CopyingIs DEF Copies, OneFile
  <2>10. DiskInv'
    <3> SUFFICES ASSUME NEW f \in Files
                 PROVE  /\ Len(disk'.part[f]) <= Size /\ Whole(disk'.target[f]) /\ Whole(disk.published[f])
                        /\ \/ row.offset[f] <= disk.journal[f] /\ row.offset[f] <= Len(disk'.part[f])
                           \/ disk'.target[f] # <<>> \/ disk.published[f] # <<>>
      BY <1>3, <2>5 DEF DiskInv, Whole
    <3>1. CASE f = current
      <4>1. Len(<<>>) = 0
        OBVIOUS
      <4> QED
        BY <1>1, <2>2, <2>4, <2>5, <3>1, <4>1, Basics DEF Whole, DiskInv
    <3>2. CASE f # current
      BY <1>1, <2>5, <3>2 DEF DiskInv
    <3> QED
      BY <3>1, <3>2
  <2>11. FileInv'
    <3>1. NoDigest'
      BY <1>3, <2>2 DEF NoDigest
    <3>2. Origin' = Origin
      BY <1>1, <2>6 DEF Origin
    <3>3. Copied(Origin)' = Copied(Origin)
      BY <1>1, <3>2 DEF Copied
    <3> QED
      BY <1>3, <2>1, <2>2, <2>4, <2>5, <2>6, <3>1, <3>3 DEF FileInv, Streaming, current
  <2> QED
    BY <1>1, <2>5, <2>6, <2>9, <2>10, <2>11, StepKept DEF OneFile
<1> QED
  BY <1>2, <1>3 DEF Place

(* Its journal goes. *)
LEMMA PlacedKept ==
  ASSUME ImportInv, Placed, budget' \in Limited
  PROVE  ImportInv'
<1>1. /\ up /\ worker.pc = "placed" /\ UNCHANGED <<row, control, command, up, card, source, budget>>
      /\ worker.pc \in Copying /\ worker.pc \in OneFile /\ TypeInv /\ DiskInv
      /\ disk' = [disk EXCEPT !.journal[current] = 0] /\ NextFile(worker.hashed)
  BY DEF Placed, At, Copying, OneFile, ImportInv
<1>2. /\ FileInv /\ current \in Files /\ worker.hashed \in Chunks /\ Origin \in Locators
  BY <1>1, CopyingIs, PartIs
<1>3. /\ Target = Copied(Origin) /\ worker.hashed = Copied(Origin) /\ row.digest[current] = <<>>
      /\ Target # <<>>
  BY <1>1, <1>2, CopiedIs DEF FileInv, current, Target
<1>4. /\ disk' \in Disks /\ disk'.journal[current] = 0
      /\ \A f \in Files : f # current => disk'.journal[f] = disk.journal[f]
      /\ disk'.part = disk.part /\ disk'.target = disk.target
      /\ disk'.published = disk.published
  BY <1>1, <1>2, JournalSet, Basics
<1>5. worker' \in Workers /\ worker'.pc = "file" /\ worker'.locator = worker.locator
  BY <1>1, <1>2, NextFileIs
<1>6. \A f \in Files : row.offset[f] >= row.offset[f]
  BY <1>1, Fields, Basics
<1>7. Copies
  BY <1>1, <1>4, <1>5, <1>6, CopyingIs DEF Copies
<1>8. DiskInv'
  BY <1>1, <1>3, <1>4 DEF DiskInv, Whole, Target
<1>9. PassInv'
  BY <1>1, <1>2, <1>3, <1>4, <1>7, NextFileKept
<1> QED
  BY <1>7, <1>8, <1>9, CopiesKept

-----------------------------------------------------------------------------
(* Verification and publication.                                           *)

(* A step of these phases that leaves the staged files alone, or publishes   *)
(* them; what the tree is has to be shown.                                   *)
LEMMA SealsKept ==
  ASSUME ImportInv, up, worker.pc \in {"verify"} \cup Sealing, worker' \in Workers,
         worker'.pc = worker.pc \/ (worker.pc \in Sealing /\ worker'.pc \in Sealing),
         row' \in Rows, row'.state = row.state, disk' \in Disks,
         UNCHANGED <<control, command, up, card, source>>, budget' \in Limited,
         DiskInv', TreeInv'
  PROVE  ImportInv'
<1>1. TypeInv /\ LockInv /\ StateInv
  BY DEF ImportInv
<1>2. /\ worker.pc \in Inside /\ worker'.pc \in Inside /\ worker'.pc \notin Copying /\ worker'.pc # "preflight"
      /\ worker'.pc = "verify" => worker.pc = "verify"
      /\ worker'.pc \in Sealing => worker.pc \in Sealing
  BY PlacesDiffer DEF Inside, Sealing, Copying, OneFile, Streaming
<1>3. writer = "worker" /\ command.pc \notin Acquiring
  BY <1>1, <1>2 DEF LockInv
<1>4. row.state \in Told \cup {"verifying", "committing"}
  BY <1>1 DEF StateInv
<1>5. TypeInv'
  BY <1>1 DEF TypeInv, control
<1>6. LockInv'
  BY <1>1, <1>2, <1>3 DEF LockInv, control
<1>7. StateInv'
  BY <1>1, <1>2, <1>3, <1>4 DEF StateInv, Told, Acquiring
<1>8. PassInv'
  BY <1>2 DEF PassInv, Copying
<1> QED
  BY <1>5, <1>6, <1>7, <1>8 DEF ImportInv

(* The phase ends with a job that has all its digests, and is committed only *)
(* with its tree.                                                            *)
LEMMA SettledKept ==
  ASSUME ImportInv, up, worker.pc \in {"verify", "commit"}, NEW n \in Rows,
         NEW e \in {"none", "cancel_io", "schedule", "schedule_retry"}, Apply(n, e),
         n.offset = row.offset, n.digest = row.digest, n.verified,
         \A f \in Files : row.digest[f] # <<>>,
         n.state = "committing" \/ (n.state = "local_verified" /\ disk.published # Nothing),
         UNCHANGED <<command, up, card, source>>, budget' \in Limited
  PROVE  ImportInv'
<1>1. TypeInv /\ LockInv /\ StateInv /\ DiskInv /\ TreeInv /\ worker.pc \in Inside
  BY DEF ImportInv, Inside, Sealing
<1>2. /\ row' = n /\ UNCHANGED <<disk, stop, writer, wake>>
      /\ worker' = [worker EXCEPT !.pc = "effects", !.effects = IF n = row THEN "none" ELSE e]
  BY DEF Apply, CompareAndSwap
<1>3. (IF n = row THEN "none" ELSE e) \in {"none", "cancel_io", "schedule", "schedule_retry"}
  OBVIOUS
<1>4. worker' \in Workers /\ worker'.pc = "effects" /\ worker'.evidence = worker.evidence
  BY <1>1, <1>2, <1>3 DEF TypeInv, Workers, Outside
<1>5. TypeInv'
  BY <1>1, <1>2, <1>4 DEF TypeInv
<1>6. writer = "worker" /\ command.pc \notin Acquiring
  BY <1>1 DEF LockInv
<1>7. LockInv'
  BY <1>1, <1>2, <1>4, <1>6 DEF LockInv, Inside, Copying, OneFile, Streaming, Sealing
<1>8. StateInv'
  BY <1>1, <1>2, <1>4, <1>6 DEF StateInv, Copying, OneFile, Streaming, Sealing, Acquiring
<1>9. DiskInv'
  BY <1>1, <1>2 DEF DiskInv, Whole
<1>10. PassInv'
  BY <1>4 DEF PassInv, OneFile, Streaming
<1>11. TreeInv'
  <2>1. \A l : Copied(l)' = Copied(l)
    BY DEF Copied
  <2>2. ~NoDigest
    BY Basics DEF NoDigest
  <2>3. PICK l \in Locators : Sealed(l)
    BY <1>1, <2>2 DEF TreeInv
  <2>4. Sealed(l)'
    BY <1>2, <2>1, <2>3 DEF Sealed
  <2>5. /\ disk'.published # Nothing =>
             row'.verified /\ \E k \in Locators : \A f \in Files : disk'.published[f] = Copied(k)
        /\ source'.signed => \A f \in Files : disk'.target[f] \in {<<>>, Copied(SpecLocator)}
    BY <1>1, <1>2 DEF TreeInv
  <2>6. /\ row'.state = "local_verified" \/ worker'.pc = "commit" => disk'.published # Nothing
        /\ worker'.pc # "publish" /\ command'.pc # "discard"
    BY <1>2, <1>4, <1>6 DEF Acquiring
  <2> QED
    BY <1>2, <2>1, <2>4, <2>5, <2>6 DEF TreeInv
<1> QED
  BY <1>5, <1>7, <1>8, <1>9, <1>10, <1>11 DEF ImportInv

(* A file's digest becomes durable. *)
LEMMA DigestKept ==
  ASSUME ImportInv, up, worker.pc = "verify", current \in Files, row.state = "verifying",
         NEW d, d = worker.evidence[current], d # <<>>, row.digest[current] = <<>>,
         row' = [row EXCEPT !.digest[current] = d],
         worker' = [worker EXCEPT !.file = @ + 1],
         UNCHANGED <<disk, control, command, up, card, source>>, budget' \in Limited
  PROVE  ImportInv'
<1>1. TypeInv /\ DiskInv /\ TreeInv /\ worker.pc \notin Sealing
  BY DEF ImportInv, Sealing
<1>2. /\ worker' \in Workers /\ worker'.pc = "verify" /\ worker'.evidence = worker.evidence
  <2>1. worker.file + 1 \in 1 .. NFiles + 1
    BY Basics DEF Files, current
  <2> QED
    BY <1>1, <2>1 DEF TypeInv, Workers
<1>3. d \in Chunks
  BY <1>1, Fields
<1>4. /\ row' \in Rows /\ row'.state = row.state /\ row'.offset = row.offset
      /\ row'.verified = row.verified
      /\ row'.digest[current] = d
      /\ \A f \in Files : f # current => row'.digest[f] = row.digest[f]
  BY <1>1, <1>3 DEF TypeInv, Rows
<1>5. DiskInv'
  BY <1>1, <1>4 DEF DiskInv, Whole
<1>6. TreeInv'
  <2>1. \A l : Copied(l)' = Copied(l)
    BY DEF Copied
  <2>2. PICK l \in Locators : Sealed(l)
    BY <1>1 DEF TreeInv
  <2>3. \A f \in Files : row'.digest[f] \in {<<>>, Copied(l)}
    BY <1>4, <2>2 DEF Sealed
  <2>4. Sealed(l)'
    BY <1>2, <1>4, <2>1, <2>2, <2>3 DEF Sealed
  <2>5. ~row.verified /\ ~row'.verified
    BY <1>1, <1>4 DEF TreeInv
  <2>6. disk.published = Nothing
    BY <1>1, <2>5 DEF TreeInv
  <2>7. command.pc # "discard"
    BY DEF ImportInv, StateInv
  <2> QED
    BY <1>1, <1>2, <1>4, <2>1, <2>4, <2>5, <2>6, <2>7 DEF TreeInv
<1> QED
  BY <1>1, <1>2, <1>4, <1>5, <1>6, SealsKept DEF TypeInv

(* run_verification. *)
LEMMA VerifyKept ==
  ASSUME ImportInv, Verify, budget' \in Limited
  PROVE  ImportInv'
<1>1. /\ up /\ worker.pc = "verify" /\ UNCHANGED <<command, up, card, source, budget>>
      /\ TypeInv /\ StateInv /\ DiskInv /\ TreeInv /\ worker.file \in 1 .. NFiles + 1
  BY Fields DEF Verify, At, ImportInv
<1>2. CASE Return
  BY <1>1, <1>2, ReturnLeaves, LeavesKept
<1>3. CASE Apply(RetryableFailure(row), "schedule_retry")
  <2>1. row.state # "waiting"
    BY <1>1 DEF StateInv, Told
  <2> QED
    BY <1>1, <1>3, <2>1, OpsPlain, ApplyLeaves, LeavesKept
<1>4. CASE Apply(VerificationPassed(row), "schedule")
  <2>1. CASE row.state = "verifying" /\ \A f \in Files : row.digest[f] # <<>>
    <3> DEFINE n == [row EXCEPT !.state = "committing", !.verified = TRUE]
    <3>1. VerificationPassed(row) = n
      BY <2>1 DEF VerificationPassed, If
    <3>2. /\ n \in Rows /\ n.state = "committing" /\ n.offset = row.offset /\ n.digest = row.digest
          /\ n.verified
      BY <1>1 DEF TypeInv, Rows, States, Runnable
    <3> HIDE DEF n
    <3> QED
      BY <1>1, <1>4, <2>1, <3>1, <3>2, SettledKept
  <2>2. CASE ~(row.state = "verifying" /\ \A f \in Files : row.digest[f] # <<>>)
    <3>1. VerificationPassed(row) = row
      BY <2>2 DEF VerificationPassed, If
    <3> QED
      BY <1>1, <1>4, <3>1, SamePlain, ApplyLeaves, LeavesKept
  <2> QED
    BY <2>1, <2>2
<1> DEFINE r == IF row.digest[current] # <<>> THEN row
                ELSE FileVerified(row, current, worker.evidence[current])
<1>5. CASE /\ ~(current > NFiles) /\ worker.evidence[current] # <<>> /\ r.state = "verifying"
           /\ row' = r /\ worker' = [worker EXCEPT !.file = @ + 1] /\ UNCHANGED <<disk, control>>
  <2>1. current \in Files
    BY <1>1, <1>5, Basics DEF current, Files
  <2>2. \/ r = row
        \/ /\ row.digest[current] = <<>> /\ row.state = "verifying"
           /\ r = [row EXCEPT !.digest[current] = worker.evidence[current]]
    BY DEF FileVerified, If
  <2>3. CASE r = row
    <3>1. /\ worker' \in Workers /\ worker'.pc = "verify" /\ worker'.evidence = worker.evidence
      <4>1. worker.file + 1 \in 1 .. NFiles + 1
        BY <2>1, Basics DEF Files, current
      <4> QED
        BY <1>1, <1>5, <4>1 DEF TypeInv, Workers
    <3>2. row' = row /\ row' \in Rows /\ disk' \in Disks /\ "verify" \notin Sealing
      BY <1>1, <1>5, <2>3 DEF TypeInv, Sealing
    <3>3. DiskInv'
      BY <1>1, <1>5, <3>2 DEF DiskInv, Whole
    <3>4. TreeInv'
      <4>1. \A l : Copied(l)' = Copied(l)
        BY <1>1 DEF Copied
      <4>2. NoDigest' = NoDigest
        BY <3>2 DEF NoDigest
      <4>3. \A l \in Locators : Sealed(l) => Sealed(l)'
        BY <1>5, <3>1, <3>2, <4>1 DEF Sealed
      <4> QED
        BY <1>1, <1>5, <3>1, <3>2, <4>1, <4>2, <4>3 DEF TreeInv
    <3> QED
      BY <1>1, <1>5, <3>1, <3>2, <3>3, <3>4, SealsKept
  <2>4. CASE /\ row.digest[current] = <<>> /\ row.state = "verifying"
             /\ r = [row EXCEPT !.digest[current] = worker.evidence[current]]
    BY <1>1, <1>5, <2>1, <2>4, DigestKept
  <2> QED
    BY <2>2, <2>3, <2>4
<1> QED
  BY <1>2, <1>3, <1>4, <1>5 DEF Verify

(* seal: a tree that is not what the manifest says ends the run. *)
LEMMA SealKept ==
  ASSUME ImportInv, Seal, budget' \in Limited
  PROVE  ImportInv'
<1>1. /\ up /\ worker.pc = "seal" /\ worker.pc \in Sealing /\ UNCHANGED <<command, up, card, source>>
      /\ TypeInv /\ DiskInv /\ TreeInv
  BY DEF Seal, At, ImportInv, Sealing
<1>2. CASE Fail
  BY <1>1, <1>2, FailLeaves, LeavesKept
<1>3. CASE /\ disk.published # Nothing \/ disk.target = row.digest
           /\ Goto("publish") /\ UNCHANGED <<row, disk, control>>
  <2>1. worker' \in Workers /\ worker'.pc = "publish" /\ worker'.evidence = worker.evidence
        /\ "publish" \in Sealing
    BY <1>1, <1>3, GotoIs DEF Inside, Sealing
  <2>2. row' \in Rows /\ disk' \in Disks /\ row.verified
    BY <1>1, <1>3 DEF TypeInv, TreeInv
  <2>3. DiskInv'
    BY <1>1, <1>3 DEF DiskInv, Whole
  <2>4. TreeInv'
    <3>1. \A l : Copied(l)' = Copied(l)
      BY <1>1 DEF Copied
    <3>2. NoDigest' = NoDigest
      BY <1>3 DEF NoDigest
    <3>3. \A l \in Locators : Sealed(l) => Sealed(l)'
      BY <1>3, <2>1, <3>1 DEF Sealed
    <3> QED
      BY <1>1, <1>3, <2>1, <2>2, <3>1, <3>2, <3>3 DEF TreeInv
  <2> QED
    BY <1>1, <1>3, <2>1, <2>2, <2>3, <2>4, SealsKept
<1> QED
  BY <1>2, <1>3 DEF Seal

(* publish: one rename makes the staged tree the visible one. *)
LEMMA PublishKept ==
  ASSUME ImportInv, Publish, budget' \in Limited
  PROVE  ImportInv'
<1>1. /\ up /\ worker.pc = "publish" /\ worker.pc \in Sealing /\ UNCHANGED <<command, up, card, source>>
      /\ TypeInv /\ DiskInv /\ TreeInv
  BY DEF Publish, At, ImportInv, Sealing
<1>2. CASE Return
  BY <1>1, <1>2, ReturnLeaves, LeavesKept
<1>3. CASE /\ disk' = IF disk.published # Nothing THEN disk ELSE [NoFiles EXCEPT !.published = disk.target]
           /\ Goto("commit") /\ UNCHANGED <<row, control>>
  <2>1. worker' \in Workers /\ worker'.pc = "commit" /\ worker'.evidence = worker.evidence
        /\ "commit" \in Sealing
    BY <1>1, <1>3, GotoIs DEF Inside, Sealing
  <2>2. row' \in Rows /\ row.verified /\ ~NoDigest
    BY <1>1, <1>3, Basics DEF TypeInv, TreeInv, NoDigest
  <2>3. \A l : Copied(l)' = Copied(l)
    BY <1>1 DEF Copied
  <2>4. NoDigest' = NoDigest
    BY <1>3 DEF NoDigest
  <2>5. CASE disk.published # Nothing
    <3>1. disk' = disk /\ disk' \in Disks
      BY <1>1, <1>3, <2>5 DEF TypeInv
    <3>2. DiskInv'
      BY <1>1, <1>3, <3>1 DEF DiskInv, Whole
    <3>3. \A l \in Locators : Sealed(l) => Sealed(l)'
      BY <1>3, <2>1, <2>3, <3>1 DEF Sealed
    <3>4. TreeInv'
      BY <1>1, <1>3, <2>1, <2>2, <2>3, <2>4, <2>5, <3>1, <3>3 DEF TreeInv
    <3> QED
      BY <1>1, <1>3, <2>1, <2>2, <3>1, <3>2, <3>4, SealsKept
  <2>6. CASE disk.published = Nothing
    <3>1. disk' = [NoFiles EXCEPT !.published = disk.target] /\ disk.target \in [Files -> Chunks]
      BY <1>1, <1>3, <2>6, Fields
    <3>2. /\ disk' \in Disks /\ disk'.published = disk.target /\ disk'.part = Nothing
          /\ disk'.target = Nothing
      BY <3>1, NothingIs DEF Disks
    <3>3. PICK l \in Locators : Sealed(l)
      BY <1>1, <2>2 DEF TreeInv
    <3>4. \A f \in Files : disk.target[f] = Copied(l)
      BY <1>1, <2>6, <3>3, NothingIs, CopiedIs, Basics DEF Sealed
    <3>5. \A f \in Files : disk'.published[f] = Copied(l) /\ disk'.published[f] # <<>>
      BY <1>1, <3>2, <3>4, CopiedIs
    <3>6. disk'.published # Nothing
      BY <3>5, NothingIs, Basics
    <3>7. DiskInv'
      <4>1. Len(<<>>) = 0
        OBVIOUS
      <4>2. \A f \in Files : /\ Len(disk'.part[f]) <= Size /\ disk'.target[f] = <<>>
                             /\ Len(disk'.published[f]) = Size
        BY <1>1, <3>2, <3>5, <4>1, CopiedIs, NothingIs, Basics
      <4> QED
        BY <3>5, <4>2 DEF DiskInv, Whole
    <3>8. Sealed(l)'
      BY <1>3, <2>1, <2>3, <3>3, <3>5 DEF Sealed
    <3>9. source'.signed => \A f \in Files : disk'.target[f] \in {<<>>, Copied(SpecLocator)}
      BY <3>2, NothingIs
    <3>10. /\ row.verified => \A f \in Files : row.digest[f] # <<>>
           /\ command.pc # "discard"
      BY <1>1, <2>2 DEF TreeInv
    <3>11. TreeInv'
      BY <1>1, <1>3, <2>1, <2>2, <2>3, <3>5, <3>6, <3>8, <3>9, <3>10 DEF TreeInv
    <3> QED
      BY <1>1, <1>3, <2>1, <2>2, <3>2, <3>7, <3>11, SealsKept
  <2> QED
    BY <2>5, <2>6
<1> QED
  BY <1>2, <1>3 DEF Publish

(* commit: the job is local_verified once its tree is visible. *)
LEMMA CommitKept ==
  ASSUME ImportInv, Commit, budget' \in Limited
  PROVE  ImportInv'
<1>1. /\ up /\ worker.pc = "commit" /\ worker.pc \in Sealing /\ UNCHANGED <<command, up, card, source>>
      /\ TypeInv /\ StateInv /\ TreeInv /\ Apply(CommitSucceeded(row), "none")
  BY DEF Commit, At, ImportInv, Sealing
<1>2. CASE row.state = "committing"
  <2> DEFINE n == [row EXCEPT !.state = "local_verified"]
  <2>1. CommitSucceeded(row) = n
    BY <1>2 DEF CommitSucceeded, If
  <2>2. /\ n \in Rows /\ n.state = "local_verified" /\ n.offset = row.offset /\ n.digest = row.digest
        /\ n.verified = row.verified
    BY <1>1 DEF TypeInv, Rows, States, Terminal
  <2>3. row.verified /\ (\A f \in Files : row.digest[f] # <<>>) /\ disk.published # Nothing
    BY <1>1 DEF TreeInv
  <2> HIDE DEF n
  <2> QED
    BY <1>1, <2>1, <2>2, <2>3, SettledKept
<1>3. CASE row.state # "committing"
  <2>1. CommitSucceeded(row) = row
    BY <1>3 DEF CommitSucceeded, If
  <2> QED
    BY <1>1, <2>1, SamePlain, ApplyLeaves, LeavesKept
<1> QED
  BY <1>2, <1>3

-----------------------------------------------------------------------------
(* The commands.                                                           *)

(* A step of a command, of the card or of the start of the process that      *)
(* leaves the files and the job's progress alone. It changes the job only to *)
(* stop it, or while no phase runs.                                          *)
Commanded ==
    /\ Plain(row') /\ command' \in Commands /\ UNCHANGED <<disk, worker, source>>
    /\ card' \in Locators \cup {None} /\ stop' \in BOOLEAN /\ wake' \in BOOLEAN /\ up' \in BOOLEAN
    /\ up' \/ (~up /\ command' = command)
    /\ row' = row \/ row'.state \in Told \/ worker.pc \notin Inside
    /\ writer' = writer \/ (writer \in {None, "command"} /\ writer' \in {None, "command"})
    /\ command'.pc \in Acquiring <=> writer' = "command"
    /\ command'.pc = "discard" => command.pc = "discard"
    /\ command'.pc \in {"discard", "available"} => row'.state = "waiting" /\ command'.locator \in Locators

(* Such a step keeps the invariant. *)
LEMMA CommandedKept ==
  ASSUME ImportInv, Commanded, budget' \in Limited
  PROVE  ImportInv'
<1>1. TypeInv /\ LockInv /\ StateInv
  BY DEF ImportInv
<1>2. DiskInv' /\ PassInv' /\ TreeInv'
  BY FilesKept DEF Commanded
<1>3. writer' \in {None, "worker", "command"}
  BY <1>1 DEF Commanded, TypeInv
<1>4. TypeInv'
  BY <1>1, <1>3 DEF Commanded, Plain, TypeInv
<1>5. LockInv'
  <2>1. writer = "worker" <=> writer' = "worker"
    BY Basics DEF Commanded
  <2>2. ~up' => worker'.pc = "idle" /\ command'.pc = "idle"
    BY <1>1 DEF LockInv, Commanded
  <2> QED
    BY <1>1, <2>1, <2>2 DEF LockInv, Commanded
<1>6. StateInv'
  <2>1. /\ worker'.pc = worker.pc /\ worker'.locator = worker.locator
        /\ worker.pc \in Copying \cup Sealing \cup {"preflight", "verify"} => worker.pc \in Inside
    BY DEF Commanded, Inside
  <2>2. worker.pc \in Inside => row' = row \/ row'.state \in Told
    BY DEF Commanded
  <2>3. /\ row'.state \in {"preflighting", "copying"} => row'.locator \in Locators
        /\ row'.state = "absent" => row' = NoRow
    BY <1>1 DEF Commanded, Plain, StateInv
  <2>4. /\ worker'.pc = "preflight" => row'.state \in Told \cup {"preflighting"}
        /\ worker'.pc \in Copying => row'.state \in Told \cup {"copying"} /\ worker'.locator \in Locators
        /\ worker'.pc = "verify" => row'.state \in Told \cup {"verifying"}
        /\ worker'.pc \in Sealing => row'.state \in Told \cup {"committing"}
    BY <1>1, <2>1, <2>2 DEF StateInv
  <2> QED
    BY <2>3, <2>4 DEF Commanded, StateInv, NoRow, NewRow
<1> QED
  BY <1>2, <1>4, <1>5, <1>6 DEF ImportInv

(* A job outside of its phases has no worker in one. *)
LEMMA NoPhase ==
  ASSUME ImportInv, row.state \notin Told \cup {"preflighting", "copying", "verifying", "committing"}
  PROVE  worker.pc \notin Inside
BY DEF ImportInv, StateInv, Inside

(* StartImport and Created: the job appears and is started. *)
LEMMA StartCommanded ==
  ASSUME ImportInv, StartImport \/ Created
  PROVE  Commanded
<1>1. TypeInv /\ LockInv /\ StateInv
  BY DEF ImportInv
<1>2. /\ up /\ command.pc \in {"idle", "created"} /\ UNCHANGED <<disk, worker, control, up, card, source>>
      /\ writer # "command"
  BY <1>1 DEF StartImport, Created, Running, LockInv, Acquiring
<1>3. command' \in Commands /\ command'.pc \notin Acquiring
  BY <1>1, IdleIs DEF StartImport, Created, TypeInv, Commands, Acquiring
<1>4. Plain(row') /\ (row' = row \/ worker.pc \notin Inside)
  <2>1. CASE StartImport
    <3>1. row.state = "absent" /\ row = NoRow /\ row' = NewRow
      BY <2>1 DEF StartImport, NoRow, NewRow
    <3>2. /\ NewRow.offset = NoRow.offset /\ NewRow.digest = NoRow.digest
          /\ NewRow.verified = NoRow.verified /\ NewRow.state = "queued"
      BY DEF NewRow, NoRow
    <3>3. NewRow \in Rows
      <4>1. [f \in Files |-> 0] \in [Files -> 0 .. Size]
        BY Basics
      <4> QED
        BY <4>1, NothingIs, Basics DEF NewRow, Rows, States, Runnable
    <3>4. Plain(row')
      BY <3>1, <3>2, <3>3 DEF Plain, PlainStates
    <3> QED
      BY <3>1, <3>4, NoPhase DEF Told
  <2>2. CASE Created
    <3>1. row' = Start(row) /\ Plain(row')
      BY <1>1, <2>2, OpsPlain DEF Created
    <3>2. row' = row \/ row.state = "queued"
      BY <3>1 DEF Start, If
    <3> QED
      BY <3>1, <3>2, NoPhase DEF Told
  <2> QED
    BY <2>1, <2>2
<1> QED
  BY <1>1, <1>2, <1>3, <1>4 DEF Commanded, TypeInv, control, Acquiring

(* A pause or a cancel tells the job; a resume or a retry finds it at rest. *)
LEMMA RequestCommanded ==
  ASSUME ImportInv, NEW name \in Requests, Request(name)
  PROVE  Commanded
<1>1. TypeInv /\ LockInv /\ StateInv
  BY DEF ImportInv
<1>2. /\ up /\ command.pc = "idle" /\ UNCHANGED <<disk, worker, control, up, card, source>>
      /\ writer # "command" /\ Requested(name) # row /\ row' = Requested(name)
  BY <1>1 DEF Request, Running, LockInv, Acquiring
<1>3. command' \in Commands /\ command'.pc \notin Acquiring
  BY <1>1, IdleIs DEF Request, Commands, Acquiring
<1>4. Plain(row') /\ (row'.state \in Told \/ worker.pc \notin Inside)
  <2>1. CASE name \in {"pause", "cancel"}
    <3>1. row' \in {RequestPause(row), RequestCancel(row)} /\ row' # row
      BY <1>2, <2>1 DEF Requested
    <3>2. row'.state \in Told
      BY <1>1, <3>1 DEF RequestPause, RequestCancel, If, Told, TypeInv, Rows
    <3> QED
      BY <1>1, <3>1, <3>2, OpsPlain
  <2>2. CASE name \in {"resume", "retry"}
    <3>1. row' \in {Resume(row), Retry(row)} /\ row' # row
      BY <1>2, <2>2 DEF Requested
    <3>2. row.state \in {"paused", "retry_wait"}
      BY <3>1 DEF Resume, Retry, If
    <3> QED
      BY <1>1, <3>1, <3>2, OpsPlain, NoPhase DEF Told
  <2> QED
    BY <2>1, <2>2 DEF Requests
<1> QED
  BY <1>1, <1>2, <1>3, <1>4 DEF Commanded, TypeInv, control, Acquiring

(* The effects of a command, and the acknowledgement that waits for the lock. *)
LEMMA FinishCommanded ==
  ASSUME ImportInv, CommandEffects \/ Acknowledge
  PROVE  Commanded
<1>1. TypeInv /\ LockInv /\ StateInv
  BY DEF ImportInv
<1>2. /\ up /\ command.pc \in {"effects", "ack"} /\ UNCHANGED <<disk, worker, writer, up, card, source>>
      /\ writer # "command"
  BY <1>1 DEF CommandEffects, Acknowledge, Running, LockInv, Acquiring, control
<1>3. command' \in Commands /\ command'.pc \notin Acquiring
  BY <1>1, IdleIs DEF CommandEffects, Acknowledge, TypeInv, Commands, Acquiring
<1>4. stop' \in BOOLEAN /\ wake' \in BOOLEAN
  BY <1>1 DEF CommandEffects, Acknowledge, TypeInv, control
<1>5. Plain(row') /\ (row' = row \/ worker.pc \notin Inside)
  <2>1. CASE CommandEffects
    BY <1>1, <2>1, SamePlain DEF CommandEffects
  <2>2. CASE Acknowledge
    <3>1. worker.pc \notin Inside
      BY <1>1, <2>2, Basics DEF Acknowledge, LockInv
    <3>2. ~CompareAndSwap(CancellationCompleted(row)) \/ CancellationCompleted(row) = row
      BY <1>1 DEF CompareAndSwap, CancellationCompleted, If, TypeInv, Rows
    <3>3. row' = row \/ row' = PauseCompleted(row)
      BY <2>2, <3>2 DEF Acknowledge
    <3> QED
      BY <1>1, <3>1, <3>3, SamePlain, OpsPlain
  <2> QED
    BY <2>1, <2>2
<1> QED
  BY <1>1, <1>2, <1>3, <1>4, <1>5 DEF Commanded, TypeInv, Acquiring

(* The recording is found again, and the job goes on with it. *)
LEMMA AcquireCommanded ==
  ASSUME ImportInv, Available \/ Activated \/ (SourceFound /\ command'.pc = "available")
  PROVE  Commanded
<1>1. TypeInv /\ LockInv /\ StateInv
  BY DEF ImportInv
<1>2. CASE Available
  <2>1. /\ up /\ command.pc = "available" /\ UNCHANGED <<disk, worker, control, up, card, source>>
        /\ writer = "command" /\ row.state = "waiting" /\ command.locator \in Locators
    BY <1>1, <1>2 DEF Available, Running, LockInv, StateInv, Acquiring
  <2>2. command' \in Commands /\ command'.pc = "activated"
    BY <1>1, <1>2 DEF Available, TypeInv, Commands, Acquiring
  <2>3. Plain(row') /\ worker.pc \notin Inside
    BY <1>1, <1>2, <2>1, OpsPlain, NoPhase DEF Available, Told
  <2> QED
    BY <1>1, <2>1, <2>2, <2>3 DEF Commanded, TypeInv, control, Acquiring
<1>3. CASE Activated
  <2>1. /\ up /\ command.pc = "activated" /\ UNCHANGED <<row, disk, worker, up, card, source>>
        /\ writer = "command" /\ writer' = None /\ stop' = FALSE /\ wake' = TRUE
    BY <1>1, <1>3 DEF Activated, Running, LockInv, Acquiring
  <2>2. command' \in Commands /\ command'.pc = "idle"
    BY <1>3, IdleIs DEF Activated
  <2>3. Plain(row')
    BY <1>1, <2>1, SamePlain
  <2> QED
    BY <1>1, <2>1, <2>2, <2>3, Basics DEF Commanded, TypeInv, Acquiring
<1>4. CASE SourceFound /\ command'.pc = "available"
  <2>1. /\ up /\ UNCHANGED <<row, disk, worker, stop, wake, up, card, source>> /\ row.state = "waiting"
        /\ writer = None /\ writer' = "command" /\ card # None
        /\ command' = [pc |-> "available", name |-> "source", locator |-> card]
    BY <1>4 DEF SourceFound, Running
  <2>2. command' \in Commands /\ command'.locator \in Locators
    BY <1>1, <2>1 DEF Commands, TypeInv, Acquiring
  <2>3. Plain(row')
    BY <1>1, <2>1, SamePlain
  <2> QED
    BY <1>1, <2>1, <2>2, <2>3 DEF Commanded, TypeInv, Acquiring
<1> QED
  BY <1>2, <1>3, <1>4

(* The card moves; the process comes up again. *)
LEMMA OutsideCommanded ==
  ASSUME ImportInv, MoveCard \/ Recover
  PROVE  Commanded
<1>1. TypeInv /\ LockInv /\ StateInv
  BY DEF ImportInv
<1>2. UNCHANGED <<row, disk, worker, command, stop, writer, source>>
  BY DEF MoveCard, Recover, control
<1>3. /\ card' \in Locators \cup {None} /\ wake' \in BOOLEAN /\ up' \in BOOLEAN
      /\ up' \/ ~up
  <2>1. CASE MoveCard
    <3>1. card' \in Locators \cup {None} /\ wake' = wake /\ up' = up
      BY <2>1 DEF MoveCard, control
    <3> QED
      BY <1>1, <3>1 DEF TypeInv
  <2>2. CASE Recover
    BY <1>1, <2>2 DEF Recover, TypeInv
  <2> QED
    BY <2>1, <2>2
<1>4. Plain(row') /\ command' \in Commands /\ stop' \in BOOLEAN
  BY <1>1, <1>2, SamePlain DEF TypeInv
<1>5. /\ command.pc \in Acquiring <=> writer = "command"
      /\ command.pc \in {"discard", "available"} => row.state = "waiting" /\ command.locator \in Locators
  BY <1>1 DEF LockInv, StateInv
<1> QED
  BY <1>2, <1>3, <1>4, <1>5 DEF Commanded

(* Another card: a waiting job without progress, nothing of it visible. *)
LEMMA ClearedKept ==
  ASSUME ImportInv, up, worker.pc \notin Inside, UNCHANGED <<worker, stop, wake, up, card, source>>,
         budget' \in Limited, writer # "worker", writer' = "command", command' \in Commands,
         command'.pc \in {"discard", "available"}, command'.locator \in Locators,
         row' \in Rows, row'.state = "waiting", ~row.verified, row'.verified = FALSE,
         \A f \in Files : row'.offset[f] = 0 /\ row'.digest[f] = <<>>,
         disk' \in Disks, disk'.published = disk.published,
         disk' = disk \/ (disk'.part = Nothing /\ disk'.target = Nothing)
  PROVE  ImportInv'
<1>1. TypeInv /\ LockInv /\ StateInv /\ DiskInv /\ TreeInv
  BY DEF ImportInv
<1>2. /\ worker'.pc \notin Inside /\ worker'.pc # "preflight" /\ worker'.pc \notin Copying
      /\ worker'.pc # "verify" /\ worker'.pc \notin Sealing
  BY DEF Inside
<1>3. TypeInv'
  BY <1>1 DEF TypeInv
<1>4. LockInv'
  BY <1>2 DEF LockInv, Acquiring
<1>5. StateInv'
  BY <1>2 DEF StateInv
<1>6. DiskInv'
  <2> SUFFICES ASSUME NEW f \in Files
               PROVE  /\ Len(disk'.part[f]) <= Size /\ Whole(disk'.target[f]) /\ Whole(disk'.published[f])
                      /\ row'.offset[f] <= disk'.journal[f] /\ row'.offset[f] <= Len(disk'.part[f])
    BY DEF DiskInv, Whole
  <2>1. disk'.journal[f] \in Nat /\ disk'.part[f] \in Chunks /\ Len(<<>>) = 0
    BY Basics DEF Disks
  <2>2. Len(disk'.part[f]) \in Nat
    BY <2>1, LenProperties DEF Chunks
  <2>3. Len(disk'.part[f]) <= Size /\ Whole(disk'.target[f]) /\ Whole(disk'.published[f])
    BY <1>1, <2>1, NothingIs, Basics DEF DiskInv, Whole
  <2> QED
    BY <2>1, <2>2, <2>3
<1>7. PassInv'
  BY <1>2 DEF PassInv, Copying
<1>8. TreeInv'
  <2>1. disk.published = Nothing
    BY <1>1 DEF TreeInv
  <2>2. NoDigest'
    BY DEF NoDigest
  <2>3. \A l : Copied(l)' = Copied(l)
    BY DEF Copied
  <2>4. source'.signed => \A f \in Files : disk'.target[f] \in {<<>>, Copied(SpecLocator)}
    BY <1>1, NothingIs DEF TreeInv
  <2>5. worker'.pc \notin {"commit", "publish"}
    BY <1>2 DEF Sealing
  <2> QED
    BY <1>2, <2>1, <2>2, <2>3, <2>4, <2>5 DEF TreeInv
<1> QED
  BY <1>3, <1>4, <1>5, <1>6, <1>7, <1>8 DEF ImportInv

(* reset_progress_for_source, and the staging that is discarded after it. *)
LEMMA ClearsKept ==
  ASSUME ImportInv, Discard \/ (SourceFound /\ command'.pc # "available"), budget' \in Limited
  PROVE  ImportInv'
<1>1. TypeInv /\ LockInv /\ StateInv /\ DiskInv /\ TreeInv
  BY DEF ImportInv
<1>2. CASE Discard
  <2>1. /\ up /\ command.pc = "discard" /\ UNCHANGED <<row, worker, stop, writer, wake, up, card, source>>
        /\ disk' = [NoFiles EXCEPT !.published = disk.published]
        /\ command' = [command EXCEPT !.pc = "available"]
    BY <1>2 DEF Discard, Running, control
  <2>2. /\ writer = "command" /\ row.state = "waiting" /\ command.locator \in Locators
        /\ NoDigest /\ ~row.verified /\ \A f \in Files : row.offset[f] = 0
    BY <1>1, <2>1 DEF LockInv, StateInv, TreeInv, Acquiring
  <2>3. worker.pc \notin Inside
    BY <2>2, NoPhase DEF Told
  <2>4. command' \in Commands /\ command'.pc = "available" /\ command'.locator = command.locator
    BY <1>1, <2>1 DEF TypeInv, Commands, Acquiring
  <2>5. /\ disk' \in Disks /\ disk'.published = disk.published /\ disk'.part = Nothing
        /\ disk'.target = Nothing
    BY <1>1, <2>1, NothingIs, Fields DEF Disks
  <2>6. row' \in Rows /\ row'.verified = FALSE /\ \A f \in Files : row'.offset[f] = 0 /\ row'.digest[f] = <<>>
    BY <1>1, <2>1, <2>2 DEF TypeInv, Rows, NoDigest
  <2> QED
    BY <2>1, <2>2, <2>3, <2>4, <2>5, <2>6, ClearedKept
<1>3. CASE SourceFound /\ command'.pc # "available"
  <2>1. /\ up /\ row.state = "waiting" /\ writer = None /\ writer' = "command" /\ card # None
        /\ ~row.verified /\ UNCHANGED <<disk, worker, stop, wake, up, card, source>>
        /\ command' = [pc |-> "discard", name |-> "source", locator |-> card]
        /\ row' = ResetProgressForSource(row)
    BY <1>3 DEF SourceFound, Running, LegalReset
  <2> DEFINE z == [f \in Files |-> 0]
  <2>2. row' = [row EXCEPT !.resume = "preflight", !.offset = z, !.digest = Nothing,
                           !.locator = None, !.verified = FALSE]
    BY <2>1 DEF ResetProgressForSource, If
  <2>3. z \in [Files -> 0 .. Size] /\ \A f \in Files : z[f] = 0
    BY Basics
  <2> HIDE DEF z
  <2>4. /\ row' \in Rows /\ row'.state = "waiting" /\ row'.verified = FALSE /\ row'.offset = z
        /\ row'.digest = Nothing
    BY <1>1, <2>1, <2>2, <2>3, NothingIs DEF TypeInv, Rows
  <2>5. command' \in Commands /\ command'.pc = "discard" /\ command'.locator \in Locators
    BY <1>1, <2>1 DEF TypeInv, Commands, Acquiring
  <2>6. worker.pc \notin Inside /\ disk' \in Disks /\ disk' = disk
    BY <1>1, <2>1, Basics DEF LockInv, TypeInv
  <2> QED
    BY <2>1, <2>3, <2>4, <2>5, <2>6, ClearedKept, NothingIs, Basics
<1> QED
  BY <1>2, <1>3

-----------------------------------------------------------------------------
(* The crash.                                                              *)

(* A part that a crash shortens keeps what the checkpoint stands for. *)
LEMMA CutBacked ==
  ASSUME ImportInv, NEW f \in Files, Unflushed(f)
  PROVE  \/ row.offset[f] <= disk.journal[f] /\ row.offset[f] < Len(disk.part[f])
         \/ disk.target[f] # <<>> \/ disk.published[f] # <<>>
<1>1. TypeInv /\ DiskInv /\ PassInv
  BY DEF ImportInv
<1>2. disk.journal[f] \in Nat /\ row.offset[f] \in Nat /\ disk.part[f] \in Chunks
  BY <1>1, Fields, Basics
<1>3. Len(disk.part[f]) \in Nat
  BY <1>2, LenProperties DEF Chunks
<1>4. CASE Len(disk.part[f]) > disk.journal[f]
  BY <1>1, <1>2, <1>3, <1>4 DEF DiskInv
<1>5. CASE worker.pc = "journal" /\ current = f
  <2>1. FileInv
    BY <1>1, <1>5 DEF PassInv, OneFile, Streaming
  <2>2. row.offset[f] < Len(disk.part[f])
    BY <1>5, <2>1 DEF FileInv, current
  <2> QED
    BY <1>1, <1>2, <1>3, <2>2 DEF DiskInv
<1> QED
  BY <1>4, <1>5 DEF Unflushed

(* A crash takes at most what was not flushed, and the threads. *)
LEMMA CrashKept ==
  ASSUME ImportInv, Crash, budget' \in Limited
  PROVE  ImportInv'
<1>1. TypeInv /\ LockInv /\ StateInv /\ DiskInv /\ TreeInv
  BY DEF ImportInv
<1>2. /\ up' = FALSE /\ worker' = Idle /\ command' = NoCommand /\ UNCHANGED <<row, card, source>>
      /\ stop' = FALSE /\ writer' = None /\ wake' = FALSE
  BY DEF Crash
<1>3. /\ disk' \in Disks /\ disk'.journal = disk.journal /\ disk'.target = disk.target
      /\ disk'.published = disk.published
      /\ \A g \in Files : /\ Len(disk'.part[g]) <= Size
                          /\ \/ row.offset[g] <= disk.journal[g] /\ row.offset[g] <= Len(disk'.part[g])
                             \/ disk.target[g] # <<>> \/ disk.published[g] # <<>>
  <2>1. CASE disk' = disk
    BY <1>1, <2>1 DEF TypeInv, DiskInv
  <2>2. CASE disk' # disk
    <3>1. PICK f \in Files : /\ Unflushed(f)
                             /\ disk' = [disk EXCEPT !.part[f] = SubSeq(@, 1, Len(@) - 1)]
      BY <2>2 DEF Crash
    <3> DEFINE s == SubSeq(disk.part[f], 1, Len(disk.part[f]) - 1)
    <3>2. disk' = [disk EXCEPT !.part[f] = s]
      BY <1>1, <3>1 DEF TypeInv, Disks
    <3>3. disk.part[f] \in Chunks /\ disk.journal[f] \in Nat /\ row.offset[f] \in Nat
      BY <1>1, Fields, Basics
    <3>4. Len(disk.part[f]) \in Nat /\ Len(disk.part[f]) <= Size
      BY <1>1, <3>3, LenProperties DEF Chunks, DiskInv
    <3>5. Len(disk.part[f]) >= 1 \/ Len(disk.part[f]) = 0
      BY <3>4
    <3>6. CASE Len(disk.part[f]) >= 1
      <4>1. s \in Chunks /\ Len(s) = Len(disk.part[f]) - 1
        BY <3>3, <3>4, <3>6, SubSeqProperties DEF Chunks
      <4> HIDE DEF s
      <4>2. /\ disk' \in Disks /\ disk'.part[f] = s
            /\ \A g \in Files : g # f => disk'.part[g] = disk.part[g]
            /\ disk'.journal = disk.journal /\ disk'.target = disk.target
            /\ disk'.published = disk.published
        BY <1>1, <3>2, <4>1 DEF TypeInv, Disks
      <4>3. /\ Len(s) <= Size
            /\ \/ row.offset[f] <= disk.journal[f] /\ row.offset[f] <= Len(s)
               \/ disk.target[f] # <<>> \/ disk.published[f] # <<>>
        BY <3>1, <3>3, <3>4, <4>1, CutBacked, Basics
      <4>4. ASSUME NEW g \in Files
            PROVE  /\ Len(disk'.part[g]) <= Size
                   /\ \/ row.offset[g] <= disk.journal[g] /\ row.offset[g] <= Len(disk'.part[g])
                      \/ disk.target[g] # <<>> \/ disk.published[g] # <<>>
        <5>1. CASE g = f
          BY <4>2, <4>3, <5>1
        <5>2. CASE g # f
          BY <1>1, <4>2, <5>2 DEF DiskInv
        <5> QED
          BY <5>1, <5>2
      <4> QED
        BY <4>2, <4>4
    <3>7. CASE Len(disk.part[f]) = 0
      <4>1. FALSE
        <5>1. worker.pc = "journal" /\ current = f
          BY <3>1, <3>3, <3>7 DEF Unflushed
        <5>2. FileInv
          BY <5>1 DEF ImportInv, PassInv, OneFile, Streaming
        <5> QED
          BY <3>3, <3>7, <5>1, <5>2 DEF FileInv, current
      <4> QED
        BY <4>1
    <3> QED
      BY <3>5, <3>6, <3>7
  <2> QED
    BY <2>1, <2>2
<1>4. TypeInv'
  BY <1>1, <1>2, <1>3, IdleIs DEF TypeInv
<1>5. worker'.pc = "idle" /\ command'.pc = "idle" /\ worker'.evidence = Nothing
  BY <1>2, IdleIs
<1>6. LockInv'
  BY <1>2, <1>5, Basics DEF LockInv, Inside, Copying, OneFile, Streaming, Sealing, Acquiring
<1>7. StateInv'
  BY <1>1, <1>2, <1>5 DEF StateInv, Copying, OneFile, Streaming, Sealing, NoRow, NewRow
<1>8. DiskInv'
  BY <1>1, <1>2, <1>3 DEF DiskInv, Whole
<1>9. PassInv'
  BY <1>5 DEF PassInv, OneFile, Streaming
<1>10. TreeInv'
  <2>1. \A l : Copied(l)' = Copied(l)
    BY <1>2 DEF Copied
  <2>2. NoDigest' = NoDigest
    BY <1>2 DEF NoDigest
  <2>3. \A l \in Locators : Sealed(l) => Sealed(l)'
    BY <1>2, <1>3, <1>5, <2>1, NothingIs DEF Sealed
  <2>4. worker'.pc \notin Sealing /\ worker'.pc \notin {"commit", "publish"} /\ command'.pc # "discard"
    BY <1>5 DEF Sealing
  <2> QED
    BY <1>1, <1>2, <1>3, <2>1, <2>2, <2>3, <2>4 DEF TreeInv
<1> QED
  BY <1>4, <1>6, <1>7, <1>8, <1>9, <1>10 DEF ImportInv

-----------------------------------------------------------------------------
(* The invariant.                                                          *)

(* The bounds stay numbers. *)
LEMMA SpendIs ==
  ASSUME budget \in Limited, NEW k \in {"clicks", "moves", "faults", "crashes"}, Spend(k)
  PROVE  budget' \in Limited
<1>1. CASE k = "clicks"
  BY <1>1 DEF Spend, Limited
<1>2. CASE k = "moves"
  BY <1>2 DEF Spend, Limited
<1>3. CASE k = "faults"
  BY <1>3 DEF Spend, Limited
<1>4. CASE k = "crashes"
  BY <1>4 DEF Spend, Limited
<1> QED
  BY <1>1, <1>2, <1>3, <1>4

(* Every step spends at most one of them. *)
LEMMA BudgetKept ==
  ASSUME ImportInv, Next
  PROVE  budget' \in Limited
<1>1. budget \in Limited
  BY DEF ImportInv, TypeInv
<1>2. budget' = budget \/ \E k \in {"clicks", "moves", "faults", "crashes"} : Spend(k)
  <2>1. CASE NextJob \/ Turn \/ Done \/ Effects \/ Preflight
    BY <2>1 DEF NextJob, Turn, Done, Effects, Preflight
  <2>2. CASE EnterPreflight \/ EnterCopy \/ EnterVerification \/ EnterCommit
    BY <2>2 DEF EnterPreflight, EnterCopy, EnterVerification, EnterCommit, Enter
  <2>3. CASE Resolve \/ File \/ Rehash \/ Known \/ Prefix \/ Chunk
    BY <2>3 DEF Resolve, File, Rehash, Known, Prefix, Chunk
  <2>4. CASE Journal \/ Checkpoint \/ Flush \/ FullCheckpoint \/ Place \/ Placed
    BY <2>4 DEF Journal, Checkpoint, Flush, Advance, FullCheckpoint, Place, Placed
  <2>5. CASE Verify \/ Seal \/ Publish \/ Commit \/ LoseRoot
    BY <2>5 DEF Verify, Seal, Publish, Commit, LoseRoot
  <2>6. ASSUME NEW name, Request(name) PROVE Spend("clicks")
    BY <2>6 DEF Request
  <2>7. CASE StartImport \/ SourceFound \/ Finish
    BY <2>7 DEF StartImport, SourceFound, Finish, Created, CommandEffects, Acknowledge, Discard,
                Available, Activated
  <2>8. CASE MoveCard \/ Crash \/ Recover
    BY <2>8 DEF MoveCard, Crash, Recover
  <2> QED
    BY <2>1, <2>2, <2>3, <2>4, <2>5, <2>6, <2>7, <2>8 DEF Next, Work
<1> QED
  BY <1>1, <1>2, SpendIs

(* The job before its import. *)
LEMMA ImportInit ==
  Init => ImportInv
<1> SUFFICES ASSUME Init PROVE ImportInv
  OBVIOUS
<1>1. /\ NoRow \in Rows /\ NoRow.state = "absent" /\ NoRow.digest = Nothing /\ NoRow.verified = FALSE
      /\ \A f \in Files : NoRow.offset[f] = 0
  <2>1. [f \in Files |-> 0] \in [Files -> 0 .. Size]
    BY Basics
  <2> QED
    BY <2>1, NothingIs, Basics DEF NoRow, NewRow, Rows, States
<1>2. row = NoRow /\ disk = NoFiles /\ worker.pc = "idle" /\ command.pc = "idle" /\ writer = None /\ up
  BY IdleIs DEF Init
<1>3. TypeInv
  <2>1. budget \in Limited
    BY MediaImportAssumption DEF Init, Limited, Requests
  <2> QED
    BY <1>1, <2>1, NothingIs, IdleIs, Basics DEF Init, TypeInv, Sources
<1>4. LockInv
  BY <1>2, Basics DEF LockInv, Inside, Copying, OneFile, Streaming, Sealing, Acquiring
<1>5. StateInv
  BY <1>1, <1>2 DEF StateInv, Copying, OneFile, Streaming, Sealing
<1>6. DiskInv
  <2>1. Len(<<>>) = 0
    OBVIOUS
  <2> QED
    BY <1>1, <1>2, <2>1, NothingIs, Basics DEF DiskInv, Whole
<1>7. PassInv
  BY <1>2 DEF PassInv, OneFile, Streaming
<1>8. TreeInv
  <2>1. NoDigest /\ disk.published = Nothing /\ \A f \in Files : disk.target[f] = <<>>
    BY <1>1, <1>2, NothingIs DEF NoDigest
  <2> QED
    BY <1>1, <1>2, <2>1 DEF TreeInv, Sealing
<1> QED
  BY <1>3, <1>4, <1>5, <1>6, <1>7, <1>8 DEF ImportInv

(* A step that changes nothing. *)
LEMMA StutterKept ==
  ASSUME ImportInv, UNCHANGED vars
  PROVE  ImportInv'
<1>1. UNCHANGED <<row, disk, worker, command, stop, writer, wake, errored, up, card, source, budget>>
  BY DEF vars
<1>2. budget' \in Limited
  BY <1>1 DEF ImportInv, TypeInv
<1>3. Commanded
  <2>1. TypeInv /\ LockInv /\ StateInv
    BY DEF ImportInv
  <2>2. Plain(row')
    BY <1>1, <2>1, SamePlain
  <2>3. command' \in Commands /\ card' \in Locators \cup {None} /\ stop' \in BOOLEAN /\ wake' \in BOOLEAN
        /\ up' \in BOOLEAN /\ (up' \/ ~up)
    BY <1>1, <2>1 DEF TypeInv
  <2>4. /\ command.pc \in Acquiring <=> writer = "command"
        /\ command.pc \in {"discard", "available"} => row.state = "waiting" /\ command.locator \in Locators
    BY <2>1 DEF LockInv, StateInv
  <2> QED
    BY <1>1, <2>2, <2>3, <2>4 DEF Commanded
<1> QED
  BY <1>2, <1>3, CommandedKept

(* Every step keeps the invariant. *)
LEMMA ImportStep ==
  ASSUME ImportInv, [Next]_vars
  PROVE  ImportInv'
<1>1. CASE UNCHANGED vars
  BY <1>1, StutterKept
<1> SUFFICES ASSUME Next PROVE ImportInv'
  BY <1>1
<1>2. budget' \in Limited
  BY BudgetKept
<1>3. CASE NextJob \/ Done
  BY <1>2, <1>3, LaneLeaves, LeavesKept
<1>4. CASE Turn
  BY <1>2, <1>4, TurnLeaves, LeavesKept
<1>5. CASE Effects
  BY <1>2, <1>5, EffectsLeave, LeavesKept
<1>6. CASE Preflight
  BY <1>2, <1>6, PreflightLeaves, LeavesKept
<1>7. CASE LoseRoot
  BY <1>2, <1>7, LoseRootLeaves, LeavesKept
<1>8. CASE EnterPreflight \/ EnterCopy \/ EnterVerification \/ EnterCommit
  BY <1>2, <1>8, EntersKept
<1>9. CASE Resolve
  BY <1>2, <1>9, ResolveKept
<1>10. CASE File
  BY <1>2, <1>10, FileKept
<1>11. CASE Rehash
  BY <1>2, <1>11, RehashKept
<1>12. CASE Known
  BY <1>2, <1>12, KnownKept
<1>13. CASE Prefix
  BY <1>2, <1>13, PrefixKept
<1>14. CASE Chunk
  BY <1>2, <1>14, ChunkKept
<1>15. CASE Journal \/ Flush
  BY <1>2, <1>15, AdvanceKept
<1>16. CASE Checkpoint \/ FullCheckpoint
  BY <1>2, <1>16, CheckpointsKept
<1>17. CASE Place
  BY <1>2, <1>17, PlaceKept
<1>18. CASE Placed
  BY <1>2, <1>18, PlacedKept
<1>19. CASE Verify
  BY <1>2, <1>19, VerifyKept
<1>20. CASE Seal
  BY <1>2, <1>20, SealKept
<1>21. CASE Publish
  BY <1>2, <1>21, PublishKept
<1>22. CASE Commit
  BY <1>2, <1>22, CommitKept
<1>23. CASE StartImport \/ Created
  BY <1>2, <1>23, StartCommanded, CommandedKept
<1>24. ASSUME NEW name \in budget.commands, Request(name) PROVE ImportInv'
  <2>1. name \in Requests
    BY DEF ImportInv, TypeInv, Limited
  <2> QED
    BY <1>2, <1>24, <2>1, RequestCommanded, CommandedKept
<1>25. CASE CommandEffects \/ Acknowledge
  BY <1>2, <1>25, FinishCommanded, CommandedKept
<1>26. CASE SourceFound
  <2>1. CASE command'.pc = "available"
    BY <1>2, <1>26, <2>1, AcquireCommanded, CommandedKept
  <2>2. CASE command'.pc # "available"
    BY <1>2, <1>26, <2>2, ClearsKept
  <2> QED
    BY <2>1, <2>2
<1>27. CASE Discard
  BY <1>2, <1>27, ClearsKept
<1>28. CASE Available \/ Activated
  BY <1>2, <1>28, AcquireCommanded, CommandedKept
<1>29. CASE MoveCard \/ Recover
  BY <1>2, <1>29, OutsideCommanded, CommandedKept
<1>30. CASE Crash
  BY <1>2, <1>30, CrashKept
<1> QED
  BY <1>3, <1>4, <1>5, <1>6, <1>7, <1>8, <1>9, <1>10, <1>11, <1>12, <1>13, <1>14, <1>15, <1>16,
     <1>17, <1>18, <1>19, <1>20, <1>21, <1>22, <1>23, <1>24, <1>25, <1>26, <1>27, <1>28, <1>29, <1>30
     DEF Next, Work, Finish

(* What holds of every reachable state of an import. *)
THEOREM ImportInvariant == Spec => []ImportInv
<1>1. Init => ImportInv
  BY ImportInit
<1>2. ImportInv /\ [Next]_vars => ImportInv'
  BY ImportStep
<1> QED
  BY <1>1, <1>2, PTL DEF Spec

-----------------------------------------------------------------------------
(* The properties.                                                         *)

(* What becomes visible in the library is the whole recording of one card,   *)
(* and a job is local_verified only with it: whatever number of cards comes  *)
(* and goes, and whatever fails, stops or dies on the way (copy_one_file,    *)
(* source_available, seal).                                                  *)
THEOREM PublishedFromOneCard == Spec => []OneCardPublished
<1>1. ImportInv => OneCardPublished
  BY DEF ImportInv, TreeInv, OneCardPublished
<1> QED
  BY <1>1, ImportInvariant, PTL

(* A checkpoint never claims bytes that a crash can take away or a discard   *)
(* took (copy_source_to_partial, persist_checkpoint).                        *)
THEOREM BackedCheckpoints == Spec => []CheckpointsBacked
<1>1. ImportInv => CheckpointsBacked
  <2> SUFFICES ASSUME ImportInv, NEW f \in Files
               PROVE  row.offset[f] <= Len(disk.part[f]) + Len(disk.target[f]) + Len(disk.published[f])
    BY DEF CheckpointsBacked
  <2>1. TypeInv /\ DiskInv
    BY DEF ImportInv
  <2>2. /\ row.offset[f] \in 0 .. Size /\ disk.part[f] \in Chunks /\ disk.target[f] \in Chunks
        /\ disk.published[f] \in Chunks
    BY <2>1, Fields
  <2>3. Len(disk.part[f]) \in Nat /\ Len(disk.target[f]) \in Nat /\ Len(disk.published[f]) \in Nat
    BY <2>2, LenProperties DEF Chunks
  <2>4. \/ row.offset[f] <= Len(disk.part[f])
        \/ Len(disk.target[f]) = Size \/ Len(disk.published[f]) = Size
    BY <2>1 DEF DiskInv, Whole
  <2>5. row.offset[f] \in Nat /\ Size \in Nat /\ row.offset[f] <= Size
    BY <2>2, Basics
  <2>6. ASSUME NEW o \in Nat, NEW p \in Nat, NEW t \in Nat, NEW v \in Nat, o <= Size,
               o <= p \/ t = Size \/ v = Size
        PROVE  o <= p + t + v
    BY <2>5, <2>6
  <2> QED
    BY <2>3, <2>4, <2>5, <2>6
<1> QED
  BY <1>1, ImportInvariant, PTL

(* Only the copy, the publication and the discard of another card's bytes    *)
(* write files of a running process.                                         *)
LEMMA WritersAre ==
  ASSUME ImportInv, Next, disk' # disk
  PROVE  \/ worker.pc \in Inside \/ command.pc = "discard" \/ up' = FALSE
<1>1. CASE NextJob \/ Turn \/ Done \/ Effects
  BY <1>1 DEF NextJob, Turn, Done, Effects, Apply, Fail
<1>2. CASE EnterPreflight \/ EnterCopy \/ EnterVerification \/ EnterCommit
  BY <1>2 DEF EnterPreflight, EnterCopy, EnterVerification, EnterCommit, Enter, Return
<1>3. CASE \/ Preflight \/ Resolve \/ File \/ Rehash \/ Known \/ Prefix \/ Chunk \/ Journal
           \/ Checkpoint \/ Flush \/ FullCheckpoint \/ Place \/ Placed
  BY <1>3 DEF Preflight, Resolve, File, Rehash, Known, Prefix, Chunk, Journal, Flush, Advance,
              Checkpoint, FullCheckpoint, Place, Placed, At, Inside, Copying, OneFile, Streaming
<1>4. CASE Verify \/ Seal \/ Publish \/ Commit \/ LoseRoot
  BY <1>4 DEF Verify, Seal, Publish, Commit, LoseRoot, Fail, At, Inside, Sealing
<1>5. CASE StartImport \/ SourceFound \/ MoveCard \/ Recover \/ Crash \/ Finish
  BY <1>5 DEF StartImport, SourceFound, MoveCard, Recover, Crash, Finish, Created, CommandEffects,
              Acknowledge, Discard, Available, Activated, Running
<1>6. ASSUME NEW name, Request(name) PROVE FALSE
  BY <1>6 DEF Request
<1> QED
  BY <1>1, <1>2, <1>3, <1>4, <1>5, <1>6 DEF Next, Work

(* From the acknowledged pause to the resume a running process writes        *)
(* nothing (command_impl, run_copy, run_commit).                             *)
THEOREM PausesAreQuiet == Spec => PausedIsQuiet
<1>1. ImportInv /\ [Next]_vars =>
        [row.state = "paused" /\ row'.state = "paused" /\ up' => UNCHANGED disk]_vars
  <2> SUFFICES ASSUME ImportInv, [Next]_vars, row.state = "paused", up', disk' # disk PROVE FALSE
    OBVIOUS
  <2>1. Next
    BY DEF vars
  <2>2. worker.pc \notin Inside
    BY NoPhase DEF Told
  <2>3. command.pc # "discard"
    BY DEF ImportInv, StateInv
  <2> QED
    BY <2>1, <2>2, <2>3, WritersAre
<1> QED
  BY <1>1, ImportInvariant, PTL DEF Spec, PausedIsQuiet

=============================================================================
