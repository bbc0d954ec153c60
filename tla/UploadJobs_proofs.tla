------------------------- MODULE UploadJobs_proofs -------------------------
(***************************************************************************)
(* Proofs about UploadJobs: for any number of uploads, revisions, settings *)
(* and crashes an entry has one open upload at a time, which has an owner, *)
(* the first outcome of an upload stands, and the row shows real outcomes. *)
(***************************************************************************)
EXTENDS UploadJobs, FiniteSetTheorems, WellFoundedInduction, TLAPS

Tokens == {"none", "running", "cancelling", "committed"}
Leases == {FreeLease, StartLease} \cup {ReapedLease(j) : j \in Jobs}
Boots == [pc : {"up", "cancel", "library"}, interrupted : SUBSET Jobs, protected : BOOLEAN]
Limited == [configs : SUBSET Configs, commands : Nat, writes : Nat, faults : Nat, crashes : Nat]
Places == [pc : Steps, job : 0 .. MaxJobs, seen : {"absent"} \cup Open, mine : BOOLEAN,
           rev : Revisions, config : Configs, entry : Entries, moved : BOOLEAN,
           todo : SUBSET Jobs]

(* The types. *)
TypeInv ==
    /\ job \in [Jobs -> Rows] /\ acked \subseteq Jobs /\ told \subseteq Jobs
    /\ entry \in Entries /\ lease \in Leases
    /\ token \in [Jobs -> Tokens]
    /\ th \in [Threads -> Places]
    /\ boot \in Boots
    /\ budget \in Limited

(* Rows are created in order; what was acknowledged or reported has ended.   *)
RowInv ==
    /\ \E n \in 0 .. MaxJobs : Created = 1 .. n
    /\ acked \subseteq EndedJobs
    /\ FirstOutcomeStands

(* While the process is down it has no threads; the library is put right     *)
(* after the last open upload was cancelled, and what protects its rows is   *)
(* an upload whose outcome is still owed.                                    *)
DownInv ==
    /\ ~Up => th = [t \in Threads |-> Idle]
    /\ ~Up /\ boot.protected => Created \ acked # {}
    /\ boot.pc = "library" => OpenJobs = {}

Passing == {"idle", "pass", "deliver", "project", "ack"}
Choosing == {"create", "child", "retry"}
Launching == {"begin", "claim", "spawn"}

(* The command that starts an upload holds the lease. It chooses while       *)
(* nothing is open, and then the only open upload is the one it created.     *)
StarterOk ==
    LET me == th[Starter] IN
    /\ me.pc \in {"idle"} \cup Choosing \cup Launching
    /\ Up => (lease = StartLease <=> me.pc # "idle")
    /\ me.pc \in {"child", "retry"} => me.job \in EndedJobs
    /\ me.pc \in Choosing => OpenJobs = {}
    /\ me.pc \in Launching => me.job \in Created /\ me.mine /\ OpenJobs \subseteq {me.job}
    /\ me.pc = "begin" => job[me.job].state # "preparing"
    /\ me.pc \in {"claim", "spawn"} => job[me.job].state # "queued"

WorkerOk(j) ==
    /\ th[Worker(j)].pc \in Passing \cup {"work", "finish", "release"}
    /\ th[Worker(j)].pc = "work" => j \in Created /\ job[j].state # "queued"

CancellerOk ==
    /\ th[Canceller].pc \in Passing \cup {"flag", "cancel"}
    /\ th[Canceller].pc \in {"flag", "cancel"} =>
         th[Canceller].job \in Jobs /\ th[Canceller].seen \in Open

PollerOk == th[Poller].pc \in Passing

(* What a pass has listed has ended; what it has read of the library is what *)
(* the library is, unless another write was noticed.                         *)
PassOk(t) ==
    /\ th[t].todo \subseteq EndedJobs
    /\ th[t].pc \in {"project", "ack"} => th[t].job \in EndedJobs
    /\ th[t].pc = "project" =>
         /\ th[t].entry.rev = job[th[t].job].rev
         /\ ~th[t].moved => th[t].entry = entry

ThreadInv ==
    /\ StarterOk /\ CancellerOk /\ PollerOk
    /\ \A j \in Jobs : WorkerOk(j)
    /\ \A t \in Threads : PassOk(t)

(* A free lease means that nothing is open, a reaper's that nothing else is. *)
LeaseInv ==
    /\ Up /\ lease = FreeLease => OpenJobs = {}
    /\ Up => \A j \in Jobs : lease = ReapedLease(j) => OpenJobs \subseteq {j}
    /\ \A i, j \in OpenJobs : i = j
    /\ \A i, j \in Jobs : Active(i) /\ Active(j) => i = j
    /\ OpenUploadHasOwner

(* The outcome on the row is one of its revision that was reached. *)
EntryInv ==
    /\ entry.by # 0 => entry.by \in EndedJobs /\ job[entry.by].rev = entry.rev
    /\ ShownOutcomeIsReal

UploadInv == TypeInv /\ RowInv /\ DownInv /\ ThreadInv /\ LeaseInv /\ EntryInv

-----------------------------------------------------------------------------
(* Numbers, threads and places.                                            *)

(* The smallest of a set of uploads is one of them. *)
LEMMA MinIs ==
  ASSUME NEW S, S \subseteq Nat, S # {}
  PROVE  Min(S) \in S
<1> DEFINE R == OpToRel(<, Nat)
<1>1. IsWellFoundedOn(R, Nat)
  BY NatLessThanWellFounded
<1>2. \A a, b \in Nat : a < b => <<a, b>> \in R
  BY DEF OpToRel
<1> HIDE DEF R
<1>3. PICK m \in S : \A y \in S : ~(<<y, m>> \in R)
  BY <1>1, WFMin
<1>4. \A y \in S : m <= y
  <2> SUFFICES ASSUME NEW y \in S PROVE m <= y
    OBVIOUS
  <2>1. y \in Nat /\ m \in Nat /\ ~(y < m)
    BY <1>2, <1>3
  <2> QED
    BY <2>1
<1> QED
  BY <1>4 DEF Min

(* The threads differ, and so do the leases. *)
LEMMA Basics ==
  /\ MaxJobs \in Nat /\ Jobs \subseteq Nat /\ Jobs \subseteq 0 .. MaxJobs /\ 0 \notin Jobs
  /\ Starter \in Threads /\ Canceller \in Threads /\ Poller \in Threads
  /\ Starter # Canceller /\ Starter # Poller /\ Canceller # Poller
  /\ \A j \in Jobs : /\ Worker(j) \in Threads /\ Worker(j) # Starter
                     /\ Worker(j) # Canceller /\ Worker(j) # Poller
  /\ \A i, j \in Jobs : Worker(i) = Worker(j) => i = j
  /\ \A t \in Threads : t \in {Starter, Canceller, Poller} \/ \E j \in Jobs : t = Worker(j)
<1>1. MaxJobs \in Nat
  BY UploadAssumption
<1> QED
  BY <1>1 DEF Jobs, Threads, Starter, Canceller, Poller, Worker

(* A lease is free, of the starting command or of one upload's reaper. *)
LEMMA LeasesDiffer ==
  /\ FreeLease \in Leases /\ StartLease \in Leases /\ \A j \in Jobs : ReapedLease(j) \in Leases
  /\ FreeLease # StartLease
  /\ \A j : ReapedLease(j) # FreeLease /\ ReapedLease(j) # StartLease
  /\ \A i, j : ReapedLease(i) = ReapedLease(j) => i = j
BY DEF Leases, FreeLease, StartLease, ReapedLease

(* A thread at rest. *)
LEMMA IdleType ==
  /\ AnyRev \in Revisions /\ AnyConfig \in Configs /\ Unread \in Entries /\ Idle \in Places
  /\ Idle.pc = "idle" /\ Idle.job = 0 /\ Idle.todo = {} /\ Idle.mine = FALSE
<1>1. AnyRev \in Revisions /\ AnyConfig \in Configs
  BY UploadAssumption DEF AnyRev, AnyConfig
<1>2. 0 \in 0 .. MaxJobs
  BY UploadAssumption
<1>3. Unread \in Entries
  BY <1>1, <1>2 DEF Unread, Entries
<1> QED
  BY <1>1, <1>2, <1>3 DEF Idle, Places, Steps

(* One thread goes to place p, the others stay. *)
Moves(t, p) ==
    /\ p \in Places /\ th' \in [Threads -> Places] /\ th'[t] = p
    /\ \A x \in Threads : x # t => th'[x] = th[x]

(* What an assignment to one thread's place does. *)
LEMMA PlaceSet ==
  ASSUME TypeInv, NEW t \in Threads, NEW p, p \in Places, th' = [th EXCEPT ![t] = p]
  PROVE  Moves(t, p)
BY DEF TypeInv, Moves

-----------------------------------------------------------------------------
(* The ways in which the rows change.                                      *)

(* An upload has begun, ended or been dismissed: it stays what it was for.   *)
Grows ==
    /\ job' \in [Jobs -> Rows]
    /\ \A j \in Created : /\ j \in Created' /\ job'[j].rev = job[j].rev
                          /\ job[j].state # "queued" => job'[j].state # "queued"
    /\ \A j \in EndedJobs : j \in EndedJobs' /\ job'[j].state = job[j].state

Inserted(j) ==
    /\ j \in Jobs \ Created /\ job'[j].state = "queued"
    /\ \A i \in Jobs \ {j} : job'[i] = job[i]
Turned(j, s) ==
    /\ j \in Jobs /\ job'[j].state = s
    /\ \A i \in Jobs \ {j} : job'[i] = job[i]

(* What an insertion, a completion and a change of one field do. *)
LEMMA InsertIs ==
  ASSUME TypeInv, RowInv, NEW r \in Revisions, NEW c \in Configs, NEW p \in 0 .. MaxJobs,
         Insert(r, c, p)
  PROVE  /\ Inserted(NextId) /\ Grows /\ (\E n \in 0 .. MaxJobs : Created' = 1 .. n)
         /\ OpenJobs' = OpenJobs \cup {NextId} /\ EndedJobs' = EndedJobs /\ NextId \in Created'
<1>1. PICK n \in 0 .. MaxJobs : Created = 1 .. n
  BY DEF RowInv
<1>2. NextId = n + 1 /\ NextId \in Jobs /\ n \in Nat
  <2>1. n \in Nat
    BY Basics
  <2>2. Cardinality(1 .. n) = n
    BY <2>1, FS_Interval
  <2> QED
    BY <1>1, <2>1, <2>2 DEF NextId, Insert
<1>3. NextId \notin Created
  BY <1>1, <1>2
<1> DEFINE x == [state |-> "queued", rev |-> r, config |-> c, parent |-> p, dismissed |-> FALSE]
           m == NextId
<1>4. x \in Rows /\ x.state = "queued"
  BY DEF Rows, Open, Ended
<1>5. job' = [job EXCEPT ![m] = x]
  BY DEF Insert
<1> HIDE DEF x, m
<1>6. m \in Jobs /\ m \notin Created
  BY <1>2, <1>3 DEF m
<1>7. /\ job' \in [Jobs -> Rows] /\ job'[m] = x
      /\ \A i \in Jobs \ {m} : job'[i] = job[i]
  BY <1>4, <1>5, <1>6 DEF TypeInv
<1>8. job[m].state = "absent"
  BY <1>6 DEF Created
<1>9. /\ OpenJobs' = OpenJobs \cup {m} /\ EndedJobs' = EndedJobs /\ Created' = Created \cup {m}
  BY <1>4, <1>6, <1>7, <1>8 DEF OpenJobs, EndedJobs, Created, Open, Ended
<1>10. Created' = 1 .. n + 1 /\ n + 1 \in 0 .. MaxJobs
  BY <1>1, <1>2, <1>9, Basics DEF m, Jobs
<1>11. Inserted(m)
  BY <1>4, <1>6, <1>7 DEF Inserted
<1>12. Grows
  BY <1>6, <1>7, <1>8, <1>9 DEF Grows, EndedJobs, Created, Ended
<1> QED
  BY <1>9, <1>10, <1>11, <1>12 DEF m

(* complete_upload_job ends an open upload, or loses its race and does nothing. *)
LEMMA CompleteIs ==
  ASSUME TypeInv, RowInv, NEW j \in Jobs, NEW seen \in Open, NEW o \in Ended,
         CompleteUploadJob(j, seen, o)
  PROVE  /\ Grows /\ Created' = Created
         /\ job[j].state = seen => /\ Turned(j, o) /\ OpenJobs' = OpenJobs \ {j}
                                   /\ EndedJobs' = EndedJobs \cup {j}
         /\ job[j].state # seen => job' = job /\ OpenJobs' = OpenJobs /\ EndedJobs' = EndedJobs
<1>1. CASE job[j].state = seen
  <2> DEFINE x == [job[j] EXCEPT !.state = o]
  <2>1. x \in Rows /\ x.state = o /\ x.rev = job[j].rev
    BY DEF TypeInv, Rows
  <2>2. job' = [job EXCEPT ![j] = x]
    BY <1>1 DEF CompleteUploadJob
  <2> HIDE DEF x
  <2>3. /\ job' \in [Jobs -> Rows] /\ job'[j] = x
        /\ \A i \in Jobs \ {j} : job'[i] = job[i]
    BY <2>1, <2>2 DEF TypeInv
  <2>4. /\ OpenJobs' = OpenJobs \ {j} /\ EndedJobs' = EndedJobs \cup {j} /\ Created' = Created
    BY <1>1, <2>1, <2>3 DEF OpenJobs, EndedJobs, Created, Open, Ended
  <2>5. job[j].state \notin Ended
    BY <1>1 DEF Open, Ended
  <2>6. Grows
    BY <2>1, <2>3, <2>4, <2>5 DEF Grows, EndedJobs, Created, Ended
  <2>7. Turned(j, o)
    BY <2>1, <2>3 DEF Turned
  <2> QED
    BY <1>1, <2>4, <2>6, <2>7
<1>2. CASE job[j].state # seen
  <2>1. job' = job
    BY <1>2 DEF CompleteUploadJob
  <2> QED
    BY <1>2, <2>1 DEF Grows, EndedJobs, Created, OpenJobs, TypeInv
<1> QED
  BY <1>1, <1>2

(* Rows that stay. *)
LEMMA StayIs ==
  ASSUME TypeInv, UNCHANGED job
  PROVE  Grows /\ Created' = Created /\ OpenJobs' = OpenJobs /\ EndedJobs' = EndedJobs
BY DEF Grows, EndedJobs, Created, OpenJobs, TypeInv

(* A row that goes from queued to preparing, or changes beside its state. *)
LEMMA FieldIs ==
  ASSUME TypeInv, NEW j \in Jobs, NEW x \in Rows, x.rev = job[j].rev, job' = [job EXCEPT ![j] = x],
         \/ job[j].state = "queued" /\ x.state = "preparing"
         \/ x.state = job[j].state
  PROVE  /\ Grows /\ Created' = Created /\ OpenJobs' = OpenJobs /\ EndedJobs' = EndedJobs
         /\ Turned(j, x.state)
<1>1. /\ job' \in [Jobs -> Rows] /\ job'[j] = x
      /\ \A i \in Jobs \ {j} : job'[i] = job[i]
  BY DEF TypeInv
<1>2. /\ OpenJobs' = OpenJobs /\ EndedJobs' = EndedJobs /\ Created' = Created
  BY <1>1 DEF OpenJobs, EndedJobs, Created, Open, Ended
<1>3. job[j].state = "queued" => job[j].state \notin Ended
  BY DEF Ended
<1> QED
  BY <1>1, <1>2, <1>3 DEF Grows, Turned, EndedJobs, Created

-----------------------------------------------------------------------------
(* What stays true of a thread that another one's step leaves alone.       *)

Noticed(p) == IF p.pc = "project" THEN [p EXCEPT !.moved = TRUE] ELSE p

(* What has ended stays as it ended. *)
LEMMA GrowsIs ==
  ASSUME Grows
  PROVE  /\ EndedJobs \subseteq Created /\ EndedJobs \subseteq EndedJobs' /\ Created \subseteq Created'
         /\ \A j \in EndedJobs : job'[j].rev = job[j].rev /\ job'[j].state = job[j].state
<1>1. EndedJobs \subseteq Created
  BY DEF EndedJobs, Created, Ended
<1> QED
  BY <1>1 DEF Grows

(* A pass that another thread's step leaves alone. *)
LEMMA PassStays ==
  ASSUME TypeInv, Grows, NEW t \in Threads, PassOk(t), th'[t] = th[t], UNCHANGED entry
  PROVE  PassOk(t)'
BY GrowsIs DEF PassOk

(* A pass that notices a write of the library row. *)
LEMMA PassNotices ==
  ASSUME TypeInv, Grows, NEW t \in Threads, PassOk(t), th'[t] = Noticed(th[t])
  PROVE  PassOk(t)'
<1>1. th[t] \in Places
  BY DEF TypeInv
<1>2. CASE th[t].pc = "project"
  <2>1. th'[t] = [th[t] EXCEPT !.moved = TRUE]
    BY <1>2 DEF Noticed
  <2>2. /\ th'[t].todo = th[t].todo /\ th'[t].pc = th[t].pc /\ th'[t].job = th[t].job
        /\ th'[t].entry = th[t].entry /\ th'[t].moved = TRUE
    BY <1>1, <2>1 DEF Places
  <2> QED
    BY <1>2, <2>2, GrowsIs DEF PassOk
<1>3. CASE th[t].pc # "project"
  BY <1>3, GrowsIs DEF PassOk, Noticed
<1> QED
  BY <1>2, <1>3

(* A worker that stays where it is. *)
LEMMA WorkerStays ==
  ASSUME TypeInv, Grows, NEW j \in Jobs, WorkerOk(j), th'[Worker(j)].pc = th[Worker(j)].pc
  PROVE  WorkerOk(j)'
BY DEF WorkerOk, Grows

(* The outcome the row shows stays real. *)
LEMMA EntryStays ==
  ASSUME TypeInv, Grows, EntryInv, UNCHANGED entry
  PROVE  EntryInv'
<1>1. entry.by # 0 => /\ entry.by \in EndedJobs' /\ job'[entry.by].rev = entry.rev
                      /\ job'[entry.by].state = job[entry.by].state
  BY GrowsIs DEF EntryInv
<1> QED
  BY <1>1 DEF EntryInv, ShownOutcomeIsReal, StatusOf

-----------------------------------------------------------------------------
(* The command that starts an upload.                                      *)

Rests(p) == p.pc = "idle" /\ OpenJobs' = {} /\ lease' # StartLease
Chooses(p) ==
    /\ p.pc \in Choosing /\ OpenJobs' = {} /\ lease' = StartLease
    /\ p.pc \in {"child", "retry"} => p.job \in EndedJobs'
Launches(p) ==
    /\ p.pc \in Launching /\ lease' = StartLease
    /\ p.job \in Created' /\ p.mine /\ OpenJobs' \subseteq {p.job}
    /\ p.pc = "begin" => job'[p.job].state # "preparing"
    /\ p.pc \in {"claim", "spawn"} => job'[p.job].state # "queued"

OneActive == \A i, j \in Jobs : Active(i) /\ Active(j) => i = j

(* A step of that command. *)
Starts ==
    /\ \E p \in Places : /\ Moves(Starter, p) /\ p.todo \subseteq EndedJobs
                         /\ (Rests(p) \/ Chooses(p) \/ Launches(p))
    /\ Grows /\ (\E n \in 0 .. MaxJobs : Created' = 1 .. n)
    /\ UNCHANGED <<entry, boot, acked, told>>
    /\ lease' \in Leases /\ token' \in [Jobs -> Tokens] /\ OneActive'

(* A step of the starting command keeps the invariant. *)
LEMMA StartsKept ==
  ASSUME UploadInv, Up, Starts, budget' \in Limited
  PROVE  UploadInv'
<1> USE DEF UploadInv
<1>1. PICK p \in Places : /\ Moves(Starter, p) /\ p.todo \subseteq EndedJobs
                          /\ (Rests(p) \/ Chooses(p) \/ Launches(p))
  BY DEF Starts
<1>2. Grows /\ EndedJobs \subseteq EndedJobs'
  BY DEF Starts, Grows
<1>3. TypeInv'
  BY <1>1, <1>2 DEF Starts, TypeInv, Moves, Grows
<1>4. RowInv'
  BY <1>2 DEF Starts, RowInv, FirstOutcomeStands, Grows, EndedJobs, Ended, TypeInv
<1>5. Up' /\ DownInv'
  BY DEF Starts, Up, DownInv
<1>6. th'[Starter] = p /\ \A x \in Threads : x # Starter => th'[x] = th[x]
  BY <1>1 DEF Moves
<1>7. p.pc \in {"idle"} \cup Choosing \cup Launching
  BY <1>1 DEF Rests, Chooses, Launches
<1>8. PassOk(Starter)'
  BY <1>1, <1>2, <1>6, <1>7 DEF PassOk, Choosing, Launching
<1>9. StarterOk'
  BY <1>1, <1>5, <1>6, <1>7 DEF StarterOk, Rests, Chooses, Launches, Choosing, Launching
<1>10. \A t \in Threads : PassOk(t)'
  <2> SUFFICES ASSUME NEW t \in Threads, t # Starter PROVE PassOk(t)'
    BY <1>8
  <2>1. PassOk(t) /\ th'[t] = th[t] /\ entry' = entry
    BY <1>6 DEF ThreadInv, Starts
  <2> QED
    BY <1>2, <2>1, PassStays
<1>11. \A j \in Jobs : WorkerOk(j)'
  BY <1>2, <1>6, Basics, WorkerStays DEF ThreadInv
<1>12. CancellerOk' /\ PollerOk'
  BY <1>6, Basics DEF ThreadInv, CancellerOk, PollerOk
<1>13. LeaseInv'
  <2>1. OpenUploadHasOwner'
    BY <1>1, <1>6 DEF OpenUploadHasOwner, Rests, Chooses, Launches, Launching
  <2>2. (\A i, j \in OpenJobs : i = j)'
    BY <1>1 DEF Rests, Chooses, Launches
  <2>3. /\ Up' /\ lease' = FreeLease => OpenJobs' = {}
        /\ Up' => \A j \in Jobs : lease' = ReapedLease(j) => OpenJobs' \subseteq {j}
    BY <1>1, LeasesDiffer DEF Rests, Chooses, Launches
  <2> QED
    BY <2>1, <2>2, <2>3 DEF LeaseInv, Starts, OneActive
<1>14. EntryInv'
  BY <1>2, EntryStays DEF Starts
<1> QED
  BY <1>3, <1>4, <1>5, <1>9, <1>10, <1>11, <1>12, <1>13, <1>14 DEF ThreadInv

(* What the command is about: its place, and that rows which are not touched *)
(* stay as they are numbered.                                                *)
LEMMA StarterIs ==
  ASSUME UploadInv
  PROVE  /\ th[Starter] \in Places /\ th[Starter].todo \subseteq EndedJobs
         /\ th[Starter].rev \in Revisions /\ th[Starter].config \in Configs
         /\ EndedJobs \subseteq Jobs /\ Created \subseteq Jobs /\ OpenJobs \subseteq Created
         /\ OpenJobs \cap EndedJobs = {} /\ EndedJobs \subseteq Created
         /\ Created \ OpenJobs \subseteq EndedJobs
         /\ OneActive /\ lease \in Leases /\ token \in [Jobs -> Tokens]
         /\ \E n \in 0 .. MaxJobs : Created = 1 .. n
<1>1. th[Starter] \in Places /\ th[Starter].todo \subseteq EndedJobs
  BY Basics DEF UploadInv, TypeInv, ThreadInv, PassOk
<1>2. th[Starter].rev \in Revisions /\ th[Starter].config \in Configs
  BY <1>1 DEF Places
<1>3. /\ EndedJobs \subseteq Jobs /\ Created \subseteq Jobs /\ OpenJobs \subseteq Created
      /\ OpenJobs \cap EndedJobs = {} /\ EndedJobs \subseteq Created
  BY DEF EndedJobs, Created, OpenJobs, Open, Ended
<1>4. Created \ OpenJobs \subseteq EndedJobs
  BY DEF UploadInv, TypeInv, Rows, EndedJobs, Created, OpenJobs
<1> QED
  BY <1>1, <1>2, <1>3, <1>4 DEF UploadInv, TypeInv, LeaseInv, OneActive, RowInv

(* The command begins. *)
LEMMA StartIs ==
  ASSUME UploadInv, NEW c \in Configs, StartUpload(c) \/ \E q \in Jobs : RetryUpload(q, c)
  PROVE  Starts
<1> DEFINE Start(p) == /\ p \in Places /\ p.todo = {} /\ th' = [th EXCEPT ![Starter] = p]
                       /\ p.pc \in {"create", "retry"} /\ (p.pc = "retry" => p.job \in EndedJobs)
<1>1. \E p : Start(p)
  <2>1. CASE StartUpload(c)
    <3> DEFINE p == [Idle EXCEPT !.pc = "create", !.rev = entry.rev, !.config = c]
    <3>1. entry.rev \in Revisions
      BY DEF UploadInv, TypeInv, Entries
    <3>2. p \in Places /\ p.pc = "create" /\ p.todo = {}
      BY <3>1, IdleType DEF Places, Steps
    <3>3. th' = [th EXCEPT ![Starter] = p]
      BY <2>1 DEF StartUpload
    <3> HIDE DEF p
    <3> QED
      BY <3>2, <3>3
  <2>2. ASSUME NEW q \in Jobs, RetryUpload(q, c) PROVE \E p : Start(p)
    <3> DEFINE p == [Idle EXCEPT !.pc = "retry", !.job = q, !.config = c]
    <3>1. q \in 0 .. MaxJobs /\ q \in EndedJobs
      BY <2>2, Basics DEF RetryUpload
    <3>2. p \in Places /\ p.pc = "retry" /\ p.todo = {} /\ p.job = q
      BY <3>1, IdleType DEF Places, Steps
    <3>3. th' = [th EXCEPT ![Starter] = p]
      BY <2>2 DEF RetryUpload
    <3> HIDE DEF p
    <3> QED
      BY <3>1, <3>2, <3>3
  <2> QED
    BY <2>1, <2>2
<1>2. PICK p : Start(p)
  BY <1>1
<1>3. /\ Up /\ lease = FreeLease /\ lease' = StartLease
      /\ UNCHANGED <<job, acked, entry, token, boot, told>>
  BY DEF StartUpload, RetryUpload, At
<1>4. OpenJobs = {}
  BY <1>3 DEF UploadInv, LeaseInv
<1>5. Grows /\ Created' = Created /\ OpenJobs' = OpenJobs /\ EndedJobs' = EndedJobs
  BY <1>3, StayIs DEF UploadInv
<1>6. Moves(Starter, p)
  BY <1>2, PlaceSet, Basics DEF UploadInv
<1>7. Chooses(p)
  BY <1>2, <1>3, <1>4, <1>5 DEF Chooses, Choosing
<1>8. OneActive'
  BY <1>3, StarterIs DEF OneActive, Active
<1> QED
  BY <1>2, <1>3, <1>5, <1>6, <1>7, <1>8, StarterIs, LeasesDiffer DEF Starts

(* The command gives up: nothing is open any more. *)
LEMMA GivesUp ==
  ASSUME UploadInv, Free(th), OpenJobs' = {}
  PROVE  /\ Moves(Starter, Idle) /\ Idle.todo \subseteq EndedJobs /\ Rests(Idle)
         /\ lease' \in Leases /\ Idle \in Places
<1>1. Moves(Starter, Idle)
  BY IdleType, PlaceSet, Basics DEF Free, UploadInv
<1> QED
  BY <1>1, IdleType, LeasesDiffer DEF Rests, Free

(* start_upload: the oldest upload of the revision, or a new one. *)
LEMMA CreateIs ==
  ASSUME UploadInv, CreateUploadJob
  PROVE  Starts
<1> DEFINE me == th[Starter]
           same == OfRevision(me.rev)
           first == Min(same)
<1>1. /\ Up /\ me.pc = "create" /\ lease = StartLease /\ OpenJobs = {}
      /\ UNCHANGED <<acked, entry, token, boot, told>>
  BY DEF CreateUploadJob, At, UploadInv, ThreadInv, StarterOk, Choosing
<1>2. OneActive' /\ token' \in [Jobs -> Tokens]
  BY <1>1, StarterIs DEF OneActive, Active
<1>3. CASE same = {} /\ OpenJobs = {}
  <2>1. /\ Insert(me.rev, me.config, 0) /\ lease' = lease
        /\ th' = [th EXCEPT ![Starter].pc = "begin", ![Starter].job = NextId,
                            ![Starter].mine = TRUE]
    BY <1>3 DEF CreateUploadJob
  <2>2. /\ Inserted(NextId) /\ Grows /\ (\E n \in 0 .. MaxJobs : Created' = 1 .. n)
        /\ OpenJobs' = OpenJobs \cup {NextId} /\ EndedJobs' = EndedJobs /\ NextId \in Created'
    BY <2>1, StarterIs, InsertIs, Basics DEF UploadInv
  <2> DEFINE p == [me EXCEPT !.pc = "begin", !.job = NextId, !.mine = TRUE]
  <2>3. NextId \in 0 .. MaxJobs /\ NextId \in Jobs
    BY <2>2, Basics DEF Inserted
  <2>4. p \in Places /\ p.pc = "begin" /\ p.job = NextId /\ p.mine /\ p.todo = me.todo
    BY <2>3, StarterIs DEF Places, Steps
  <2>5. th' = [th EXCEPT ![Starter] = p]
    BY <2>1, Basics DEF UploadInv, TypeInv
  <2> HIDE DEF p
  <2>6. Moves(Starter, p) /\ p.todo \subseteq EndedJobs
    BY <2>4, <2>5, PlaceSet, StarterIs, Basics DEF UploadInv
  <2>7. Launches(p)
    BY <1>1, <2>1, <2>2, <2>4 DEF Launches, Launching, Inserted
  <2> QED
    BY <1>1, <1>2, <2>1, <2>2, <2>4, <2>6, <2>7, StarterIs DEF Starts
<1>4. CASE ~(same = {} /\ OpenJobs = {}) /\ job' = job
  <2>1. Grows /\ Created' = Created /\ OpenJobs' = OpenJobs /\ EndedJobs' = EndedJobs
    BY <1>4, StayIs DEF UploadInv
  <2>2. CASE Free(th)
    BY <1>1, <1>2, <2>1, <2>2, GivesUp, StarterIs DEF Starts
  <2>3. CASE /\ same # {} /\ lease' = lease
             /\ th' = [th EXCEPT ![Starter].job = first,
                                 ![Starter].seen = IF job[first].state = "queued"
                                                   THEN "queued" ELSE "absent",
                                 ![Starter].pc = CASE job[first].state = "queued" -> "begin"
                                                   [] job[first].state = "preparing" -> "claim"
                                                   [] OTHER -> "child"]
    <3>1. first \in same
      BY <2>3, MinIs, Basics, StarterIs DEF OfRevision
    <3>2. first \in EndedJobs /\ first \in 0 .. MaxJobs
      BY <1>1, <3>1, StarterIs, Basics DEF OfRevision
    <3>3. job[first].state # "queued" /\ job[first].state # "preparing"
      BY <3>2 DEF EndedJobs, Ended
    <3> HIDE DEF first
    <3> DEFINE p == [me EXCEPT !.job = first, !.seen = "absent", !.pc = "child"]
    <3>4. p \in Places /\ p.pc = "child" /\ p.job = first /\ p.todo = me.todo
      BY <3>2, StarterIs DEF Places, Steps
    <3>5. /\ (CASE job[first].state = "queued" -> "begin"
                [] job[first].state = "preparing" -> "claim"
                [] OTHER -> "child") = "child"
         /\ (IF job[first].state = "queued" THEN "queued" ELSE "absent") = "absent"
      BY <3>3
    <3>6. th' = [th EXCEPT ![Starter] = p]
      BY <2>3, <3>5, Basics DEF UploadInv, TypeInv
    <3> HIDE DEF p
    <3>7. Moves(Starter, p) /\ p.todo \subseteq EndedJobs
      BY <3>4, <3>6, PlaceSet, StarterIs, Basics DEF UploadInv
    <3>8. Chooses(p)
      BY <1>1, <2>1, <2>3, <3>2, <3>4 DEF Chooses, Choosing
    <3> QED
      BY <1>1, <1>2, <2>1, <2>3, <3>4, <3>7, <3>8, StarterIs DEF Starts
  <2> QED
    BY <1>4, <2>2, <2>3 DEF CreateUploadJob
<1> QED
  BY <1>1, <1>3, <1>4 DEF CreateUploadJob

(* start_upload_child: the retry or repetition of an upload that has ended. *)
LEMMA SpawnChildIs ==
  ASSUME UploadInv, SpawnChild
  PROVE  Starts
<1> DEFINE me == th[Starter]
           q == me.job
           Goto(j, mine) ==
               th' = [th EXCEPT ![Starter] = [Idle EXCEPT
                        !.pc = IF mine \/ job[j].state = "queued" THEN "begin" ELSE "claim",
                        !.job = j, !.mine = mine, !.rev = entry.rev, !.config = me.config]]
<1>1. /\ Up /\ me.pc \in {"child", "retry"} /\ lease = StartLease /\ OpenJobs = {}
      /\ q \in EndedJobs /\ UNCHANGED <<acked, entry, token, boot, told>>
  BY DEF SpawnChild, At, UploadInv, ThreadInv, StarterOk, Choosing
<1>2. OneActive' /\ token' \in [Jobs -> Tokens]
  BY <1>1, StarterIs DEF OneActive, Active
<1>3. Children(q) \cap OpenJobs = {}
  BY <1>1
<1>4. \/ Free(th) /\ job' = job
      \/ Insert(job[q].rev, me.config, q) /\ Goto(NextId, TRUE) /\ lease' = lease
  BY <1>3 DEF SpawnChild
<1>5. CASE Free(th) /\ job' = job
  <2>1. Grows /\ Created' = Created /\ OpenJobs' = OpenJobs /\ EndedJobs' = EndedJobs
    BY <1>5, StayIs DEF UploadInv
  <2> QED
    BY <1>1, <1>2, <1>5, <2>1, GivesUp, StarterIs DEF Starts
<1>6. CASE Insert(job[q].rev, me.config, q) /\ Goto(NextId, TRUE) /\ lease' = lease
  <2>1. q \in 0 .. MaxJobs /\ job[q].rev \in Revisions /\ entry.rev \in Revisions
    BY <1>1, StarterIs, Basics DEF UploadInv, TypeInv, Rows, Entries
  <2>2. /\ Inserted(NextId) /\ Grows /\ (\E n \in 0 .. MaxJobs : Created' = 1 .. n)
        /\ OpenJobs' = OpenJobs \cup {NextId} /\ EndedJobs' = EndedJobs /\ NextId \in Created'
    BY <1>6, <2>1, StarterIs, InsertIs DEF UploadInv
  <2> DEFINE p == [Idle EXCEPT !.pc = "begin", !.job = NextId, !.mine = TRUE, !.rev = entry.rev,
                               !.config = me.config]
  <2>3. NextId \in 0 .. MaxJobs
    BY <2>2, Basics DEF Inserted
  <2>4. p \in Places /\ p.pc = "begin" /\ p.job = NextId /\ p.mine /\ p.todo = {}
    BY <2>1, <2>3, StarterIs, IdleType DEF Places, Steps
  <2>5. th' = [th EXCEPT ![Starter] = p]
    BY <1>6
  <2> HIDE DEF p
  <2>6. Moves(Starter, p)
    BY <2>4, <2>5, PlaceSet, Basics DEF UploadInv
  <2>7. Launches(p)
    BY <1>1, <1>6, <2>2, <2>4 DEF Launches, Launching, Inserted
  <2> QED
    BY <1>1, <1>2, <1>6, <2>2, <2>4, <2>6, <2>7, StarterIs DEF Starts
<1> QED
  BY <1>4, <1>5, <1>6

(* The upload that the command has created. *)
LEMMA LaunchingIs ==
  ASSUME UploadInv, Up, th[Starter].pc \in Launching
  PROVE  /\ lease = StartLease /\ th[Starter].job \in Created /\ th[Starter].job \in Jobs
         /\ th[Starter].mine /\ OpenJobs \subseteq {th[Starter].job}
         /\ th[Starter].pc = "begin" => job[th[Starter].job].state # "preparing"
         /\ th[Starter].pc \in {"claim", "spawn"} => job[th[Starter].job].state # "queued"
BY StarterIs DEF UploadInv, ThreadInv, StarterOk, Launching

(* start_upload_job. *)
LEMMA BeginIs ==
  ASSUME UploadInv, BeginJob
  PROVE  Starts
<1> DEFINE me == th[Starter]
           j == me.job
<1>1. /\ Up /\ me.pc = "begin" /\ UNCHANGED <<acked, entry, token, boot, told>>
  BY DEF BeginJob, At
<1>2. /\ lease = StartLease /\ j \in Created /\ j \in Jobs /\ me.mine /\ OpenJobs \subseteq {j}
      /\ job[j].state # "preparing"
  BY <1>1, LaunchingIs DEF Launching
<1>3. OneActive' /\ token' \in [Jobs -> Tokens]
  BY <1>1, StarterIs DEF OneActive, Active
<1>4. CASE job[j].state = "queued"
  <2>1. /\ job' = [job EXCEPT ![j].state = "preparing"]
        /\ th' = [th EXCEPT ![Starter].pc = "claim"] /\ lease' = lease
    BY <1>4 DEF BeginJob
  <2> DEFINE x == [job[j] EXCEPT !.state = "preparing"]
             p == [me EXCEPT !.pc = "claim"]
  <2>2. x \in Rows /\ x.rev = job[j].rev /\ x.state = "preparing"
    BY <1>2 DEF UploadInv, TypeInv, Rows, Open
  <2>3. job' = [job EXCEPT ![j] = x]
    BY <2>1
  <2>4. p \in Places /\ p.pc = "claim" /\ p.job = j /\ p.mine = me.mine /\ p.todo = me.todo
    BY StarterIs DEF Places, Steps
  <2>5. th' = [th EXCEPT ![Starter] = p]
    BY <2>1
  <2> HIDE DEF x, p
  <2>6. /\ Grows /\ Created' = Created /\ OpenJobs' = OpenJobs /\ EndedJobs' = EndedJobs
        /\ Turned(j, "preparing")
    BY <1>2, <1>4, <2>2, <2>3, FieldIs DEF UploadInv
  <2>7. Moves(Starter, p) /\ p.todo \subseteq EndedJobs
    BY <2>4, <2>5, PlaceSet, StarterIs, Basics DEF UploadInv
  <2>8. Launches(p)
    BY <1>2, <2>1, <2>4, <2>6 DEF Launches, Launching, Turned
  <2> QED
    BY <1>1, <1>3, <2>1, <2>4, <2>6, <2>7, <2>8, StarterIs DEF Starts
<1>5. CASE job[j].state # "queued"
  <2>1. Free(th) /\ job' = job
    BY <1>2, <1>5 DEF BeginJob
  <2>2. Grows /\ Created' = Created /\ OpenJobs' = OpenJobs /\ EndedJobs' = EndedJobs
    BY <2>1, StayIs DEF UploadInv
  <2>3. OpenJobs = {}
    BY <1>2, <1>5 DEF OpenJobs, Open
  <2> QED
    BY <1>1, <1>3, <2>1, <2>2, <2>3, GivesUp, StarterIs DEF Starts
<1> QED
  BY <1>4, <1>5

(* A new upload that is cancelled leaves nothing open. *)
LEMMA Compensates ==
  ASSUME UploadInv, Up, th[Starter].pc \in {"claim", "spawn"},
         CompleteUploadJob(th[Starter].job, "preparing", "cancelled")
  PROVE  Grows /\ Created' = Created /\ OpenJobs' = {}
<1> DEFINE j == th[Starter].job
<1>1. j \in Jobs /\ OpenJobs \subseteq {j} /\ job[j].state # "queued"
  BY LaunchingIs DEF Launching
<1>2. /\ Grows /\ Created' = Created
      /\ job[j].state = "preparing" => OpenJobs' = OpenJobs \ {j}
      /\ job[j].state # "preparing" => OpenJobs' = OpenJobs
  BY <1>1, CompleteIs DEF UploadInv, Open, Ended
<1>3. job[j].state # "preparing" => OpenJobs = {}
  BY <1>1 DEF OpenJobs, Open
<1> QED
  BY <1>1, <1>2, <1>3

(* begin_upload_operation: the token is claimed while no other upload is active. *)
LEMMA ClaimIs ==
  ASSUME UploadInv, ClaimToken
  PROVE  Starts
<1> DEFINE me == th[Starter]
           j == me.job
           active == {i \in Jobs : Active(i)}
<1>1. /\ Up /\ me.pc = "claim" /\ UNCHANGED <<acked, entry, boot, told>>
  BY DEF ClaimToken, At
<1>2. /\ lease = StartLease /\ j \in Created /\ j \in Jobs /\ me.mine /\ OpenJobs \subseteq {j}
      /\ job[j].state # "queued"
  BY <1>1, LaunchingIs DEF Launching
<1>3. CASE active = {}
  <2>1. /\ token' = [token EXCEPT ![j] = "running"] /\ th' = [th EXCEPT ![Starter].pc = "spawn"]
        /\ UNCHANGED <<job, lease>>
    BY <1>3 DEF ClaimToken
  <2> DEFINE p == [me EXCEPT !.pc = "spawn"]
  <2>2. p \in Places /\ p.pc = "spawn" /\ p.job = j /\ p.mine = me.mine /\ p.todo = me.todo
    BY StarterIs DEF Places, Steps
  <2>3. th' = [th EXCEPT ![Starter] = p]
    BY <2>1
  <2> HIDE DEF p
  <2>4. Grows /\ Created' = Created /\ OpenJobs' = OpenJobs /\ EndedJobs' = EndedJobs
    BY <2>1, StayIs DEF UploadInv
  <2>5. Moves(Starter, p) /\ p.todo \subseteq EndedJobs
    BY <2>2, <2>3, PlaceSet, StarterIs, Basics DEF UploadInv
  <2>6. Launches(p)
    BY <1>2, <2>1, <2>2, <2>4 DEF Launches, Launching
  <2>7. token' \in [Jobs -> Tokens] /\ \A i \in Jobs \ {j} : token'[i] = token[i]
    BY <1>2, <2>1, StarterIs DEF Tokens
  <2>8. OneActive'
    BY <1>3, <2>7 DEF OneActive, Active
  <2> QED
    BY <1>1, <2>1, <2>2, <2>4, <2>5, <2>6, <2>7, <2>8, StarterIs DEF Starts
<1>4. CASE active # {}
  <2>1. /\ CompleteUploadJob(j, "preparing", "cancelled")
        /\ \E i \in active : lease' = IF job[i].rev = job[j].rev THEN ReapedLease(i) ELSE FreeLease
        /\ th' = [th EXCEPT ![Starter] = Idle] /\ token' = token
    BY <1>2, <1>4 DEF ClaimToken
  <2>2. Grows /\ Created' = Created /\ OpenJobs' = {}
    BY <1>1, <2>1, Compensates
  <2>3. lease' \in Leases /\ lease' # StartLease
    BY <2>1, LeasesDiffer
  <2>4. Moves(Starter, Idle)
    BY <2>1, IdleType, PlaceSet, Basics DEF UploadInv
  <2>5. Rests(Idle)
    BY <2>2, <2>3, IdleType DEF Rests
  <2>6. OneActive' /\ token' \in [Jobs -> Tokens]
    BY <2>1, StarterIs DEF OneActive, Active
  <2> QED
    BY <1>1, <2>2, <2>3, <2>4, <2>5, <2>6, IdleType, StarterIs DEF Starts
<1> QED
  BY <1>3, <1>4

(* spawn_upload_worker cannot start its thread. *)
LEMMA SpawnFailsIs ==
  ASSUME UploadInv, SpawnFails
  PROVE  Starts
<1> DEFINE me == th[Starter]
           j == me.job
<1>1. /\ Up /\ me.pc = "spawn" /\ Free(th) /\ token' = [token EXCEPT ![j] = "none"]
      /\ UNCHANGED <<acked, entry, boot, told>>
  BY DEF SpawnFails, At
<1>2. j \in Jobs /\ me.mine
  BY <1>1, LaunchingIs DEF Launching
<1>3. CompleteUploadJob(j, "preparing", "cancelled")
  BY <1>2 DEF SpawnFails
<1>4. Grows /\ Created' = Created /\ OpenJobs' = {}
  BY <1>1, <1>3, Compensates
<1>5. /\ token' \in [Jobs -> Tokens] /\ token'[j] = "none"
      /\ \A i \in Jobs \ {j} : token'[i] = token[i]
  BY <1>1, <1>2, StarterIs DEF Tokens
<1>6. OneActive'
  BY <1>5, StarterIs DEF OneActive, Active
<1> QED
  BY <1>1, <1>4, <1>5, <1>6, GivesUp, StarterIs DEF Starts

-----------------------------------------------------------------------------
(* The other threads.                                                      *)

(* Uploads only end. *)
Settles ==
    /\ Grows /\ Created' = Created /\ OpenJobs' \subseteq OpenJobs
    /\ \A j \in Created : job[j].state # "preparing" => job'[j].state # "preparing"

(* Rows that stay are rows that only end. *)
LEMMA StaySettles ==
  ASSUME TypeInv, UNCHANGED job
  PROVE  Settles /\ EndedJobs' = EndedJobs
BY StayIs DEF Settles

(* So are those of complete_upload_job. *)
LEMMA CompleteSettles ==
  ASSUME TypeInv, RowInv, NEW j \in Jobs, NEW seen \in Open, NEW o \in Ended,
         CompleteUploadJob(j, seen, o)
  PROVE  Settles
<1>1. CASE job[j].state = seen
  BY <1>1, CompleteIs DEF Settles, Turned, Created, Ended
<1>2. CASE job[j].state # seen
  BY <1>2, CompleteIs DEF Settles
<1> QED
  BY <1>1, <1>2

(* The command that starts an upload waits meanwhile. *)
LEMMA StarterStays ==
  ASSUME UploadInv, Settles, th'[Starter] = th[Starter], UNCHANGED boot,
         lease' = lease \/ (Up /\ lease # StartLease /\ lease' # StartLease)
  PROVE  StarterOk'
<1> DEFINE me == th[Starter]
<1>1. Grows /\ EndedJobs \subseteq EndedJobs' /\ Created' = Created /\ OpenJobs' \subseteq OpenJobs
  BY GrowsIs DEF Settles
<1>2. Up' = Up
  BY DEF Up
<1>3. StarterOk
  BY DEF UploadInv, ThreadInv
<1>4. me.pc \in Launching => me.job \in Created
  BY <1>3 DEF StarterOk
<1>5. /\ me.pc = "begin" => job'[me.job].state # "preparing"
      /\ me.pc \in {"claim", "spawn"} => job'[me.job].state # "queued"
  BY <1>1, <1>3, <1>4 DEF StarterOk, Settles, Grows, Launching
<1> QED
  BY <1>1, <1>2, <1>3, <1>5 DEF StarterOk, Choosing

(* Nothing opens: the lease says what it said, and workers go on. *)
LEMMA LeaseStays ==
  ASSUME UploadInv, Settles, th'[Starter] = th[Starter], UNCHANGED <<boot, lease>>, OneActive',
         \A j \in OpenJobs' : th[Worker(j)].pc = "work" => th'[Worker(j)].pc = "work"
  PROVE  LeaseInv'
<1>1. OpenJobs' \subseteq OpenJobs /\ Up' = Up /\ LeaseInv
  BY DEF Settles, Up, UploadInv
<1>2. OpenUploadHasOwner'
  BY <1>1 DEF LeaseInv, OpenUploadHasOwner
<1> QED
  BY <1>1, <1>2 DEF LeaseInv, OneActive

(* Uploads that only end keep RowInv, whatever was reported of them. *)
LEMMA RowsStay ==
  ASSUME UploadInv, Settles, acked' \subseteq EndedJobs',
         \A j \in told' \ told : job'[j].state = "cancelled"
  PROVE  RowInv'
<1>1. \A j \in told : job'[j].state = "cancelled"
  BY GrowsIs DEF Settles, UploadInv, TypeInv, RowInv, FirstOutcomeStands, EndedJobs, Ended
<1> QED
  BY <1>1 DEF Settles, UploadInv, RowInv, FirstOutcomeStands

(* A step of one of them. *)
Acts(t) ==
    /\ t \in Threads \ {Starter}
    /\ \E p \in Places : Moves(t, p)
    /\ Settles /\ UNCHANGED <<boot, entry, lease>>
    /\ acked' \subseteq EndedJobs' /\ told' \subseteq Jobs
    /\ \A j \in told' \ told : job'[j].state = "cancelled"
    /\ token' \in [Jobs -> Tokens] /\ OneActive'
    /\ PassOk(t)'
    /\ t = Canceller => CancellerOk'
    /\ t = Poller => PollerOk'
    /\ \A j \in Jobs : t = Worker(j) =>
         WorkerOk(j)' /\ (j \in OpenJobs' /\ th[t].pc = "work" => th'[t].pc = "work")

(* A step of another thread keeps the invariant. *)
LEMMA ActsKept ==
  ASSUME UploadInv, Up, NEW t, Acts(t), budget' \in Limited
  PROVE  UploadInv'
<1>1. t \in Threads /\ t # Starter /\ Settles /\ Grows /\ TypeInv
  BY DEF Acts, Settles, UploadInv
<1>2. th' \in [Threads -> Places] /\ \A x \in Threads : x # t => th'[x] = th[x]
  BY DEF Acts, Moves
<1>3. TypeInv'
  <2>1. acked' \subseteq Jobs
    BY DEF Acts, EndedJobs
  <2> QED
    BY <1>1, <1>2, <2>1 DEF Acts, TypeInv, Grows
<1>4. RowInv'
  BY <1>1, RowsStay DEF Acts
<1>5. Up' /\ DownInv'
  BY DEF Acts, Up, DownInv
<1>6. th'[Starter] = th[Starter]
  BY <1>1, <1>2, Basics
<1>7. StarterOk'
  BY <1>1, <1>6, StarterStays DEF Acts
<1>8. CancellerOk' /\ PollerOk'
  BY <1>2, Basics DEF Acts, UploadInv, ThreadInv, CancellerOk, PollerOk
<1>9. ASSUME NEW j \in Jobs PROVE WorkerOk(j)'
  <2>1. Worker(j) \in Threads /\ WorkerOk(j)
    BY Basics DEF UploadInv, ThreadInv
  <2>2. CASE t = Worker(j)
    BY <2>2 DEF Acts
  <2>3. CASE t # Worker(j)
    BY <1>1, <1>2, <2>1, <2>3, WorkerStays
  <2> QED
    BY <2>2, <2>3
<1>10. ASSUME NEW x \in Threads PROVE PassOk(x)'
  <2>1. CASE x = t
    BY <2>1 DEF Acts
  <2>2. CASE x # t
    BY <1>1, <1>2, <2>2, PassStays DEF Acts, UploadInv, ThreadInv
  <2> QED
    BY <2>1, <2>2
<1>11. LeaseInv'
  <2>1. ASSUME NEW j \in OpenJobs', th[Worker(j)].pc = "work" PROVE th'[Worker(j)].pc = "work"
    <3>1. j \in Jobs /\ Worker(j) \in Threads
      BY Basics DEF OpenJobs
    <3> QED
      BY <1>2, <2>1, <3>1 DEF Acts
  <2> QED
    BY <1>1, <1>6, <2>1, LeaseStays DEF Acts
<1>12. EntryInv'
  BY <1>1, EntryStays DEF Acts, UploadInv
<1> QED
  BY <1>3, <1>4, <1>5, <1>7, <1>8, <1>9, <1>10, <1>11, <1>12 DEF UploadInv, ThreadInv

(* A token changes; only an active one stays active. *)
LEMMA TokenIs ==
  ASSUME UploadInv, NEW j \in Jobs, NEW s \in Tokens, token' = [token EXCEPT ![j] = s],
         s \in {"running", "cancelling"} => Active(j)
  PROVE  token' \in [Jobs -> Tokens] /\ OneActive'
<1>1. /\ token' \in [Jobs -> Tokens] /\ token'[j] = s
      /\ \A i \in Jobs \ {j} : token'[i] = token[i]
  BY StarterIs
<1>2. \A i \in Jobs : Active(i)' => Active(i)
  BY <1>1 DEF Active
<1> QED
  BY <1>1, <1>2, StarterIs DEF OneActive

(* Tokens that stay. *)
LEMMA TokenStays ==
  ASSUME UploadInv, UNCHANGED token
  PROVE  token' \in [Jobs -> Tokens] /\ OneActive'
BY StarterIs DEF OneActive, Active

(* A place that differs in its step only. *)
LEMMA StepIs ==
  ASSUME UploadInv, NEW t \in Threads, NEW pc \in Steps, th' = [th EXCEPT ![t].pc = pc]
  PROVE  /\ \E p \in Places : Moves(t, p)
         /\ th'[t].pc = pc /\ th'[t].todo = th[t].todo /\ th'[t].job = th[t].job
<1> DEFINE p == [th[t] EXCEPT !.pc = pc]
<1>1. p \in Places /\ p.pc = pc /\ p.todo = th[t].todo /\ p.job = th[t].job
  BY DEF UploadInv, TypeInv, Places
<1>2. th' = [th EXCEPT ![t] = p]
  OBVIOUS
<1> HIDE DEF p
<1>3. Moves(t, p) /\ th'[t] = p
  BY <1>1, <1>2, PlaceSet DEF UploadInv, Moves
<1> QED
  BY <1>1, <1>3

(* What holds of every thread before a step. *)
LEMMA ThreadIs ==
  ASSUME UploadInv, NEW t \in Threads
  PROVE  /\ th[t] \in Places /\ PassOk(t) /\ TypeInv /\ RowInv
         /\ acked \subseteq EndedJobs /\ acked \subseteq Jobs /\ told \subseteq Jobs
BY DEF UploadInv, TypeInv, ThreadInv, RowInv

(* finish_upload: the outcome is recorded by the worker. *)
LEMMA PerformIs ==
  ASSUME UploadInv, NEW j \in Jobs, NEW o \in Ended, PerformUpload(j, o)
  PROVE  Up /\ Acts(Worker(j))
<1> DEFINE t == Worker(j)
<1>1. /\ Up /\ th[t].pc = "work" /\ CompleteUploadJob(j, "preparing", o)
      /\ UNCHANGED <<acked, entry, lease, token, boot, told>>
  BY DEF PerformUpload, At
<1>2. t \in Threads \ {Starter} /\ t # Canceller /\ t # Poller /\ \A i \in Jobs : t = Worker(i) => i = j
  BY Basics
<1>3. \E pc \in {"finish", "release"} : th' = [th EXCEPT ![t].pc = pc]
  BY DEF PerformUpload
<1>4. /\ \E p \in Places : Moves(t, p)
      /\ th'[t].pc \in {"finish", "release"} /\ th'[t].todo = th[t].todo
  BY <1>2, <1>3, StepIs DEF Steps
<1>5. Settles /\ Grows
  BY <1>1, ThreadIs, <1>2, CompleteSettles DEF Open, Settles
<1>6. j \notin OpenJobs'
  <2>1. job[j].state # "queued"
    BY <1>1 DEF UploadInv, ThreadInv, WorkerOk
  <2>2. CASE job[j].state = "preparing"
    BY <1>1, <1>2, <2>2, ThreadIs, CompleteIs DEF Open
  <2>3. CASE job[j].state # "preparing"
    BY <1>5, <2>1, <2>3 DEF Settles, OpenJobs, Open
  <2> QED
    BY <2>2, <2>3
<1>7. acked' \subseteq EndedJobs' /\ told' \subseteq Jobs /\ PassOk(t)'
  BY <1>1, <1>2, <1>4, <1>5, ThreadIs, GrowsIs DEF PassOk
<1>8. WorkerOk(j)'
  BY <1>4 DEF WorkerOk
<1> QED
  BY <1>1, <1>2, <1>4, <1>5, <1>6, <1>7, <1>8, TokenStays DEF Acts

(* finish_upload: the token is committed, then given back. *)
LEMMA FinishIs ==
  ASSUME UploadInv, NEW j \in Jobs, CommitToken(j) \/ ClearToken(j)
  PROVE  Up /\ Acts(Worker(j))
<1> DEFINE t == Worker(j)
<1>1. /\ Up /\ th[t].pc \in {"finish", "release"}
      /\ \E s \in {"committed", "none"} : token' = [token EXCEPT ![j] = s]
      /\ \E pc \in {"release", "pass"} : th' = [th EXCEPT ![t].pc = pc]
      /\ UNCHANGED <<job, acked, entry, lease, boot, told>>
  BY DEF CommitToken, ClearToken, At, durable
<1>2. t \in Threads \ {Starter} /\ t # Canceller /\ t # Poller /\ \A i \in Jobs : t = Worker(i) => i = j
  BY Basics
<1>3. /\ \E p \in Places : Moves(t, p)
      /\ th'[t].pc \in {"release", "pass"} /\ th'[t].todo = th[t].todo
  BY <1>1, <1>2, StepIs DEF Steps
<1>4. Settles /\ EndedJobs' = EndedJobs
  BY <1>1, <1>2, ThreadIs, StaySettles
<1>5. token' \in [Jobs -> Tokens] /\ OneActive'
  BY <1>1, TokenIs DEF Tokens
<1>6. acked' \subseteq EndedJobs' /\ told' \subseteq Jobs /\ PassOk(t)'
  BY <1>1, <1>2, <1>3, <1>4, ThreadIs DEF PassOk
<1>7. WorkerOk(j)'
  BY <1>3 DEF WorkerOk, Passing
<1> QED
  BY <1>1, <1>2, <1>3, <1>4, <1>5, <1>6, <1>7 DEF Acts

(* cancel_durable_upload: the state is read. *)
LEMMA CancelIs ==
  ASSUME UploadInv, NEW j \in Jobs, CancelUpload(j)
  PROVE  Up /\ Acts(Canceller)
<1> DEFINE p == [Idle EXCEPT !.pc = "flag", !.job = j, !.seen = job[j].state]
<1>1. /\ Up /\ j \in OpenJobs /\ th' = [th EXCEPT ![Canceller] = p]
      /\ UNCHANGED <<job, acked, entry, lease, boot, told, token>>
  BY DEF CancelUpload, At, durable
<1>2. job[j].state \in Open /\ j \in 0 .. MaxJobs
  BY <1>1, Basics DEF OpenJobs
<1>3. p \in Places /\ p.pc = "flag" /\ p.job = j /\ p.seen \in Open /\ p.todo = {}
  BY <1>2, IdleType DEF Places, Steps
<1> HIDE DEF p
<1>4. /\ Canceller \in Threads \ {Starter} /\ Canceller # Poller
      /\ \A i \in Jobs : Canceller # Worker(i)
  BY Basics
<1>5. Moves(Canceller, p) /\ th'[Canceller] = p
  BY <1>1, <1>3, <1>4, ThreadIs, PlaceSet DEF Moves
<1>6. Settles /\ EndedJobs' = EndedJobs
  BY <1>1, <1>4, ThreadIs, StaySettles
<1>7. acked' \subseteq EndedJobs' /\ told' \subseteq Jobs /\ PassOk(Canceller)' /\ CancellerOk'
  BY <1>1, <1>3, <1>4, <1>5, <1>6, ThreadIs DEF PassOk, CancellerOk
<1> QED
  BY <1>1, <1>3, <1>4, <1>5, <1>6, <1>7, TokenStays DEF Acts

(* cancel_durable_upload: the flag is set. *)
LEMMA RequestIs ==
  ASSUME UploadInv, RequestCancel
  PROVE  Up /\ Acts(Canceller)
<1> DEFINE me == th[Canceller]
           j == me.job
<1>1. /\ Up /\ me.pc = "flag" /\ UNCHANGED <<job, acked, entry, lease, boot, told>>
  BY DEF RequestCancel, At, durable
<1>2. j \in Jobs /\ me.seen \in Open /\ me \in Places /\ me.todo \subseteq EndedJobs
  BY <1>1, Basics, ThreadIs DEF UploadInv, ThreadInv, CancellerOk, PassOk
<1>3. /\ Canceller \in Threads \ {Starter} /\ Canceller # Poller
      /\ \A i \in Jobs : Canceller # Worker(i)
  BY Basics
<1>4. \E p \in Places : /\ Moves(Canceller, p) /\ p.pc \in {"idle", "cancel"}
                        /\ p.todo \subseteq EndedJobs
                        /\ (p.pc = "cancel" => p.job = j /\ p.seen = me.seen)
  <2>1. CASE token[j] = "committed"
    <3>1. th' = [th EXCEPT ![Canceller] = Idle]
      BY <2>1 DEF RequestCancel
    <3>2. Moves(Canceller, Idle)
      BY <1>3, <3>1, IdleType, ThreadIs, PlaceSet
    <3> QED
      BY <3>2, IdleType
  <2>2. CASE token[j] # "committed"
    <3> DEFINE a == Active(j)
               p == [me EXCEPT !.pc = "cancel", !.mine = a]
    <3>1. a \in BOOLEAN
      BY DEF Active
    <3> HIDE DEF a
    <3>2. p \in Places /\ p.pc = "cancel" /\ p.job = j /\ p.seen = me.seen /\ p.todo = me.todo
      BY <1>2, <3>1 DEF Places, Steps
    <3>3. th' = [th EXCEPT ![Canceller] = p]
      BY <2>2, <1>3, ThreadIs DEF RequestCancel, TypeInv, a
    <3> HIDE DEF p
    <3>4. Moves(Canceller, p)
      BY <1>3, <3>2, <3>3, ThreadIs, PlaceSet
    <3> QED
      BY <1>2, <3>2, <3>4
  <2> QED
    BY <2>1, <2>2
<1>5. PICK p \in Places : /\ Moves(Canceller, p) /\ p.pc \in {"idle", "cancel"}
                          /\ p.todo \subseteq EndedJobs
                          /\ (p.pc = "cancel" => p.job = j /\ p.seen = me.seen)
  BY <1>4
<1>6. th'[Canceller] = p
  BY <1>5 DEF Moves
<1>7. Settles /\ EndedJobs' = EndedJobs
  BY <1>1, <1>3, ThreadIs, StaySettles
<1>8. token' \in [Jobs -> Tokens] /\ OneActive'
  <2>1. CASE token' = token
    BY <2>1, TokenStays
  <2>2. CASE Active(j) /\ token' = [token EXCEPT ![j] = "cancelling"]
    BY <1>2, <2>2, TokenIs DEF Tokens
  <2> QED
    BY <2>1, <2>2 DEF RequestCancel
<1>9. acked' \subseteq EndedJobs' /\ told' \subseteq Jobs /\ PassOk(Canceller)' /\ CancellerOk'
  BY <1>1, <1>2, <1>3, <1>5, <1>6, <1>7, ThreadIs DEF PassOk, CancellerOk, Passing
<1> QED
  BY <1>1, <1>3, <1>5, <1>7, <1>8, <1>9 DEF Acts

(* cancel_durable_upload: the row is cancelled as it was read, or the race is lost. *)
LEMMA CommitIs ==
  ASSUME UploadInv, CommitCancel
  PROVE  Up /\ Acts(Canceller)
<1> DEFINE me == th[Canceller]
           j == me.job
<1>1. /\ Up /\ me.pc = "cancel" /\ UNCHANGED <<acked, entry, lease, boot>>
      /\ CompleteUploadJob(j, me.seen, "cancelled")
  BY DEF CommitCancel, At
<1>2. j \in Jobs /\ me.seen \in Open
  BY <1>1, Basics, ThreadIs DEF UploadInv, ThreadInv, CancellerOk
<1>3. /\ Canceller \in Threads \ {Starter} /\ Canceller # Poller
      /\ \A i \in Jobs : Canceller # Worker(i)
  BY Basics
<1>4. Settles /\ Grows
  BY <1>1, <1>2, <1>3, ThreadIs, CompleteSettles DEF Ended, Settles
<1>5. \E p \in Places : Moves(Canceller, p) /\ p.pc \in {"idle", "pass"} /\ p.todo = {}
  <2> DEFINE q == [Idle EXCEPT !.pc = "pass"]
  <2>1. q \in Places /\ q.pc = "pass" /\ q.todo = {}
    BY IdleType DEF Places, Steps
  <2>2. th' = [th EXCEPT ![Canceller] = q] \/ th' = [th EXCEPT ![Canceller] = Idle]
    BY DEF CommitCancel
  <2> HIDE DEF q
  <2> QED
    BY <1>3, <2>1, <2>2, IdleType, ThreadIs, PlaceSet
<1>6. PICK p \in Places : Moves(Canceller, p) /\ p.pc \in {"idle", "pass"} /\ p.todo = {}
  BY <1>5
<1>7. th'[Canceller] = p
  BY <1>6 DEF Moves
<1>8. told' \subseteq Jobs /\ \A i \in told' \ told : job'[i].state = "cancelled"
  <2>1. CASE job[j].state = me.seen
    <3>1. told' = told \cup {j} /\ Turned(j, "cancelled")
      BY <1>1, <1>2, <1>3, <2>1, ThreadIs, CompleteIs DEF CommitCancel, Ended
    <3> QED
      BY <1>2, <1>3, <3>1, ThreadIs DEF Turned
  <2>2. CASE job[j].state # me.seen
    BY <1>3, <2>2, ThreadIs DEF CommitCancel
  <2> QED
    BY <2>1, <2>2
<1>9. token' \in [Jobs -> Tokens] /\ OneActive'
  <2>1. CASE token' = token
    BY <2>1, TokenStays
  <2>2. CASE token' = [token EXCEPT ![j] = IF me.mine /\ @ # "none" THEN "committed" ELSE @]
    <3>1. CASE me.mine /\ token[j] # "none"
      <4>1. token' = [token EXCEPT ![j] = "committed"]
        BY <2>2, <3>1
      <4> QED
        BY <1>2, <4>1, TokenIs DEF Tokens
    <3>2. CASE ~(me.mine /\ token[j] # "none")
      <4>1. token' = token
        BY <2>2, <3>2, StarterIs
      <4> QED
        BY <4>1, TokenStays
    <3> QED
      BY <3>1, <3>2
  <2> QED
    BY <2>1, <2>2 DEF CommitCancel
<1>10. acked' \subseteq EndedJobs' /\ PassOk(Canceller)' /\ CancellerOk'
  BY <1>1, <1>3, <1>4, <1>6, <1>7, ThreadIs, GrowsIs DEF PassOk, CancellerOk, Passing
<1> QED
  BY <1>1, <1>3, <1>4, <1>6, <1>8, <1>9, <1>10 DEF Acts

-----------------------------------------------------------------------------
(* The passes that deliver outcomes.                                       *)

(* Where a pass goes with what it has left. *)
LEMMA OnwardType ==
  ASSUME NEW S, S \subseteq Jobs
  PROVE  /\ Onward(S) \in Places /\ Onward(S).pc \in {"idle", "deliver"}
         /\ Onward(S).todo \subseteq S
BY IdleType DEF Onward, Places, Steps

(* A step of a pass that leaves the library alone. *)
LEMMA PassActs ==
  ASSUME UploadInv, NEW t \in Threads, th[t].pc \in Passing, t = Poller \/ th[t].pc # "idle",
         NEW p \in Places, Moves(t, p), p.pc \in Passing, PassOk(t)', acked' \subseteq EndedJobs,
         UNCHANGED <<job, entry, lease, token, boot, told>>
  PROVE  Acts(t)
<1>1. t # Starter
  BY Basics DEF UploadInv, ThreadInv, StarterOk, Passing, Choosing, Launching
<1>2. Settles /\ EndedJobs' = EndedJobs
  BY ThreadIs, StaySettles
<1>3. th'[t] = p
  BY DEF Moves
<1>4. t = Canceller => CancellerOk'
  BY <1>3 DEF CancellerOk, Passing
<1>5. t = Poller => PollerOk'
  BY <1>3 DEF PollerOk
<1>6. ASSUME NEW j \in Jobs, t = Worker(j) PROVE WorkerOk(j)' /\ th[t].pc # "work"
  BY <1>3, <1>6 DEF WorkerOk, Passing
<1> QED
  BY <1>1, <1>2, <1>4, <1>5, <1>6, ThreadIs, TokenStays DEF Acts

(* deliver_terminal_outcomes lists what is owed. *)
LEMMA PassStartsIs ==
  ASSUME UploadInv, NEW t \in Threads, PassStarts(t)
  PROVE  Up /\ Acts(t)
<1> DEFINE p == Onward(Owed)
<1>1. /\ Up /\ th[t].pc \in Passing /\ (t = Poller \/ th[t].pc # "idle")
      /\ th' = [th EXCEPT ![t] = p]
      /\ UNCHANGED <<job, acked, entry, lease, token, boot, told>>
  BY DEF PassStarts, At, durable, Passing
<1>2. Owed \subseteq EndedJobs /\ Owed \subseteq Jobs
  BY DEF Owed, EndedJobs
<1>3. p \in Places /\ p.pc \in {"idle", "deliver"} /\ p.todo \subseteq EndedJobs
  BY <1>2, OnwardType
<1> HIDE DEF p
<1>4. Moves(t, p) /\ th'[t] = p
  BY <1>1, <1>3, ThreadIs, PlaceSet DEF Moves
<1>5. EndedJobs' = EndedJobs
  BY <1>1 DEF EndedJobs
<1>6. PassOk(t)'
  BY <1>3, <1>4, <1>5 DEF PassOk
<1> QED
  BY <1>1, <1>3, <1>4, <1>6, PassActs, ThreadIs DEF Passing

(* apply_upload_completion reads the row. *)
LEMMA ReadIs ==
  ASSUME UploadInv, NEW t \in Threads, ReadRow(t)
  PROVE  Up /\ Acts(t)
<1>1. /\ Up /\ th[t].pc = "deliver"
      /\ UNCHANGED <<job, acked, entry, lease, token, boot, told>>
  BY DEF ReadRow, At, durable
<1>2. PICK j \in Jobs :
        /\ InTurn(j, th[t].todo)
        /\ LET next == [Idle EXCEPT !.job = j, !.todo = th[t].todo \ {j}]
           IN th' = [th EXCEPT ![t] =
                        IF NeedsNoWrite(j) THEN [next EXCEPT !.pc = "ack"]
                        ELSE [next EXCEPT !.pc = "project", !.entry = entry]]
  BY DEF ReadRow
<1>3. j \in EndedJobs /\ th[t].todo \subseteq EndedJobs /\ th[t].todo \subseteq Jobs /\ j \in 0 .. MaxJobs
  BY <1>2, ThreadIs, Basics DEF InTurn, PassOk, Places
<1>4. EndedJobs' = EndedJobs
  BY <1>1 DEF EndedJobs
<1> DEFINE next == [Idle EXCEPT !.job = j, !.todo = th[t].todo \ {j}]
           p == IF NeedsNoWrite(j) THEN [next EXCEPT !.pc = "ack"]
                ELSE [next EXCEPT !.pc = "project", !.entry = entry]
<1>5. /\ next \in Places /\ next.job = j /\ next.todo = th[t].todo \ {j}
  <2>1. th[t].todo \ {j} \in SUBSET Jobs
    BY <1>3
  <2> QED
    BY <1>3, <2>1, IdleType DEF Places
<1>6. th' = [th EXCEPT ![t] = p]
  BY <1>2
<1> HIDE DEF next
<1>7. /\ p \in Places /\ p.pc \in {"ack", "project"} /\ p.job = j /\ p.todo \subseteq EndedJobs
      /\ p.pc = "project" => p.entry = entry /\ entry.rev = job[j].rev
  <2>1. CASE NeedsNoWrite(j)
    BY <1>3, <1>5, <2>1 DEF Places, Steps
  <2>2. CASE ~NeedsNoWrite(j)
    <3>1. entry \in Entries /\ entry.rev = job[j].rev
      BY <2>2, ThreadIs DEF TypeInv, NeedsNoWrite
    <3> DEFINE q == [next EXCEPT !.pc = "project", !.entry = entry]
    <3>2. q \in Places /\ q.pc = "project" /\ q.entry = entry /\ q.job = j /\ q.todo = next.todo
      BY <1>5, <3>1 DEF Places, Steps
    <3>3. p = q
      BY <2>2
    <3> HIDE DEF q
    <3> QED
      BY <1>3, <1>5, <3>1, <3>2, <3>3
  <2> QED
    BY <2>1, <2>2
<1> HIDE DEF p
<1>8. Moves(t, p) /\ th'[t] = p
  BY <1>6, <1>7, ThreadIs, PlaceSet DEF Moves
<1>9. PassOk(t)'
  BY <1>1, <1>3, <1>4, <1>7, <1>8 DEF PassOk
<1> QED
  BY <1>1, <1>7, <1>8, <1>9, PassActs, ThreadIs DEF Passing

(* deliver_terminal_outcomes acknowledges what it has applied. *)
LEMMA AcknowledgeIs ==
  ASSUME UploadInv, NEW t \in Threads, Acknowledge(t)
  PROVE  Up /\ Acts(t)
<1> DEFINE p == Onward(th[t].todo)
<1>1. /\ Up /\ th[t].pc = "ack" /\ th' = [th EXCEPT ![t] = p] /\ acked' = acked \cup {th[t].job}
      /\ UNCHANGED <<job, entry, lease, token, boot, told>>
  BY DEF Acknowledge, At
<1>2. th[t].job \in EndedJobs /\ th[t].todo \subseteq EndedJobs /\ th[t].todo \subseteq Jobs
  BY <1>1, ThreadIs DEF PassOk, Places
<1>3. p \in Places /\ p.pc \in {"idle", "deliver"} /\ p.todo \subseteq EndedJobs
  BY <1>2, OnwardType
<1> HIDE DEF p
<1>4. Moves(t, p) /\ th'[t] = p
  BY <1>1, <1>3, ThreadIs, PlaceSet DEF Moves
<1>5. EndedJobs' = EndedJobs
  BY <1>1 DEF EndedJobs
<1>6. PassOk(t)'
  BY <1>3, <1>4, <1>5 DEF PassOk
<1> QED
  BY <1>1, <1>2, <1>3, <1>4, <1>6, PassActs, ThreadIs DEF Passing

(* A write that found the store moved changes nothing. *)
LEMMA ConflictIs ==
  ASSUME UploadInv, NEW t \in Threads, ProjectRow(t), th[t].moved
  PROVE  Up /\ Acts(t)
<1> DEFINE acks == [th[t] EXCEPT !.pc = "ack", !.entry = Unread, !.moved = FALSE]
           on == Onward(th[t].todo)
<1>1. /\ Up /\ th[t].pc = "project" /\ (th' = [th EXCEPT ![t] = acks] \/ th' = [th EXCEPT ![t] = on])
      /\ UNCHANGED <<job, acked, entry, lease, token, boot, told>>
  BY DEF ProjectRow, At
<1>2. th[t].job \in EndedJobs /\ th[t].todo \subseteq EndedJobs /\ th[t].todo \subseteq Jobs
  BY <1>1, ThreadIs DEF PassOk, Places
<1>3. on \in Places /\ on.pc \in {"idle", "deliver"} /\ on.todo \subseteq EndedJobs
  BY <1>2, OnwardType
<1>4. acks \in Places /\ acks.pc = "ack" /\ acks.todo = th[t].todo /\ acks.job = th[t].job
  BY ThreadIs, IdleType DEF Places, Steps
<1> HIDE DEF on, acks
<1>5. PICK p \in {on, acks} : th' = [th EXCEPT ![t] = p]
  BY <1>1
<1>6. Moves(t, p) /\ th'[t] = p
  BY <1>3, <1>4, <1>5, ThreadIs, PlaceSet DEF Moves
<1>7. EndedJobs' = EndedJobs
  BY <1>1 DEF EndedJobs
<1>8. PassOk(t)' /\ p.pc \in Passing /\ p \in Places
  BY <1>2, <1>3, <1>4, <1>5, <1>6, <1>7 DEF PassOk, Passing
<1> QED
  BY <1>1, <1>6, <1>8, PassActs, ThreadIs DEF Passing

-----------------------------------------------------------------------------
(* Writes of the library row, which every thread that has read it notices. *)

(* Notified, for the threads that do not move themselves. *)
LEMMA NoticedIs ==
  ASSUME UploadInv, NEW x \in Threads
  PROVE  /\ Notified[x] = Noticed(th[x]) /\ Noticed(th[x]) \in Places
         /\ Noticed(th[x]).pc = th[x].pc /\ Noticed(th[x]).job = th[x].job
         /\ Noticed(th[x]).seen = th[x].seen
         /\ th[x].pc # "project" => Noticed(th[x]) = th[x]
<1>1. th[x] \in Places
  BY DEF UploadInv, TypeInv
<1>2. Notified[x] = Noticed(th[x])
  BY DEF Notified, Noticed
<1> QED
  BY <1>1, <1>2 DEF Noticed, Places

(* The rows and the lease are left alone; a thread of S has written the row, *)
(* the others only notice.                                                   *)
Noticing(S) ==
    /\ UNCHANGED <<job, acked, lease, token, boot, told>>
    /\ th' \in [Threads -> Places] /\ entry' \in Entries
    /\ S \subseteq Threads \ {Starter}
    /\ \A x \in Threads \ S : th'[x] = Noticed(th[x])
    /\ \A x \in S : PassOk(x)' /\ th[x].pc = "project" /\ th'[x].pc = "ack"

(* A write of the library row keeps the invariant. *)
LEMMA NoticingKept ==
  ASSUME UploadInv, Up, NEW S, Noticing(S), EntryInv', budget' \in Limited
  PROVE  UploadInv'
<1>1. TypeInv /\ Settles /\ EndedJobs' = EndedJobs /\ Grows
  BY StaySettles DEF UploadInv, Noticing, Settles
<1>2. TypeInv'
  BY <1>1 DEF Noticing, TypeInv
<1>3. RowInv'
  BY <1>1, RowsStay, StarterIs DEF Noticing, UploadInv, RowInv
<1>4. Up' /\ DownInv'
  BY DEF Noticing, Up, DownInv
<1>5. th'[Starter] = th[Starter]
  <2>1. th[Starter].pc # "project"
    BY DEF UploadInv, ThreadInv, StarterOk, Choosing, Launching
  <2>2. Starter \in Threads \ S
    BY Basics DEF Noticing
  <2> QED
    BY <2>1, <2>2, NoticedIs DEF Noticing
<1>6. StarterOk'
  BY <1>1, <1>5, StarterStays DEF Noticing
<1>7. ASSUME NEW x \in Threads
      PROVE  \/ th'[x].pc = "ack" /\ th[x].pc = "project"
             \/ th'[x].pc = th[x].pc /\ th'[x].job = th[x].job /\ th'[x].seen = th[x].seen
  <2>1. CASE x \in S
    BY <2>1 DEF Noticing
  <2>2. CASE x \notin S
    BY <2>2, NoticedIs DEF Noticing
  <2> QED
    BY <2>1, <2>2
<1>8. CancellerOk' /\ PollerOk'
  <2>1. CancellerOk /\ PollerOk
    BY DEF UploadInv, ThreadInv
  <2>2. CancellerOk'
    BY <1>7, <2>1, Basics DEF CancellerOk, Passing
  <2>3. PollerOk'
    BY <1>7, <2>1, Basics DEF PollerOk, Passing
  <2> QED
    BY <2>2, <2>3
<1>9. ASSUME NEW j \in Jobs PROVE WorkerOk(j)'
  <2>1. Worker(j) \in Threads /\ WorkerOk(j)
    BY Basics DEF UploadInv, ThreadInv
  <2>2. CASE th'[Worker(j)].pc = th[Worker(j)].pc
    BY <1>1, <2>1, <2>2, WorkerStays
  <2>3. CASE th'[Worker(j)].pc = "ack"
    BY <2>3 DEF WorkerOk, Passing
  <2> QED
    BY <1>7, <2>1, <2>2, <2>3
<1>10. ASSUME NEW x \in Threads PROVE PassOk(x)'
  <2>1. CASE x \in S
    BY <2>1 DEF Noticing
  <2>2. CASE x \notin S
    BY <1>1, <2>2, PassNotices DEF Noticing, UploadInv, ThreadInv
  <2> QED
    BY <2>1, <2>2
<1>11. LeaseInv'
  <2>1. OneActive'
    BY StarterIs DEF Noticing, OneActive, Active
  <2>2. ASSUME NEW j \in OpenJobs', th[Worker(j)].pc = "work" PROVE th'[Worker(j)].pc = "work"
    <3>1. Worker(j) \in Threads
      BY Basics DEF OpenJobs
    <3> QED
      BY <1>7, <2>2, <3>1
  <2> QED
    BY <1>1, <1>5, <2>1, <2>2, LeaseStays DEF Noticing
<1> QED
  BY <1>2, <1>3, <1>4, <1>6, <1>8, <1>9, <1>10, <1>11 DEF UploadInv, ThreadInv

(* An outcome is written to the row that was read. *)
LEMMA ProjectKept ==
  ASSUME UploadInv, NEW t \in Threads, ProjectRow(t), ~th[t].moved, budget' \in Limited
  PROVE  UploadInv'
<1> DEFINE j == th[t].job
           acks == [th[t] EXCEPT !.pc = "ack", !.entry = Unread, !.moved = FALSE]
<1>1. /\ Up /\ th[t].pc = "project" /\ entry' = Projected(th[t].entry, j)
      /\ th' = [Notified EXCEPT ![t] = acks]
      /\ UNCHANGED <<job, acked, lease, token, boot, told>>
  BY DEF ProjectRow, At
<1>2. /\ j \in EndedJobs /\ th[t].todo \subseteq EndedJobs /\ th[t].entry = entry
      /\ entry.rev = job[j].rev
  BY <1>1, ThreadIs DEF PassOk
<1>3. acks \in Places /\ acks.pc = "ack" /\ acks.todo = th[t].todo /\ acks.job = j
  BY ThreadIs, IdleType DEF Places, Steps
<1> HIDE DEF acks
<1>4. /\ Notified \in [Threads -> Places] /\ th' \in [Threads -> Places] /\ th'[t] = acks
      /\ \A x \in Threads \ {t} : th'[x] = Noticed(th[x])
  <2>1. Notified \in [Threads -> Places]
    <3>1. \A x \in Threads : Notified[x] \in Places
      BY NoticedIs
    <3>2. DOMAIN Notified = Threads /\ Notified = [x \in Threads |-> Notified[x]]
      BY DEF Notified
    <3> QED
      BY <3>1, <3>2
  <2> QED
    BY <1>1, <1>3, <2>1, NoticedIs
<1>5. EndedJobs' = EndedJobs
  BY <1>1 DEF EndedJobs
<1>6. /\ entry' \in Entries /\ entry'.by = j /\ entry'.rev = job[j].rev
      /\ entry'.status = StatusOf(job[j].state)
  <2>1. entry \in Entries /\ j \in 0 .. MaxJobs
    BY <1>2, StarterIs, Basics, ThreadIs DEF TypeInv
  <2>2. StatusOf(job[j].state) \in {"none", "uploading", "failed", "done"}
    BY DEF StatusOf
  <2> QED
    BY <1>1, <1>2, <2>1, <2>2 DEF Projected, Entries
<1>7. EntryInv'
  BY <1>1, <1>2, <1>5, <1>6 DEF EntryInv, ShownOutcomeIsReal, StatusOf
<1>8. PassOk(t)'
  BY <1>2, <1>3, <1>4, <1>5 DEF PassOk
<1>9. t # Starter
  BY <1>1 DEF UploadInv, ThreadInv, StarterOk, Choosing, Launching
<1>10. Noticing({t})
  BY <1>1, <1>3, <1>4, <1>6, <1>8, <1>9 DEF Noticing
<1> QED
  BY <1>1, <1>7, <1>10, NoticingKept

(* A download, or another projection, writes the row. *)
LEMMA OtherWriteKept ==
  ASSUME UploadInv, OtherWrite, budget' \in Limited
  PROVE  UploadInv'
<1>1. /\ Up /\ th' = Notified /\ UNCHANGED <<job, acked, lease, token, boot, told>>
  BY DEF OtherWrite
<1>2. \A x \in Threads : th'[x] = Noticed(th[x]) /\ th'[x] \in Places
  BY <1>1, NoticedIs
<1>3. th' \in [Threads -> Places]
  BY <1>1, <1>2 DEF Notified
<1>4. TypeInv /\ EntryInv /\ Grows
  BY <1>1, StayIs DEF UploadInv
<1>5. entry' \in Entries /\ EntryInv'
  <2>1. CASE entry' = entry
    BY <1>4, <2>1, EntryStays DEF TypeInv
  <2>2. CASE \E r \in Revisions \ {entry.rev} : entry' = [rev |-> r, status |-> "none", by |-> 0]
    <3>1. PICK r \in Revisions : entry' = [rev |-> r, status |-> "none", by |-> 0]
      BY <2>2
    <3>2. 0 \in 0 .. MaxJobs
      BY Basics
    <3>3. entry' \in Entries /\ entry'.by = 0
      BY <3>1, <3>2 DEF Entries
    <3> QED
      BY <3>3 DEF EntryInv, ShownOutcomeIsReal
  <2> QED
    BY <2>1, <2>2 DEF OtherWrite
<1>6. Noticing({})
  BY <1>1, <1>2, <1>3, <1>5 DEF Noticing
<1> QED
  BY <1>1, <1>5, <1>6, NoticingKept

(* The worker starts and the row shows the upload. *)
LEMMA SpawnWorkerKept ==
  ASSUME UploadInv, SpawnWorker, budget' \in Limited
  PROVE  UploadInv'
<1> DEFINE j == th[Starter].job
           w == Worker(j)
           p == [Idle EXCEPT !.pc = "work", !.job = j]
<1>1. /\ Up /\ th[Starter].pc = "spawn"
      /\ entry' = [entry EXCEPT !.status = "uploading"] /\ lease' = ReapedLease(j)
      /\ th' = [Notified EXCEPT ![Starter] = Idle, ![w] = p]
      /\ UNCHANGED <<job, acked, token, boot, told>>
  BY DEF SpawnWorker, At
<1>2. /\ j \in Created /\ j \in Jobs /\ OpenJobs \subseteq {j} /\ job[j].state # "queued"
  BY <1>1, LaunchingIs DEF Launching
<1>3. w \in Threads /\ w # Starter /\ w # Canceller /\ w # Poller /\ Starter \in Threads
  BY <1>2, Basics
<1>4. p \in Places /\ p.pc = "work" /\ p.todo = {}
  <2>1. j \in 0 .. MaxJobs
    BY <1>2, Basics
  <2> QED
    BY <2>1, IdleType DEF Places, Steps
<1> HIDE DEF p
<1>5. /\ th' \in [Threads -> Places] /\ th'[Starter] = Idle /\ th'[w] = p
      /\ \A x \in Threads \ {Starter, w} : th'[x] = Noticed(th[x])
  <2>1. Notified \in [Threads -> Places]
    <3>1. \A x \in Threads : Notified[x] \in Places
      BY NoticedIs
    <3>2. DOMAIN Notified = Threads /\ Notified = [x \in Threads |-> Notified[x]]
      BY DEF Notified
    <3> QED
      BY <3>1, <3>2
  <2> HIDE DEF w
  <2> QED
    BY <1>1, <1>3, <1>4, <2>1, IdleType, NoticedIs
<1>6. TypeInv /\ Settles /\ EndedJobs' = EndedJobs /\ OpenJobs' = OpenJobs /\ Grows
  BY <1>1, StaySettles, StayIs DEF UploadInv, Settles
<1>7. entry' \in Entries /\ entry'.by = entry.by /\ entry'.rev = entry.rev /\ entry'.status = "uploading"
  BY <1>1, <1>6 DEF TypeInv, Entries
<1>8. TypeInv'
  <2>1. lease' \in Leases
    BY <1>1, <1>2, LeasesDiffer
  <2> QED
    BY <1>1, <1>5, <1>6, <1>7, <2>1 DEF TypeInv
<1>9. RowInv'
  BY <1>1, <1>6, RowsStay, StarterIs DEF UploadInv, RowInv
<1>10. Up' /\ DownInv'
  BY <1>1 DEF Up, DownInv
<1>11. StarterOk'
  BY <1>1, <1>5, IdleType, LeasesDiffer DEF StarterOk, Choosing, Launching
<1>12. CancellerOk' /\ PollerOk'
  <2>1. CancellerOk /\ PollerOk /\ Canceller # Starter /\ Poller # Starter
        /\ Canceller \in Threads /\ Poller \in Threads
    BY Basics DEF UploadInv, ThreadInv
  <2>2. /\ th'[Canceller].pc = th[Canceller].pc /\ th'[Canceller].job = th[Canceller].job
        /\ th'[Canceller].seen = th[Canceller].seen /\ th'[Poller].pc = th[Poller].pc
    BY <1>3, <1>5, <2>1, NoticedIs
  <2> QED
    BY <2>1, <2>2 DEF CancellerOk, PollerOk
<1>13. ASSUME NEW i \in Jobs PROVE WorkerOk(i)'
  <2>1. Worker(i) \in Threads /\ Worker(i) # Starter /\ WorkerOk(i)
    BY Basics DEF UploadInv, ThreadInv
  <2>2. CASE i = j
    BY <1>1, <1>2, <1>4, <1>5, <1>6, <2>2 DEF WorkerOk, Settles
  <2>3. CASE i # j
    <3>1. Worker(i) # w
      BY <1>2, <2>3, Basics
    <3>2. th'[Worker(i)].pc = th[Worker(i)].pc
      BY <1>5, <2>1, <3>1, NoticedIs
    <3> QED
      BY <1>6, <2>1, <3>2, WorkerStays
  <2> QED
    BY <2>2, <2>3
<1>14. ASSUME NEW x \in Threads PROVE PassOk(x)'
  <2>1. CASE x = Starter
    BY <1>5, <2>1, IdleType DEF PassOk
  <2>2. CASE x = w
    BY <1>4, <1>5, <2>2 DEF PassOk
  <2>3. CASE x # Starter /\ x # w
    BY <1>5, <1>6, <2>3, PassNotices DEF UploadInv, ThreadInv
  <2> QED
    BY <2>1, <2>2, <2>3
<1>15. LeaseInv'
  <2>1. OneActive'
    BY <1>1, StarterIs DEF OneActive, Active
  <2>2. OpenUploadHasOwner'
    BY <1>2, <1>4, <1>5, <1>6 DEF OpenUploadHasOwner
  <2>3. \A i \in Jobs : lease' = ReapedLease(i) => OpenJobs' \subseteq {i}
    BY <1>1, <1>2, <1>6, LeasesDiffer
  <2>4. lease' # FreeLease
    BY <1>1, LeasesDiffer
  <2> QED
    BY <1>2, <1>6, <2>1, <2>2, <2>3, <2>4 DEF LeaseInv, OneActive
<1>16. EntryInv'
  BY <1>1, <1>6, <1>7 DEF UploadInv, EntryInv, ShownOutcomeIsReal
<1> QED
  BY <1>8, <1>9, <1>10, <1>11, <1>12, <1>13, <1>14, <1>15, <1>16 DEF UploadInv, ThreadInv

-----------------------------------------------------------------------------
(* The reaper, a dismissal, the crash and the start.                       *)

(* No thread moves and the library stays. *)
LEMMA StillKept ==
  ASSUME UploadInv, Up, Settles, OpenJobs' = OpenJobs, UNCHANGED <<acked, entry, token, th, boot, told>>,
         lease' = lease \/ (lease' = FreeLease /\ lease # StartLease /\ OpenJobs = {}),
         budget' \in Limited
  PROVE  UploadInv'
<1>1. TypeInv /\ Grows /\ EndedJobs \subseteq EndedJobs'
  BY GrowsIs DEF UploadInv, Settles
<1>2. TypeInv'
  BY <1>1, LeasesDiffer DEF TypeInv, Grows
<1>3. RowInv'
  BY <1>1, RowsStay, StarterIs DEF UploadInv, RowInv
<1>4. Up' /\ DownInv'
  BY DEF Up, DownInv
<1>5. StarterOk'
  BY <1>1, StarterStays, LeasesDiffer
<1>6. CancellerOk' /\ PollerOk'
  BY DEF UploadInv, ThreadInv, CancellerOk, PollerOk
<1>7. \A j \in Jobs : WorkerOk(j)'
  BY <1>1, WorkerStays DEF UploadInv, ThreadInv
<1>8. \A t \in Threads : PassOk(t)'
  BY <1>1, PassStays DEF UploadInv, ThreadInv
<1>9. LeaseInv'
  <2>1. OneActive'
    BY StarterIs DEF OneActive, Active
  <2>2. CASE lease' = lease
    BY <2>1, <2>2, LeaseStays
  <2>3. CASE lease' = FreeLease /\ OpenJobs = {}
    BY <2>1, <2>3, LeasesDiffer DEF LeaseInv, OneActive, OpenUploadHasOwner
  <2> QED
    BY <2>2, <2>3
<1>10. EntryInv'
  BY <1>1, EntryStays DEF UploadInv
<1> QED
  BY <1>2, <1>3, <1>4, <1>5, <1>6, <1>7, <1>8, <1>9, <1>10 DEF UploadInv, ThreadInv

(* The reaper frees the lease of an upload that has ended. *)
LEMMA ReapKept ==
  ASSUME UploadInv, ReapLease, budget' \in Limited
  PROVE  UploadInv'
<1>1. PICK j \in EndedJobs : lease = ReapedLease(j)
  BY DEF ReapLease
<1>2. Up /\ lease' = FreeLease /\ UNCHANGED <<job, acked, entry, token, th, boot, told>>
  BY DEF ReapLease
<1>3. OpenJobs = {}
  BY <1>1, <1>2, StarterIs DEF UploadInv, LeaseInv
<1>4. Settles /\ OpenJobs' = OpenJobs
  BY <1>2, StaySettles, StayIs DEF UploadInv
<1> QED
  BY <1>1, <1>2, <1>3, <1>4, LeasesDiffer, StillKept

(* dismiss_upload_transfer. *)
LEMMA DismissKept ==
  ASSUME UploadInv, NEW j \in Jobs, Dismiss(j), budget' \in Limited
  PROVE  UploadInv'
<1>1. /\ Up /\ job' = [job EXCEPT ![j].dismissed = TRUE]
      /\ UNCHANGED <<acked, entry, lease, token, th, boot, told>>
  BY DEF Dismiss
<1> DEFINE x == [job[j] EXCEPT !.dismissed = TRUE]
<1>2. x \in Rows /\ x.rev = job[j].rev /\ x.state = job[j].state
  BY DEF UploadInv, TypeInv, Rows
<1>3. job' = [job EXCEPT ![j] = x]
  BY <1>1
<1> HIDE DEF x
<1>4. /\ Grows /\ Created' = Created /\ OpenJobs' = OpenJobs /\ Turned(j, job[j].state)
  BY <1>2, <1>3, FieldIs DEF UploadInv
<1>5. Settles
  BY <1>4 DEF Settles, Turned, Created
<1> QED
  BY <1>1, <1>4, <1>5, StillKept

(* While nothing runs, the threads are as at the beginning. *)
LEMMA DownThreads ==
  ASSUME th' = [t \in Threads |-> Idle], lease' # StartLease \/ ~Up'
  PROVE  ThreadInv' /\ th' \in [Threads -> Places]
<1>1. \A t \in Threads : th'[t] = Idle
  OBVIOUS
<1>2. th' \in [Threads -> Places]
  BY IdleType
<1>3. StarterOk'
  BY <1>1, Basics, IdleType DEF StarterOk, Choosing, Launching
<1>4. CancellerOk' /\ PollerOk' /\ \A j \in Jobs : WorkerOk(j)'
  BY <1>1, Basics, IdleType DEF CancellerOk, PollerOk, WorkerOk, Passing
<1>5. \A t \in Threads : PassOk(t)'
  BY <1>1, IdleType DEF PassOk
<1> QED
  BY <1>2, <1>3, <1>4, <1>5 DEF ThreadInv

(* The process dies. *)
LEMMA CrashKept ==
  ASSUME UploadInv, Crash, budget' \in Limited
  PROVE  UploadInv'
<1>1. /\ token' = [j \in Jobs |-> "none"] /\ th' = [t \in Threads |-> Idle]
      /\ boot' = [pc |-> "cancel", interrupted |-> OpenJobs, protected |-> Created \ acked # {}]
      /\ UNCHANGED <<job, acked, entry, lease, told>>
  BY DEF Crash, durable
<1>2. ~Up' /\ boot' \in Boots /\ boot'.pc = "cancel" /\ boot'.protected = (Created \ acked # {})
  <2>1. (Created \ acked # {}) \in BOOLEAN /\ OpenJobs \in SUBSET Jobs
    BY DEF OpenJobs
  <2> QED
    BY <1>1, <2>1 DEF Up, Boots
<1>3. ThreadInv' /\ th' \in [Threads -> Places]
  BY <1>1, <1>2, DownThreads
<1>4. TypeInv /\ Settles /\ EndedJobs' = EndedJobs /\ OpenJobs' = OpenJobs /\ Grows
  BY <1>1, StaySettles, StayIs DEF UploadInv, Settles
<1>5. token' \in [Jobs -> Tokens] /\ OneActive'
  BY <1>1 DEF Tokens, OneActive, Active
<1>6. TypeInv'
  BY <1>1, <1>2, <1>3, <1>4, <1>5 DEF TypeInv
<1>7. RowInv'
  BY <1>1, <1>4, RowsStay, StarterIs DEF UploadInv, RowInv
<1>8. DownInv'
  BY <1>1, <1>2, <1>4 DEF DownInv, Settles
<1>9. LeaseInv'
  BY <1>2, <1>4, <1>5 DEF UploadInv, LeaseInv, OneActive, OpenUploadHasOwner
<1>10. EntryInv'
  BY <1>1, <1>4, EntryStays DEF UploadInv
<1> QED
  BY <1>3, <1>6, <1>7, <1>8, <1>9, <1>10 DEF UploadInv

(* reconcile_interrupted_uploads cancels one upload that was found open. *)
LEMMA BootCancelKept ==
  ASSUME UploadInv, BootCancel, budget' \in Limited
  PROVE  UploadInv'
<1>1. /\ boot.pc = "cancel" /\ ~Up /\ UNCHANGED <<acked, entry, lease, token, th, told>>
  BY DEF BootCancel, Up
<1>2. th' = [t \in Threads |-> Idle]
  BY <1>1 DEF UploadInv, DownInv
<1>3. /\ Settles /\ ~Up' /\ boot' \in Boots /\ boot'.protected = boot.protected
      /\ boot'.pc = "library" => OpenJobs' = {}
  <2>1. CASE OpenJobs = {}
    <3>1. boot' = [boot EXCEPT !.pc = "library"] /\ job' = job
      BY <2>1 DEF BootCancel
    <3>2. boot' \in Boots /\ boot'.pc = "library" /\ boot'.protected = boot.protected
      BY <3>1 DEF UploadInv, TypeInv, Boots
    <3> QED
      BY <2>1, <3>1, <3>2, StaySettles, StayIs DEF UploadInv, Up
  <2>2. CASE OpenJobs # {}
    <3> DEFINE j == Min(OpenJobs)
    <3>1. j \in OpenJobs
      BY <2>2, MinIs, Basics, StarterIs
    <3>2. CompleteUploadJob(j, job[j].state, "cancelled") /\ boot' = boot
      BY <2>2 DEF BootCancel
    <3> HIDE DEF j
    <3>3. j \in Jobs /\ job[j].state \in Open
      BY <3>1 DEF OpenJobs
    <3> QED
      BY <1>1, <3>2, <3>3, CompleteSettles DEF UploadInv, TypeInv, Up, Ended
  <2> QED
    BY <2>1, <2>2
<1>4. TypeInv /\ Grows /\ EndedJobs \subseteq EndedJobs'
  BY <1>3, GrowsIs DEF UploadInv, Settles
<1>5. ThreadInv' /\ th' \in [Threads -> Places]
  BY <1>2, <1>3, DownThreads
<1>6. TypeInv'
  BY <1>1, <1>3, <1>4, <1>5 DEF TypeInv, Grows
<1>7. RowInv'
  BY <1>1, <1>3, <1>4, RowsStay, StarterIs DEF UploadInv, RowInv
<1>8. DownInv'
  BY <1>1, <1>2, <1>3 DEF UploadInv, DownInv, Settles
<1>9. OneActive'
  BY <1>1, StarterIs DEF OneActive, Active
<1>10. LeaseInv'
  BY <1>3, <1>9 DEF UploadInv, LeaseInv, OneActive, OpenUploadHasOwner, Settles
<1>11. EntryInv'
  BY <1>1, <1>4, EntryStays DEF UploadInv
<1> QED
  BY <1>5, <1>6, <1>7, <1>8, <1>10, <1>11 DEF UploadInv

(* reconcile_interrupted_uploads puts the library right. *)
LEMMA BootLibraryKept ==
  ASSUME UploadInv, BootLibrary, budget' \in Limited
  PROVE  UploadInv'
<1>1. /\ boot.pc = "library" /\ ~Up /\ boot' = Booted /\ lease' = FreeLease
      /\ UNCHANGED <<job, acked, token, th, told>>
  BY DEF BootLibrary, Up
<1>2. th' = [t \in Threads |-> Idle] /\ OpenJobs = {}
  BY <1>1 DEF UploadInv, DownInv
<1>3. TypeInv /\ Settles /\ EndedJobs' = EndedJobs /\ OpenJobs' = OpenJobs /\ Grows
  BY <1>1, StaySettles, StayIs DEF UploadInv, Settles
<1>4. ThreadInv' /\ th' \in [Threads -> Places]
  BY <1>1, <1>2, LeasesDiffer, DownThreads
<1>5. entry' \in Entries /\ EntryInv'
  <2>1. CASE entry' = entry
    BY <1>3, <2>1, EntryStays DEF TypeInv, UploadInv
  <2>2. CASE entry' = [entry EXCEPT !.status = "failed", !.by = 0]
    <3>1. 0 \in 0 .. MaxJobs
      BY Basics
    <3>2. entry' \in Entries /\ entry'.by = 0
      BY <1>3, <2>2, <3>1 DEF TypeInv, Entries
    <3> QED
      BY <3>2 DEF EntryInv, ShownOutcomeIsReal
  <2> QED
    BY <2>1, <2>2 DEF BootLibrary
<1>6. boot'.pc = "up" /\ Up' /\ boot' \in Boots
  BY <1>1 DEF Booted, Up, Boots
<1>7. TypeInv'
  BY <1>1, <1>3, <1>4, <1>5, <1>6, LeasesDiffer DEF TypeInv
<1>8. RowInv'
  BY <1>1, <1>3, RowsStay, StarterIs DEF UploadInv, RowInv
<1>9. DownInv'
  BY <1>6 DEF DownInv
<1>10. OneActive'
  BY <1>1, StarterIs DEF OneActive, Active
<1>11. LeaseInv'
  BY <1>2, <1>3, <1>10 DEF LeaseInv, OneActive, OpenUploadHasOwner
<1> QED
  BY <1>4, <1>5, <1>7, <1>8, <1>9, <1>11 DEF UploadInv

-----------------------------------------------------------------------------
(* The invariant, and what follows from it.                                *)

(* A budget that is spent stays one. *)
LEMMA SpendIs ==
  ASSUME budget \in Limited, NEW b \in {"commands", "writes", "faults", "crashes"}, Spend(b)
  PROVE  budget' \in Limited
<1>1. CASE b = "commands"
  BY <1>1 DEF Spend, Limited
<1>2. CASE b = "writes"
  BY <1>2 DEF Spend, Limited
<1>3. CASE b = "faults"
  BY <1>3 DEF Spend, Limited
<1>4. CASE b = "crashes"
  BY <1>4 DEF Spend, Limited
<1> QED
  BY <1>1, <1>2, <1>3, <1>4

(* Every step spends at most one of the budgets. *)
LEMMA BudgetKept ==
  ASSUME UploadInv, Next
  PROVE  budget' \in Limited
<1>1. budget \in Limited
  BY DEF UploadInv, TypeInv
<1>2. budget' = budget \/ \E b \in {"commands", "writes", "faults", "crashes"} : Spend(b)
  <2>1. ASSUME NEW c, NEW p, StartUpload(c) \/ RetryUpload(p, c)
        PROVE  \E b \in {"commands", "writes", "faults", "crashes"} : Spend(b)
    BY <2>1 DEF StartUpload, RetryUpload
  <2>2. CASE Starting \/ ReapLease
    BY <2>2 DEF Starting, CreateUploadJob, SpawnChild, BeginJob, ClaimToken, SpawnFails, SpawnWorker,
                ReapLease
  <2>3. ASSUME NEW j, Ending(j) \/ Finishing(j) \/ CancelUpload(j) \/ Dismiss(j)
        PROVE  budget' = budget \/ \E b \in {"commands", "writes", "faults", "crashes"} : Spend(b)
    BY <2>3 DEF Ending, Finishing, PerformUpload, CommitToken, ClearToken, CancelUpload, Dismiss
  <2>4. CASE Cancelling
    BY <2>4 DEF Cancelling, RequestCancel, CommitCancel
  <2>5. ASSUME NEW t, Delivering(t) PROVE budget' = budget
    BY <2>5 DEF Delivering, PassStarts, ReadRow, ProjectRow, Acknowledge
  <2>6. CASE OtherWrite \/ Crash \/ Booting
    BY <2>6 DEF OtherWrite, Crash, Booting, BootCancel, BootLibrary
  <2> QED
    BY <2>1, <2>2, <2>3, <2>4, <2>5, <2>6 DEF Next
<1> QED
  BY <1>1, <1>2, SpendIs

(* The invariant holds at first. *)
LEMMA UploadInit == Init => UploadInv
<1> SUFFICES ASSUME Init PROVE UploadInv
  OBVIOUS
<1>1. /\ job = [j \in Jobs |-> Absent] /\ acked = {} /\ entry = Unread /\ lease = FreeLease
      /\ token = [j \in Jobs |-> "none"] /\ th = [t \in Threads |-> Idle] /\ boot = Booted
      /\ told = {} /\ budget \in Budgets
  BY DEF Init
<1>2. Absent \in Rows /\ Absent.state = "absent"
  BY IdleType, Basics DEF Absent, Rows
<1>3. job \in [Jobs -> Rows] /\ \A j \in Jobs : job[j].state = "absent"
  BY <1>1, <1>2
<1>4. Created = {} /\ OpenJobs = {} /\ EndedJobs = {}
  BY <1>3 DEF Created, OpenJobs, EndedJobs, Open, Ended
<1>5. th \in [Threads -> Places] /\ \A t \in Threads : th[t] = Idle
  BY <1>1, IdleType
<1>6. boot.pc = "up" /\ boot \in Boots
  BY <1>1 DEF Booted, Boots
<1>7. TypeInv
  <2>1. budget \in Limited
    BY <1>1, UploadAssumption DEF Limited
  <2>2. token \in [Jobs -> Tokens]
    BY <1>1 DEF Tokens
  <2> QED
    BY <1>1, <1>3, <1>5, <1>6, <2>1, <2>2, IdleType, LeasesDiffer DEF TypeInv
<1>8. RowInv
  <2>1. 0 \in 0 .. MaxJobs /\ Created = 1 .. 0
    BY <1>4, Basics
  <2> QED
    BY <1>1, <2>1 DEF RowInv, FirstOutcomeStands
<1>9. DownInv
  BY <1>6, <1>4 DEF DownInv, Up
<1>10. ThreadInv
  <2>1. StarterOk
    BY <1>1, <1>5, Basics, IdleType, LeasesDiffer DEF StarterOk, Choosing, Launching
  <2>2. CancellerOk /\ PollerOk /\ \A j \in Jobs : WorkerOk(j)
    BY <1>5, Basics, IdleType DEF CancellerOk, PollerOk, WorkerOk, Passing
  <2>3. \A t \in Threads : PassOk(t)
    BY <1>5, IdleType DEF PassOk
  <2> QED
    BY <2>1, <2>2, <2>3 DEF ThreadInv
<1>11. LeaseInv
  BY <1>1, <1>4, LeasesDiffer DEF LeaseInv, Active, OpenUploadHasOwner
<1>12. EntryInv
  BY <1>1 DEF EntryInv, ShownOutcomeIsReal, Unread
<1> QED
  BY <1>7, <1>8, <1>9, <1>10, <1>11, <1>12 DEF UploadInv

(* Every step keeps it. *)
LEMMA UploadStep == UploadInv /\ [Next]_vars => UploadInv'
<1> SUFFICES ASSUME UploadInv, [Next]_vars PROVE UploadInv'
  OBVIOUS
<1>1. CASE UNCHANGED vars
  <2>1. /\ TypeInv' /\ RowInv' /\ DownInv'
    BY <1>1 DEF vars, UploadInv, TypeInv, RowInv, DownInv, FirstOutcomeStands, Up, Created, EndedJobs,
                OpenJobs
  <2>2. ThreadInv'
    BY <1>1 DEF vars, UploadInv, ThreadInv, StarterOk, CancellerOk, PollerOk, WorkerOk, PassOk, Up, Created,
                EndedJobs, OpenJobs
  <2>3. LeaseInv' /\ EntryInv'
    BY <1>1 DEF vars, UploadInv, LeaseInv, EntryInv, OpenUploadHasOwner, ShownOutcomeIsReal, StatusOf, Up,
                OpenJobs, EndedJobs, Active
  <2> QED
    BY <2>1, <2>2, <2>3 DEF UploadInv
<1>2. CASE Next
  <2> budget' \in Limited
    BY <1>2, BudgetKept
  <2>1. ASSUME NEW c \in budget.configs, StartUpload(c) \/ \E p \in Jobs : RetryUpload(p, c)
        PROVE  UploadInv'
    <3>1. c \in Configs /\ Up
      BY <2>1 DEF UploadInv, TypeInv, Limited, StartUpload, RetryUpload, At
    <3> QED
      BY <2>1, <3>1, StartIs, StartsKept
  <2>2. CASE CreateUploadJob \/ SpawnChild \/ BeginJob \/ ClaimToken \/ SpawnFails
    <3>1. Up
      BY <2>2 DEF CreateUploadJob, SpawnChild, BeginJob, ClaimToken, SpawnFails, At
    <3> QED
      BY <2>2, <3>1, CreateIs, SpawnChildIs, BeginIs, ClaimIs, SpawnFailsIs, StartsKept
  <2>3. CASE SpawnWorker
    BY <2>3, SpawnWorkerKept
  <2>4. CASE ReapLease
    BY <2>4, ReapKept
  <2>5. ASSUME NEW j \in Jobs, Ending(j) \/ Finishing(j) \/ CancelUpload(j) PROVE UploadInv'
    BY <2>5, PerformIs, FinishIs, CancelIs, ActsKept DEF Ending, Finishing
  <2>6. ASSUME NEW j \in Jobs, Dismiss(j) PROVE UploadInv'
    BY <2>6, DismissKept
  <2>7. CASE Cancelling
    BY <2>7, RequestIs, CommitIs, ActsKept DEF Cancelling
  <2>8. ASSUME NEW t \in Threads, PassStarts(t) \/ ReadRow(t) \/ Acknowledge(t) PROVE UploadInv'
    BY <2>8, PassStartsIs, ReadIs, AcknowledgeIs, ActsKept
  <2>9. ASSUME NEW t \in Threads, ProjectRow(t) PROVE UploadInv'
    BY <2>9, ConflictIs, ActsKept, ProjectKept
  <2>10. CASE OtherWrite
    BY <2>10, OtherWriteKept
  <2>11. CASE Crash
    BY <2>11, CrashKept
  <2>12. CASE Booting
    BY <2>12, BootCancelKept, BootLibraryKept DEF Booting
  <2> QED
    BY <1>2, <2>1, <2>2, <2>3, <2>4, <2>5, <2>6, <2>7, <2>8, <2>9, <2>10, <2>11, <2>12
       DEF Next, Starting, Delivering
<1> QED
  BY <1>1, <1>2

(* Rows, threads, lease and library agree in every reachable state           *)
(* (upload_store.rs, start_upload, reconcile_interrupted_uploads).           *)
THEOREM UploadInvariant == Spec => []UploadInv
<1> QED
  BY UploadInit, UploadStep, PTL DEF Spec

(* A cancellation that was reported stays the outcome of its upload          *)
(* (complete_upload_job, cancel_durable_upload).                             *)
THEOREM CancellationStands == Spec => []FirstOutcomeStands
<1>1. UploadInv => FirstOutcomeStands
  BY DEF UploadInv, RowInv
<1> QED
  BY <1>1, UploadInvariant, PTL

(* A set whose members are all the same has at most one. *)
LEMMA AtMostOne ==
  ASSUME NEW S, \A i, j \in S : i = j
  PROVE  Cardinality(S) <= 1
<1>1. CASE S = {}
  BY <1>1, FS_EmptySet
<1>2. CASE S # {}
  <2>1. \E x : S = {x}
    BY <1>2
  <2> QED
    BY <2>1, FS_Singleton
<1> QED
  BY <1>1, <1>2

(* An entry has one open upload and one active operation at a time           *)
(* (upload_entry_sync, begin_upload_operation).                              *)
THEOREM SingleUpload == Spec => []OneOpenUpload
<1>1. ASSUME UploadInv PROVE OneOpenUpload
  <2>1. Cardinality(OpenJobs) <= 1
    BY <1>1, AtMostOne DEF UploadInv, LeaseInv
  <2>2. Cardinality({j \in Jobs : Active(j)}) <= 1
    <3>1. \A i, k \in {j \in Jobs : Active(j)} : i = k
      BY <1>1 DEF UploadInv, LeaseInv
    <3> QED
      BY <3>1, AtMostOne
  <2> QED
    BY <2>1, <2>2 DEF OneOpenUpload
<1> QED
  BY <1>1, UploadInvariant, PTL

(* Every open upload has a thread that will end it, through failing starts   *)
(* and crashes (spawn_upload_worker, compensate_new_upload_job).             *)
THEOREM OpenUploadsOwned == Spec => []OpenUploadHasOwner
<1>1. UploadInv => OpenUploadHasOwner
  BY DEF UploadInv, LeaseInv
<1> QED
  BY <1>1, UploadInvariant, PTL

(* The row shows outcomes of its own revision that were reached              *)
(* (apply_upload_completion).                                                *)
THEOREM OutcomesAreReal == Spec => []ShownOutcomeIsReal
<1>1. UploadInv => ShownOutcomeIsReal
  BY DEF UploadInv, EntryInv
<1> QED
  BY <1>1, UploadInvariant, PTL

(* After a start no row is shown as uploading that an interrupted upload was *)
(* for, and none at all when no outcome is owed                              *)
(* (reconcile_interrupted_uploads).                                          *)
THEOREM RestartsSettle == Spec => RestartSettlesRow
<1> DEFINE Settled == boot.pc = "library" /\ boot'.pc = "up" /\ entry'.status = "uploading" =>
                        Owed # {} /\ \A j \in boot.interrupted : job[j].rev # entry.rev
<1>1. ASSUME UploadInv, [Next]_vars PROVE [Settled]_vars
  <2> SUFFICES ASSUME boot.pc = "library", boot'.pc = "up", entry'.status = "uploading"
               PROVE  Owed # {} /\ \A j \in boot.interrupted : job[j].rev # entry.rev
    OBVIOUS
  <2>1. ~Up
    BY DEF Up
  <2>2. BootLibrary
    <3>1. Next
      BY <1>1 DEF vars
    <3>2. ~Starting /\ ~ReapLease /\ ~Cancelling /\ ~OtherWrite /\ ~BootCancel
      BY <2>1 DEF Starting, CreateUploadJob, SpawnChild, BeginJob, ClaimToken, SpawnFails, SpawnWorker,
                  ReapLease, Cancelling, RequestCancel, CommitCancel, OtherWrite, At, BootCancel
    <3>3. \A j \in Jobs : ~(Ending(j) \/ Finishing(j) \/ CancelUpload(j) \/ Dismiss(j))
      BY <2>1 DEF Ending, Finishing, PerformUpload, CommitToken, ClearToken, CancelUpload, Dismiss, At
    <3>4. \A t \in Threads : ~Delivering(t)
      BY <2>1 DEF Delivering, PassStarts, ReadRow, ProjectRow, Acknowledge, At
    <3>5. \A c : ~StartUpload(c) /\ \A p \in Jobs : ~RetryUpload(p, c)
      BY <2>1 DEF StartUpload, RetryUpload, At
    <3>6. ~Crash
      BY DEF Crash
    <3> QED
      BY <3>1, <3>2, <3>3, <3>4, <3>5, <3>6 DEF Next, Booting
  <2>3. /\ boot.protected /\ \A j \in boot.interrupted : job[j].rev # entry.rev
    <3>1. entry \in Entries
      BY <1>1 DEF UploadInv, TypeInv
    <3>2. CASE /\ boot.protected /\ ~\E j \in boot.interrupted : job[j].rev = entry.rev
      BY <3>2
    <3>3. CASE entry.status # "uploading" \/ ~boot.protected \/ \E j \in boot.interrupted : job[j].rev = entry.rev
      <4>1. entry'.status # "uploading"
        BY <2>2, <3>1, <3>3 DEF BootLibrary, Entries
      <4> QED
        BY <4>1
    <3> QED
      BY <3>2, <3>3
  <2>4. Owed # {}
    <3>1. Created \ acked # {} /\ OpenJobs = {}
      BY <1>1, <2>1, <2>3 DEF UploadInv, DownInv
    <3> QED
      BY <1>1, <3>1, StarterIs DEF Owed
  <2> QED
    BY <2>3, <2>4
<1>2. UploadInv /\ [Next]_vars => [Settled]_vars
  BY <1>1
<1> QED
  BY <1>2, UploadInvariant, PTL DEF Spec, RestartSettlesRow
=============================================================================
