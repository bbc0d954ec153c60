------------------------ MODULE JobLifecycle_proofs ------------------------
(***************************************************************************)
(* Proofs about JobLifecycle: it implements OutcomeDelivery, and, for any  *)
(* number of attempts, users and crashes, no open row is stranded, no      *)
(* dismissed job returns, and retries of one failure share their child.    *)
(***************************************************************************)
EXTENDS JobLifecycle, FiniteSetTheorems, WellFoundedInduction, TLAPS

Records == [state : {"absent", "live"} \cup Ended, rev : Revisions \cup {NoRev},
            parent : Nat, dismissed : BOOLEAN]
LibraryRows == [sequence : Nat, rev : Revisions \cup {NoRev}, uploaded : BOOLEAN]
Places == [pc : Pcs, job : Nat, fresh : BOOLEAN, entry : LibraryRows, moved : BOOLEAN]

(* The types, with numbers that are not yet known to be bounded. *)
TypeInv ==
    /\ row \in [Jobs -> Records] /\ outbox \in [Jobs -> Nat] /\ acked \subseteq Jobs
    /\ library \in LibraryRows
    /\ runtime \subseteq Jobs /\ th \in [Threads -> Places]
    /\ poll \subseteq Jobs /\ settling \subseteq Jobs

Numbered == {j \in Jobs : outbox[j] # 0}

(* Rows are created in order, and exactly those that ended have a number;    *)
(* the numbers count the outcomes recorded.                                  *)
RowInv ==
    /\ \A i, j \in Jobs : i < j /\ j \in Created => i \in Created
    /\ \A j \in Jobs : outbox[j] # 0 <=> row[j].state \in Ended
    /\ \A j \in Jobs : row[j].dismissed => row[j].state \in Ended
    /\ \A j \in Jobs : outbox[j] <= Cardinality(Numbered)
    /\ Numbered # {} => \E j \in Jobs : outbox[j] = Cardinality(Numbered)
    /\ acked \subseteq Numbered

UserPcs == {"idle", "install", "install_failed", "resolve", "repeat", "spawn"}
Dismissing == {"tombstone", "retire_runtime", "await"}
Delivering == {"load", "hash", "commit", "ack"}
Retiring == {"retire"} \cup Dismissing

(* A thread away from its rest names a row; a job to be dismissed has ended  *)
(* and its outcome was acknowledged.                                         *)
UserOk(u) ==
    /\ th[u].pc \in UserPcs \cup Dismissing
    /\ th[u].pc # "idle" => th[u].job \in Created
    /\ th[u].pc \in Dismissing => th[u].job \in acked
PollerOk ==
    /\ th[Poller].pc \in {"idle"} \cup Delivering \cup Retiring
    /\ th[Poller].pc \in Dismissing => th[Poller].job \in acked
    /\ poll \subseteq Numbered
    /\ th[Poller].pc \in Retiring => poll \subseteq acked
ThreadInv == PollerOk /\ \A u \in Users : UserOk(u)

(* The outcome under delivery. What the loop read of the library is what the *)
(* library is, unless another commit was noticed; a success it goes on with  *)
(* is not in the library, one it acknowledges is.                            *)
DeliveryInv ==
    /\ th[Poller].pc \in {"hash", "commit", "ack"} => th[Poller].job \in Numbered
    /\ th[Poller].pc \in {"hash", "commit"} =>
        /\ ~th[Poller].moved => library = th[Poller].entry
        /\ Succeeded(th[Poller].job) => th[Poller].entry.sequence < outbox[th[Poller].job]
    /\ th[Poller].pc = "ack" /\ Succeeded(th[Poller].job) =>
        library.sequence >= outbox[th[Poller].job]
    /\ AckedSuccessInLibrary

(* An open row is run, about to be installed, or still to be settled. *)
OpenInv ==
    /\ LiveHasRuntime
    /\ ~Up => Live \subseteq settling

(* An open child is the latest of its parent. *)
ChildInv ==
    \A i, j \in Created :
        j \in Live /\ row[j].parent # 0 /\ row[i].parent = row[j].parent => i <= j

LifecycleInv ==
    /\ TypeInv /\ RowInv /\ ThreadInv /\ DeliveryInv /\ OpenInv /\ DismissedStaysAway /\ ChildInv

-----------------------------------------------------------------------------
(* Numbers.                                                                *)

(* A bounded set of numbers has its maximum. *)
LEMMA MaxIs ==
  ASSUME NEW S, NEW n \in Nat, S \subseteq 0 .. n, S # {}
  PROVE  Max(S) \in S /\ \A y \in S : y <= Max(S)
<1> DEFINE T == {n - x : x \in S}
           R == OpToRel(<, Nat)
<1>1. T \subseteq Nat
  OBVIOUS
<1>2. T # {}
  OBVIOUS
<1>3. IsWellFoundedOn(R, Nat)
  BY NatLessThanWellFounded
<1>4. \A a, b \in Nat : a < b => <<a, b>> \in R
  BY DEF OpToRel
<1> HIDE DEF R
<1>5. PICK m \in T : \A y \in T : ~(<<y, m>> \in R)
  <2> HIDE DEF T
  <2> QED
    BY <1>1, <1>2, <1>3, WFMin
<1>6. PICK x \in S : m = n - x
  OBVIOUS
<1>7. ASSUME NEW y \in S PROVE y <= x
  <2>1. n - y \in T /\ n - y \in Nat /\ m \in Nat
    OBVIOUS
  <2>2. ~(n - y < m)
    BY <1>4, <1>5, <2>1
  <2> QED
    BY <1>6, <2>1, <2>2
<1>8. \A y \in S : x >= y
  BY <1>7
<1>9. Max(S) \in S /\ \A y \in S : Max(S) >= y
  BY <1>8 DEF Max
<1> QED
  BY <1>9

(* The jobs are finitely many, and so are those that ended. *)
LEMMA NumberedFinite ==
  ASSUME TypeInv
  PROVE  IsFiniteSet(Numbered) /\ Cardinality(Numbered) \in Nat
<1>1. IsFiniteSet(Jobs)
  BY LifecycleAssumption, FS_Interval DEF Jobs
<1>2. IsFiniteSet(Numbered)
  BY <1>1, FS_Subset DEF Numbered
<1> QED
  BY <1>2, FS_CardinalityType

(* The number of the last outcome is the number of outcomes. *)
LEMMA SequenceIs ==
  ASSUME TypeInv, RowInv
  PROVE  Sequence = Cardinality(Numbered)
<1> DEFINE c == Cardinality(Numbered)
           S == {outbox[j] : j \in Jobs} \cup {0}
<1>0. c \in Nat
  BY NumberedFinite
<1>1. S \subseteq 0 .. c
  BY <1>0 DEF TypeInv, RowInv
<1>2. Max(S) \in S /\ \A y \in S : y <= Max(S)
  <2> HIDE DEF S
  <2> S # {}
    BY DEF S
  <2> QED
    BY <1>0, <1>1, MaxIs
<1>3. c \in S
  <2>1. CASE Numbered = {}
    BY <2>1, FS_EmptySet
  <2>2. CASE Numbered # {}
    BY <2>2 DEF RowInv
  <2> QED
    BY <2>1, <2>2
<1>4. Max(S) = c
  <2> HIDE DEF S, c
  <2>1. Max(S) \in 0 .. c /\ c <= Max(S)
    BY <1>1, <1>2, <1>3
  <2> QED
    BY <1>0, <2>1
<1> QED
  BY <1>4 DEF Sequence

(* The greatest job of a set, or 0. *)
LEMMA LatestIs ==
  ASSUME NEW A, A \subseteq Jobs
  PROVE  LET m == Max({0} \cup A) IN
         /\ m \in A \cup {0} /\ \A y \in A : y <= m /\ m # 0
         /\ m = 0 => A = {}
<1>1. MaxJobs \in Nat /\ {0} \cup A \subseteq 0 .. MaxJobs /\ {0} \cup A # {}
  BY LifecycleAssumption DEF Jobs
<1>2. /\ Max({0} \cup A) \in {0} \cup A
      /\ \A y \in {0} \cup A : y <= Max({0} \cup A)
  BY <1>1, MaxIs
<1> QED
  BY <1>1, <1>2 DEF Jobs

(* The next identifier is that of the first absent row. *)
LEMMA NextIdIs ==
  ASSUME TypeInv, RowInv, NEW j \in Jobs, row[j].state = "absent",
         \A i \in 1 .. j - 1 : row[i].state # "absent"
  PROVE  NextId = j /\ \A i \in Created : i < j
<1>1. ASSUME NEW i \in Created PROVE i < j
  <2>1. i \in Jobs /\ i # j
    BY DEF Created
  <2>2. ~(j < i)
    BY <2>1 DEF RowInv, Created
  <2> QED
    BY <2>1, <2>2 DEF Jobs
<1>2. Created = 1 .. j - 1
  BY <1>1, LifecycleAssumption DEF Created, Jobs
<1>3. Cardinality(1 .. j - 1) = j - 1
  BY FS_Interval, LifecycleAssumption DEF Jobs
<1> QED
  BY <1>1, <1>2, <1>3, LifecycleAssumption DEF NextId, Jobs

-----------------------------------------------------------------------------
(* What a thread does to its own place.                                    *)

Moves(t, pc, j) ==
    /\ th' \in [Threads -> Places]
    /\ th'[t].pc = pc /\ th'[t].job = j
    /\ \A x \in Threads : x # t => th'[x] = th[x]

(* A thread at rest has its type. *)
LEMMA IdleType ==
  /\ Idle \in Places /\ Idle.pc = "idle" /\ Idle.job = 0
  /\ \A pc \in Pcs, j \in Nat : /\ [Idle EXCEPT !.pc = pc, !.job = j] \in Places
                                /\ [Idle EXCEPT !.pc = pc, !.job = j].pc = pc
                                /\ [Idle EXCEPT !.pc = pc, !.job = j].job = j
BY DEF Idle, Places, NoEntry, LibraryRows, Pcs

(* Replacing one thread's place leaves the others alone. *)
LEMMA PlaceSet ==
  ASSUME TypeInv, NEW t \in Threads, NEW p, p \in Places, th' = [th EXCEPT ![t] = p]
  PROVE  Moves(t, p.pc, p.job) /\ th'[t] = p
BY DEF TypeInv, Moves

(* A thread that goes somewhere, and one that leaves. *)
LEMMA Goes ==
  ASSUME TypeInv, NEW t \in Threads, NEW pc \in Pcs, NEW j \in Nat, Goto(t, pc, j)
  PROVE  Moves(t, pc, j)
<1> DEFINE p == [Idle EXCEPT !.pc = pc, !.job = j]
<1>1. p \in Places /\ p.pc = pc /\ p.job = j
  BY IdleType
<1>2. th' = [th EXCEPT ![t] = p]
  BY DEF Goto
<1> HIDE DEF p
<1>3. Moves(t, p.pc, p.job)
  BY <1>1, <1>2, PlaceSet
<1> QED
  BY <1>1, <1>3

(* A thread that leaves its command is idle.                                 *)
LEMMA Leaves ==
  ASSUME TypeInv, NEW t \in Threads, Leave(t)
  PROVE  Moves(t, "idle", 0)
<1>1. th' = [th EXCEPT ![t] = Idle]
  BY DEF Leave
<1>2. Moves(t, Idle.pc, Idle.job)
  BY <1>1, IdleType, PlaceSet
<1> QED
  BY <1>2, IdleType

(* What is known of numbers and threads without looking. *)
LEMMA Basics ==
  /\ MaxJobs \in Nat /\ Jobs \subseteq Nat /\ 0 \notin Jobs
  /\ Poller \in Threads /\ Users \subseteq Threads /\ Poller \notin Users
  /\ \A t \in Threads : t = Poller \/ t \in Users
BY LifecycleAssumption DEF Jobs, Threads

-----------------------------------------------------------------------------
(* The ways in which rows, numbers and acknowledgements change.            *)

NewRow(j, r, p) ==
    /\ j \in Jobs \ Created /\ \A i \in Jobs : i \in Created <=> i < j
    /\ row' = [row EXCEPT ![j] = [state |-> "live", rev |-> r, parent |-> p, dismissed |-> FALSE]]
    /\ r \in Revisions \cup {NoRev} /\ p \in Nat
    /\ \A i \in Live : p = 0 \/ row[i].parent # p
    /\ UNCHANGED <<outbox, acked>>

Recorded(j, o) ==
    /\ j \in Live /\ o \in Ended
    /\ row' = [row EXCEPT ![j].state = o]
    /\ outbox' = [outbox EXCEPT ![j] = Cardinality(Numbered) + 1]
    /\ UNCHANGED acked

Tombstoned(j) ==
    /\ j \in acked
    /\ row' = [row EXCEPT ![j].dismissed = TRUE]
    /\ UNCHANGED <<outbox, acked>>

Confirmed(j) ==
    /\ j \in Numbered /\ acked' = acked \cup {j}
    /\ UNCHANGED <<row, outbox>>

(* A row inserted by the store is the next one. *)
LEMMA InsertIs ==
  ASSUME TypeInv, RowInv, NEW r \in Revisions \cup {NoRev}, NEW p \in Nat, Insert(r, p),
         \A i \in Live : p = 0 \/ row[i].parent # p, UNCHANGED <<outbox, acked>>
  PROVE  NewRow(NextId, r, p)
<1>1. PICK j \in Jobs :
        /\ row[j].state = "absent" /\ \A i \in 1 .. j - 1 : row[i].state # "absent"
        /\ row' = [row EXCEPT ![j] = [state |-> "live", rev |-> r, parent |-> p, dismissed |-> FALSE]]
  BY DEF Insert
<1>2. NextId = j /\ \A i \in Created : i < j
  BY <1>1, NextIdIs
<1>3. \A i \in Jobs : i \in Created <=> i < j
  BY <1>1, <1>2, Basics DEF Created, Jobs
<1> QED
  BY <1>1, <1>2, <1>3 DEF NewRow, Created

(* The child a retry is given: a row that exists; if there is none, no child *)
(* of the parent is open, and, for a fresh attempt, no attempt at all.       *)
LEMMA ChildIs ==
  ASSUME TypeInv, ChildInv, NEW p \in Jobs, NEW fresh \in BOOLEAN, NEW repeat \in BOOLEAN
  PROVE  LET child == ExistingChild(p, fresh, repeat) IN
         /\ child \in Created \cup {0}
         /\ child = 0 => \A i \in Live : row[i].parent # p
         /\ child = 0 /\ fresh => \A i \in Live : row[i].rev # row[p].rev
<1> DEFINE latest == Max({0} \cup Children(p))
           active == Max({0} \cup {j \in Live : row[j].rev = row[p].rev})
<1>1. /\ latest \in Children(p) \cup {0}
      /\ \A y \in Children(p) : y <= latest /\ latest # 0
  BY LatestIs DEF Children, Created
<1>2. /\ active \in {j \in Live : row[j].rev = row[p].rev} \cup {0}
      /\ \A y \in {j \in Live : row[j].rev = row[p].rev} : active # 0
  BY LatestIs DEF Live
<1>3. ExistingChild(p, fresh, repeat) = IF ~repeat /\ latest \in Live THEN latest
                                        ELSE IF fresh /\ active # 0 THEN active
                                        ELSE IF repeat THEN latest ELSE 0
  BY DEF ExistingChild
<1> HIDE DEF latest, active
<1>4. Live \subseteq Created /\ Children(p) \subseteq Created /\ 0 \notin Live /\ Created \subseteq Jobs
  BY Basics DEF Live, Created, Children
<1>5. ASSUME NEW i \in Live, row[i].parent = p PROVE latest \in Live /\ latest # 0
  <2>1. i \in Children(p) /\ i <= latest /\ latest # 0 /\ latest \in Children(p)
    BY <1>1, <1>4, <1>5 DEF Children
  <2>2. latest <= i
    BY <1>4, <1>5, <2>1, Basics DEF ChildInv, Children
  <2>3. latest = i
    BY <1>4, <2>1, <2>2, Basics
  <2> QED
    BY <2>1, <2>3
<1> QED
  BY <1>1, <1>2, <1>3, <1>4, <1>5

(* What a retry's transaction does: an existing child, or the next row. *)
LEMMA SpawnIs ==
  ASSUME TypeInv, RowInv, ChildInv, NEW t \in Threads, NEW fresh \in BOOLEAN, NEW repeat \in BOOLEAN,
         NEW next \in Pcs, SpawnChild(t, fresh, repeat, next), UNCHANGED <<outbox, acked>>
  PROVE  /\ \/ /\ UNCHANGED <<row, staged>>
               /\ \E c \in Created : Moves(t, next, c)
            \/ /\ \E r : NewRow(NextId, r, th[t].job) /\ Moves(t, next, NextId)
               /\ fresh => \A i \in Live : row[i].rev # row[th[t].job].rev
               /\ staged' = IF fresh THEN staged \ {row[th[t].job].rev} ELSE staged
<1> DEFINE p == th[t].job
           child == ExistingChild(p, fresh, repeat)
<1>1. p \in acked /\ p \in Jobs
  BY DEF SpawnChild, TypeInv
<1>2. /\ child \in Created \cup {0}
      /\ child = 0 => \A i \in Live : row[i].parent # p
      /\ child = 0 /\ fresh => \A i \in Live : row[i].rev # row[p].rev
  BY <1>1, ChildIs
<1>3. \/ child # 0 /\ Goto(t, next, child) /\ UNCHANGED <<row, staged>>
      \/ /\ child = 0
         /\ Insert(row[p].rev, p) /\ Goto(t, next, NextId)
         /\ staged' = IF fresh THEN staged \ {row[p].rev} ELSE staged
  BY DEF SpawnChild
<1> HIDE DEF child
<1>4. CASE child # 0 /\ Goto(t, next, child) /\ UNCHANGED <<row, staged>>
  <2>1. child \in Created /\ child \in Nat
    BY <1>2, <1>4, Basics DEF Created
  <2> QED
    BY <1>4, <2>1, Goes
<1>5. CASE /\ child = 0
           /\ Insert(row[p].rev, p) /\ Goto(t, next, NextId)
           /\ staged' = IF fresh THEN staged \ {row[p].rev} ELSE staged
  <2>1. row[p].rev \in Revisions \cup {NoRev} /\ p \in Nat
    BY <1>1, Basics DEF TypeInv, Records
  <2>2. NewRow(NextId, row[p].rev, p)
    BY <1>2, <1>5, <2>1, InsertIs
  <2>3. NextId \in Nat
    BY <2>2, Basics DEF NewRow
  <2>4. Moves(t, next, NextId)
    BY <1>5, <2>3, Goes
  <2> QED
    BY <1>2, <1>5, <2>2, <2>4
<1> QED
  BY <1>3, <1>4, <1>5

(* Every outcome is recorded under the next number. *)
LEMMA CompleteIs ==
  ASSUME TypeInv, RowInv, NEW j \in Live, NEW o \in Ended, Complete(j, o), UNCHANGED acked
  PROVE  Recorded(j, o)
BY SequenceIs DEF Complete, Recorded

RowStep ==
    \/ UNCHANGED <<row, outbox, acked>>
    \/ \E u \in Users, pc \in {"install", "install_failed"} :
         \E j, r, p : NewRow(j, r, p) /\ Moves(u, pc, j)
    \/ \E j \in Live, o \in Ended : Recorded(j, o) /\ UNCHANGED th
    \/ /\ \E j \in acked : Tombstoned(j)
       /\ RetireNext \/ \E t \in Threads : Tombstone(t)
    \/ \E j \in Numbered : Confirmed(j)

(* Rows, numbers and acknowledgements change in no other way. *)
LEMMA RowSteps ==
  ASSUME LifecycleInv, [Next]_vars
  PROVE  RowStep
<1> USE DEF LifecycleInv, durable
<1>1. CASE UNCHANGED vars
  BY <1>1 DEF vars, RowStep
<1>2. ASSUME NEW u \in Users, NEW r \in Revisions, Enqueue(u, r)
      PROVE  RowStep
  <2>1. CASE UNCHANGED row
    BY <1>2, <2>1 DEF Enqueue, RowStep
  <2>2. CASE Insert(r, 0) /\ Goto(u, "install", NextId)
    <3>1. NewRow(NextId, r, 0) /\ NextId \in Nat
      BY <1>2, <2>2, InsertIs, Basics DEF Enqueue, NewRow
    <3>2. Moves(u, "install", NextId)
      BY <2>2, <3>1, Goes, Basics DEF Pcs
    <3> QED
      BY <3>1, <3>2 DEF RowStep
  <2> QED
    BY <1>2, <2>1, <2>2 DEF Enqueue
<1>3. ASSUME NEW u \in Users, SpawnRetry(u) \/ SpawnRepeat(u)
      PROVE  RowStep
  <2>0. u \in Threads /\ th[u].fresh \in BOOLEAN /\ {"install", "install_failed"} \subseteq Pcs
    BY Basics DEF TypeInv, Places, Pcs
  <2>1. UNCHANGED <<outbox, acked>>
    BY <1>3 DEF SpawnRetry, SpawnRepeat
  <2>2. \/ UNCHANGED row
        \/ SpawnChild(u, th[u].fresh, FALSE, "install")
        \/ SpawnChild(u, TRUE, TRUE, "install_failed")
    BY <1>3 DEF SpawnRetry, SpawnRepeat
  <2>3. CASE UNCHANGED row
    BY <2>1, <2>3 DEF RowStep
  <2>4. CASE SpawnChild(u, th[u].fresh, FALSE, "install")
    <3>1. \/ UNCHANGED row
          \/ \E r : NewRow(NextId, r, th[u].job) /\ Moves(u, "install", NextId)
      BY <2>0, <2>1, <2>4, SpawnIs
    <3> QED
      BY <2>1, <3>1 DEF RowStep
  <2>5. CASE SpawnChild(u, TRUE, TRUE, "install_failed")
    <3>1. \/ UNCHANGED row
          \/ \E r : NewRow(NextId, r, th[u].job) /\ Moves(u, "install_failed", NextId)
      BY <2>0, <2>1, <2>5, SpawnIs
    <3> QED
      BY <2>1, <3>1 DEF RowStep
  <2> QED
    BY <2>2, <2>3, <2>4, <2>5
<1>4. ASSUME NEW t \in Threads, Tombstone(t)
      PROVE  RowStep
  <2>1. th[t].job \in acked
    BY <1>4, Basics DEF Tombstone, At, ThreadInv, UserOk, PollerOk, Dismissing
  <2> QED
    BY <1>4, <2>1 DEF Tombstone, Tombstoned, RowStep
<1>5. ASSUME NEW j \in Jobs, NEW o \in Ended, End(j, o)
      PROVE  RowStep
  <2>1. Recorded(j, o)
    BY <1>5, CompleteIs DEF End, Live
  <2> QED
    BY <1>5, <2>1 DEF End, RowStep, Recorded
<1>6. CASE SettleComplete
  <2>1. PICK j \in Live : Complete(j, "fresh") /\ UNCHANGED <<acked, th>>
    BY <1>6 DEF SettleComplete
  <2>2. Recorded(j, "fresh")
    BY <2>1, CompleteIs DEF Ended, Failures
  <2> QED
    BY <2>1, <2>2 DEF RowStep, Ended, Failures
<1>7. CASE Acknowledge
  <2>1. th[Poller].job \in Numbered
    BY <1>7 DEF Acknowledge, At, DeliveryInv
  <2> QED
    BY <1>7, <2>1 DEF Acknowledge, RowStep, Confirmed
<1>8. CASE RetireNext
  <2>1. poll \subseteq acked
    BY <1>8 DEF RetireNext, At, ThreadInv, PollerOk, Retiring
  <2> QED
    BY <1>8, <2>1 DEF RetireNext, RowStep, Tombstoned
<1>9. CASE \/ \E u \in Users : \/ ResolveExisting(u) \/ Install(u) \/ InstallRepeat(u)
                               \/ \E j \in Jobs : Retry(u, j) \/ Dismiss(u, j)
           \/ \E t \in Threads : RetireRuntime(t) \/ Forget(t)
           \/ \E j \in Jobs : Begin(j) \/ Fetch(j) \/ Publish(j)
           \/ Release \/ PollStarts \/ ReadEntry \/ VerifyBundle \/ CommitEntry \/ DeliveryEnds
           \/ PollEnds \/ OtherWrite \/ Crash \/ SettleDiscard \/ SettleInstall
  <2>1. UNCHANGED <<row, outbox, acked>>
    BY <1>9 DEF ResolveExisting, Install, InstallRepeat, Retry, Dismiss, RetireRuntime, Forget, Begin,
                Fetch, Publish, Release, PollStarts, ReadEntry, VerifyBundle, CommitEntry, DeliveryEnds,
                PollEnds, OtherWrite, Crash, SettleDiscard, SettleInstall
  <2> QED
    BY <2>1 DEF RowStep
<1> QED
  BY <1>1, <1>2, <1>3, <1>4, <1>5, <1>6, <1>7, <1>8, <1>9
     DEF Next, Command, Thread, Deliver, Settle

(* Rows keep what they are; an outcome and its number stay. *)
Grows ==
    /\ row' \in [Jobs -> Records] /\ outbox' \in [Jobs -> Nat] /\ acked' \subseteq Jobs
    /\ acked \subseteq acked' /\ Created \subseteq Created' /\ Numbered \subseteq Numbered'
    /\ \A j \in Numbered : outbox'[j] = outbox[j] /\ row'[j].state = row[j].state

(* A record of a row that is created, ends or is dismissed. *)
LEMMA RowTypes ==
  ASSUME TypeInv, NEW j \in Jobs
  PROVE  /\ \A r \in Revisions \cup {NoRev}, p \in Nat :
              [state |-> "live", rev |-> r, parent |-> p, dismissed |-> FALSE] \in Records
         /\ \A o \in Ended : LET x == [row[j] EXCEPT !.state = o] IN
              /\ x \in Records /\ x.state = o /\ x.parent = row[j].parent
              /\ x.dismissed = row[j].dismissed /\ x.rev = row[j].rev
         /\ LET x == [row[j] EXCEPT !.dismissed = TRUE] IN
              /\ x \in Records /\ x.state = row[j].state /\ x.parent = row[j].parent
              /\ x.dismissed /\ x.rev = row[j].rev
<1>1. row[j] \in Records
  BY DEF TypeInv
<1> QED
  BY <1>1 DEF Records

(* Whatever a step does to the rows, none goes and no outcome changes.       *)
LEMMA RowGrowth ==
  ASSUME TypeInv, RowInv, RowStep
  PROVE  Grows
<1>1. CASE UNCHANGED <<row, outbox, acked>>
  BY <1>1 DEF TypeInv, Grows, Created, Numbered
<1>2. ASSUME NEW j, NEW r, NEW p, NewRow(j, r, p)
      PROVE  Grows
  <2> DEFINE x == [state |-> "live", rev |-> r, parent |-> p, dismissed |-> FALSE]
  <2>1. j \in Jobs /\ x \in Records /\ x.state = "live"
    BY <1>2, RowTypes DEF NewRow
  <2>2. row' = [row EXCEPT ![j] = x] /\ UNCHANGED <<outbox, acked>> /\ row[j].state = "absent"
    BY <1>2 DEF NewRow, Created
  <2>3. outbox[j] = 0
    BY <2>1, <2>2 DEF RowInv, Ended, Failures
  <2> HIDE DEF x
  <2>4. row' \in [Jobs -> Records] /\ row'[j].state = "live" /\ \A i \in Jobs : i # j => row'[i] = row[i]
    BY <2>1, <2>2 DEF TypeInv
  <2> QED
    BY <2>1, <2>2, <2>3, <2>4 DEF TypeInv, Grows, Created, Numbered
<1>3. ASSUME NEW j \in Live, NEW o \in Ended, Recorded(j, o)
      PROVE  Grows
  <2> DEFINE x == [row[j] EXCEPT !.state = o]
  <2>0. j \in Jobs /\ o # "absent" /\ Cardinality(Numbered) + 1 \in Nat
    BY NumberedFinite DEF Live, Ended, Failures
  <2>1. x \in Records /\ x.state = o
    BY <2>0, RowTypes
  <2>2. row' = [row EXCEPT ![j] = x] /\ outbox' = [outbox EXCEPT ![j] = Cardinality(Numbered) + 1]
        /\ UNCHANGED acked /\ row[j].state = "live"
    BY <1>3 DEF Recorded, Live
  <2>3. outbox[j] = 0
    BY <2>0, <2>2 DEF RowInv, Ended, Failures
  <2> HIDE DEF x
  <2>4. row' \in [Jobs -> Records] /\ row'[j].state = o /\ \A i \in Jobs : i # j => row'[i] = row[i]
    BY <2>0, <2>1, <2>2 DEF TypeInv
  <2>5. outbox' \in [Jobs -> Nat] /\ \A i \in Jobs : i # j => outbox'[i] = outbox[i]
    BY <2>0, <2>1, <2>2 DEF TypeInv
  <2> QED
    BY <2>0, <2>1, <2>2, <2>3, <2>4, <2>5 DEF TypeInv, Grows, Created, Numbered
<1>4. ASSUME NEW j \in acked, Tombstoned(j)
      PROVE  Grows
  <2> DEFINE x == [row[j] EXCEPT !.dismissed = TRUE]
  <2>1. j \in Jobs /\ x \in Records /\ x.state = row[j].state
    BY RowTypes DEF TypeInv
  <2>2. row' = [row EXCEPT ![j] = x] /\ UNCHANGED <<outbox, acked>>
    BY <1>4 DEF Tombstoned
  <2> HIDE DEF x
  <2>3. row' \in [Jobs -> Records] /\ \A i \in Jobs : row'[i].state = row[i].state
    BY <2>1, <2>2 DEF TypeInv
  <2> QED
    BY <2>1, <2>2, <2>3 DEF TypeInv, Grows, Created, Numbered
<1>5. ASSUME NEW j \in Numbered, Confirmed(j)
      PROVE  Grows
  BY <1>5 DEF TypeInv, Grows, Created, Numbered, Confirmed
<1> QED
  BY <1>1, <1>2, <1>3, <1>4, <1>5 DEF RowStep

(* Every step keeps the rows in order and their outcomes numbered. *)
LEMMA RowKept ==
  ASSUME TypeInv, RowInv, RowStep
  PROVE  RowInv'
<1>0. /\ Grows /\ IsFiniteSet(Numbered) /\ Cardinality(Numbered) \in Nat
      /\ \A j \in Jobs : outbox[j] \in Nat
  BY RowGrowth, NumberedFinite DEF TypeInv
<1>1. CASE UNCHANGED <<row, outbox, acked>>
  BY <1>1 DEF RowInv, Created, Numbered
<1>2. ASSUME NEW j, NEW r, NEW p, NewRow(j, r, p)
      PROVE  RowInv'
  <2> DEFINE x == [state |-> "live", rev |-> r, parent |-> p, dismissed |-> FALSE]
  <2>1. j \in Jobs /\ x.state = "live" /\ ~x.dismissed
    BY <1>2 DEF NewRow
  <2>2. /\ row' = [row EXCEPT ![j] = x] /\ UNCHANGED <<outbox, acked>> /\ row[j].state = "absent"
        /\ \A i \in Jobs : i \in Created <=> i < j
    BY <1>2 DEF NewRow, Created
  <2> HIDE DEF x
  <2>3. row'[j] = x /\ \A i \in Jobs : i # j => row'[i] = row[i]
    BY <2>1, <2>2 DEF TypeInv
  <2>4. Numbered' = Numbered
    BY <2>2 DEF Numbered
  <2>5. ASSUME NEW i \in Jobs, NEW k \in Jobs, i < k, k \in Created' PROVE i \in Created'
    <3>1. k \in Created \/ k = j
      BY <2>1, <2>3, <2>5 DEF Created
    <3>2. i \in Created
      BY <2>1, <2>2, <2>5, <3>1, Basics
    <3> QED
      BY <1>0, <3>2 DEF Grows
  <2>6. \A i \in Jobs : outbox'[i] # 0 <=> row'[i].state \in Ended
    BY <2>1, <2>2, <2>3 DEF RowInv, Ended, Failures
  <2>7. \A i \in Jobs : row'[i].dismissed => row'[i].state \in Ended
    BY <2>1, <2>2, <2>3 DEF RowInv
  <2> QED
    BY <2>2, <2>4, <2>5, <2>6, <2>7 DEF RowInv
<1>3. ASSUME NEW j \in Live, NEW o \in Ended, Recorded(j, o)
      PROVE  RowInv'
  <2> DEFINE x == [row[j] EXCEPT !.state = o]
             c == Cardinality(Numbered) + 1
  <2>1. j \in Jobs /\ x.state = o /\ o # "absent" /\ x.dismissed = row[j].dismissed
    BY RowTypes DEF Live, Ended, Failures
  <2>2. row' = [row EXCEPT ![j] = x] /\ outbox' = [outbox EXCEPT ![j] = c]
        /\ UNCHANGED acked /\ row[j].state = "live"
    BY <1>3 DEF Recorded, Live
  <2> HIDE DEF x, c
  <2>3. /\ row'[j] = x /\ \A i \in Jobs : i # j => row'[i] = row[i]
        /\ outbox'[j] = c /\ \A i \in Jobs : i # j => outbox'[i] = outbox[i]
    BY <2>1, <2>2 DEF TypeInv
  <2>4. Created' = Created
    BY <2>1, <2>2, <2>3 DEF Created
  <2>5. c \in Nat /\ c # 0 /\ \A i \in Jobs : outbox[i] <= c
    BY <1>0 DEF RowInv, c
  <2>6. Numbered' = Numbered \cup {j} /\ j \notin Numbered
    BY <2>1, <2>2, <2>3, <2>5 DEF Numbered, RowInv, Ended, Failures
  <2>7. Cardinality(Numbered') = c
    <3>1. Cardinality(Numbered \cup {j}) = c
      BY <1>0, <2>6, FS_AddElement DEF c
    <3> QED
      BY <2>6, <3>1
  <2>8. /\ \A i \in Jobs : outbox'[i] # 0 <=> row'[i].state \in Ended
        /\ \A i \in Jobs : row'[i].dismissed => row'[i].state \in Ended
    BY <2>1, <2>3, <2>5 DEF RowInv
  <2>9. \A i \in Jobs : outbox'[i] <= c
    BY <2>3, <2>5
  <2>10. acked' \subseteq Numbered'
    BY <2>2, <2>6 DEF RowInv
  <2> QED
    BY <2>1, <2>3, <2>4, <2>7, <2>8, <2>9, <2>10 DEF RowInv
<1>4. ASSUME NEW j \in acked, Tombstoned(j)
      PROVE  RowInv'
  <2> DEFINE x == [row[j] EXCEPT !.dismissed = TRUE]
  <2>1. j \in Jobs /\ x.state = row[j].state
    BY RowTypes DEF TypeInv
  <2>2. row' = [row EXCEPT ![j] = x] /\ UNCHANGED <<outbox, acked>>
    BY <1>4 DEF Tombstoned
  <2> HIDE DEF x
  <2>3. row'[j] = x /\ \A i \in Jobs : i # j => row'[i] = row[i]
    BY <2>1, <2>2 DEF TypeInv
  <2>4. (\A i \in Jobs : row'[i].state = row[i].state) /\ row[j].state \in Ended
    BY <2>1, <2>3 DEF RowInv, Numbered
  <2>5. Created' = Created /\ Numbered' = Numbered
    BY <2>2, <2>4 DEF Created, Numbered
  <2>6. \A i \in Jobs : row'[i].dismissed => row'[i].state \in Ended
    BY <2>1, <2>3, <2>4 DEF RowInv
  <2> QED
    BY <2>2, <2>4, <2>5, <2>6 DEF RowInv
<1>5. ASSUME NEW j \in Numbered, Confirmed(j)
      PROVE  RowInv'
  BY <1>5 DEF Confirmed, RowInv, Created, Numbered
<1> QED
  BY <1>1, <1>2, <1>3, <1>4, <1>5 DEF RowStep

(* Every step keeps the open child the latest of its parent. *)
LEMMA ChildKept ==
  ASSUME TypeInv, RowInv, ChildInv, RowStep
  PROVE  ChildInv'
<1>1. CASE UNCHANGED <<row, outbox, acked>>
  BY <1>1 DEF ChildInv, Created, Live
<1>2. ASSUME NEW j, NEW r, NEW p, NewRow(j, r, p)
      PROVE  ChildInv'
  <2> DEFINE x == [state |-> "live", rev |-> r, parent |-> p, dismissed |-> FALSE]
  <2>1. j \in Jobs /\ x.state = "live" /\ x.parent = p
    BY <1>2 DEF NewRow
  <2>2. /\ row' = [row EXCEPT ![j] = x] /\ \A i \in Jobs : i \in Created <=> i < j
        /\ \A i \in Live : p = 0 \/ row[i].parent # p
    BY <1>2 DEF NewRow
  <2> HIDE DEF x
  <2>3. row'[j] = x /\ \A i \in Jobs : i # j => row'[i] = row[i]
    BY <2>1, <2>2 DEF TypeInv
  <2> SUFFICES ASSUME NEW i \in Created', NEW k \in Created', k \in Live', row'[k].parent # 0,
                      row'[i].parent = row'[k].parent
               PROVE  i <= k
    BY DEF ChildInv
  <2>4. i \in Jobs /\ k \in Jobs /\ (i \in Created \/ i = j) /\ (k \in Live \/ k = j)
        /\ (k \in Live => k \in Created)
    BY <2>1, <2>3 DEF Created, Live
  <2>5. CASE k = j
    BY <2>2, <2>4, <2>5, Basics
  <2>6. CASE k # j /\ i = j
    BY <2>1, <2>2, <2>3, <2>4, <2>6
  <2>7. CASE k # j /\ i # j
    BY <2>3, <2>4, <2>7 DEF ChildInv
  <2> QED
    BY <2>5, <2>6, <2>7
<1>3. ASSUME NEW j \in Jobs, \A i \in Jobs : row'[i].parent = row[i].parent,
             Created' = Created, Live' \subseteq Live
      PROVE  ChildInv'
  BY <1>3 DEF ChildInv, Created
<1>4. ASSUME NEW j \in Live, NEW o \in Ended, Recorded(j, o)
      PROVE  ChildInv'
  <2> DEFINE x == [row[j] EXCEPT !.state = o]
  <2>1. j \in Jobs /\ x.state = o /\ o \notin {"absent", "live"} /\ x.parent = row[j].parent
    BY RowTypes DEF Live, Ended, Failures
  <2>2. row' = [row EXCEPT ![j] = x] /\ row[j].state = "live"
    BY <1>4 DEF Recorded, Live
  <2> HIDE DEF x
  <2>3. row'[j] = x /\ \A i \in Jobs : i # j => row'[i] = row[i]
    BY <2>1, <2>2 DEF TypeInv
  <2>4. /\ \A i \in Jobs : row'[i].parent = row[i].parent
        /\ Created' = Created /\ Live' \subseteq Live
    BY <2>1, <2>2, <2>3 DEF Created, Live
  <2> QED
    BY <1>3, <2>1, <2>4
<1>5. ASSUME NEW j \in acked, Tombstoned(j)
      PROVE  ChildInv'
  <2> DEFINE x == [row[j] EXCEPT !.dismissed = TRUE]
  <2>1. j \in Jobs /\ x.state = row[j].state /\ x.parent = row[j].parent
    BY RowTypes DEF TypeInv
  <2>2. row' = [row EXCEPT ![j] = x]
    BY <1>5 DEF Tombstoned
  <2> HIDE DEF x
  <2>3. row'[j] = x /\ \A i \in Jobs : i # j => row'[i] = row[i]
    BY <2>1, <2>2 DEF TypeInv
  <2>4. /\ \A i \in Jobs : row'[i].parent = row[i].parent
        /\ Created' = Created /\ Live' \subseteq Live
    BY <2>1, <2>2, <2>3 DEF Created, Live
  <2> QED
    BY <1>3, <2>1, <2>4
<1>6. ASSUME NEW j \in Numbered, Confirmed(j)
      PROVE  ChildInv'
  BY <1>6 DEF Confirmed, ChildInv, Created, Live
<1> QED
  BY <1>1, <1>2, <1>4, <1>5, <1>6 DEF RowStep

-----------------------------------------------------------------------------
(* Threads.                                                                *)

(* The rows of users' threads stay what they were when others move. *)
LEMMA UserStays ==
  ASSUME Grows, NEW u \in Users, UserOk(u), th'[u] = th[u]
  PROVE  UserOk(u)'
BY DEF UserOk, Grows

(* So it is with the delivery loop and the library's state it relies on. *)
LEMMA PollerStays ==
  ASSUME TypeInv, RowInv, PollerOk, DeliveryInv, Grows, th'[Poller] = th[Poller],
         UNCHANGED <<poll, library, acked>>
  PROVE  PollerOk' /\ DeliveryInv'
<1>1. PollerOk'
  BY DEF PollerOk, Grows
<1>2. \A j \in Numbered : outbox'[j] = outbox[j] /\ (Succeeded(j)' <=> Succeeded(j)) /\ j \in Numbered'
  BY DEF Grows, Succeeded
<1>3. AckedSuccessInLibrary'
  BY <1>2 DEF DeliveryInv, AckedSuccessInLibrary, RowInv
<1> QED
  BY <1>1, <1>2, <1>3 DEF DeliveryInv

UserStep(u) ==
    \/ Command(u) \/ Thread(u)
    \/ \E r \in Revisions : Enqueue(u, r)
    \/ \E j \in Jobs : Retry(u, j) \/ Dismiss(u, j)

(* A command or a dismissal, seen from its thread. *)
LEMMA UserMoves ==
  ASSUME LifecycleInv, Grows, NEW u \in Users, UserStep(u)
  PROVE  /\ \E pc, j : Moves(u, pc, j)
         /\ UserOk(u)'
         /\ UNCHANGED <<poll, library, acked, settling, published>>
<1> USE DEF LifecycleInv, durable
<1> DEFINE Q == UNCHANGED <<poll, library, acked, settling, published>>
           Goal == /\ \E pc, j : Moves(u, pc, j)
                   /\ UserOk(u)' /\ Q
<1>0. /\ u \in Threads /\ u # Poller /\ UserOk(u) /\ Created \subseteq Nat /\ Created \subseteq Created'
      /\ acked \subseteq Created /\ acked \subseteq acked' /\ th[u].job \in Nat /\ th[u] \in Places
  BY Basics DEF ThreadInv, Created, Grows, TypeInv, Places, RowInv, Numbered, Ended, Failures
<1>a. ASSUME NEW pc, NEW j, Moves(u, pc, j), Q, pc \in UserPcs \cup Dismissing,
             pc # "idle" => j \in Created', pc \in Dismissing => j \in acked'
      PROVE  Goal
  BY <1>a DEF Moves, UserOk
<1>b. ASSUME NEW pc \in Pcs, NEW j \in Nat, Goto(u, pc, j), Q, pc \in UserPcs \cup Dismissing,
             pc # "idle" => j \in Created', pc \in Dismissing => j \in acked'
      PROVE  Goal
  <2>1. Moves(u, pc, j)
    BY <1>0, <1>b, Goes
  <2> QED
    BY <1>a, <1>b, <2>1
<1>c. ASSUME Leave(u), Q PROVE Goal
  <2>1. Moves(u, "idle", 0)
    BY <1>0, <1>c, Leaves
  <2> QED
    BY <1>a, <1>c, <2>1 DEF UserPcs, Dismissing
<1>1. ASSUME NEW r \in Revisions, Enqueue(u, r) PROVE Goal
  <2>1. Q
    BY <1>1 DEF Enqueue
  <2>2. CASE LatestOf(r) # 0 /\ Goto(u, "resolve", LatestOf(r))
    <3>1. LatestOf(r) \in Created
      BY <2>2, LatestIs DEF LatestOf, Created
    <3> QED
      BY <1>0, <1>b, <2>1, <2>2, <3>1 DEF UserPcs, Dismissing, Pcs
  <2>3. CASE Insert(r, 0) /\ Goto(u, "install", NextId)
    <3>1. UNCHANGED <<outbox, acked>>
      BY <1>1 DEF Enqueue
    <3>2. NewRow(NextId, r, 0)
      BY <2>3, <3>1, InsertIs
    <3>3. NextId \in Nat /\ NextId \in Created'
      BY <3>2, Basics DEF NewRow, Created, TypeInv
    <3> QED
      BY <1>b, <2>1, <2>3, <3>3 DEF UserPcs, Dismissing, Pcs
  <2> QED
    BY <1>1, <2>2, <2>3 DEF Enqueue
<1>2. CASE ResolveExisting(u)
  <2>1. Q /\ (Leave(u) \/ Goto(u, "repeat", th[u].job)) /\ th[u].pc = "resolve"
    BY <1>2 DEF ResolveExisting, At
  <2>2. th[u].job \in Created'
    BY <1>0, <2>1 DEF UserOk
  <2> QED
    BY <1>0, <1>b, <1>c, <2>1, <2>2 DEF UserPcs, Dismissing, Pcs
<1>3. ASSUME NEW j \in Jobs, Retry(u, j) PROVE Goal
  <2> DEFINE p == [Idle EXCEPT !.pc = "spawn", !.job = j, !.fresh = (row[j].state = "fresh")]
  <2>1. p \in Places /\ p.pc = "spawn" /\ p.job = j
    <3>1. \A b \in BOOLEAN : LET x == [Idle EXCEPT !.pc = "spawn", !.job = j, !.fresh = b]
                              IN  x \in Places /\ x.pc = "spawn" /\ x.job = j
      BY Basics DEF Idle, Places, NoEntry, LibraryRows, Pcs
    <3>2. (row[j].state = "fresh") \in BOOLEAN
      OBVIOUS
    <3> QED
      BY <3>1, <3>2
  <2>2. Q /\ th' = [th EXCEPT ![u] = p] /\ j \in Created
    BY <1>3 DEF Retry, Created
  <2> HIDE DEF p
  <2>3. Moves(u, "spawn", j)
    BY <1>0, <2>1, <2>2, PlaceSet
  <2> QED
    BY <1>0, <1>a, <2>2, <2>3 DEF UserPcs, Dismissing
<1>4. CASE SpawnRetry(u) \/ SpawnRepeat(u)
  <2>0. {"install", "install_failed"} \subseteq Pcs /\ th[u].fresh \in BOOLEAN
    BY <1>0 DEF Pcs, Places
  <2>1. Q /\ UNCHANGED <<outbox, acked>>
    BY <1>4 DEF SpawnRetry, SpawnRepeat
  <2>2. \/ Leave(u)
        \/ SpawnChild(u, th[u].fresh, FALSE, "install")
        \/ SpawnChild(u, TRUE, TRUE, "install_failed")
    BY <1>4 DEF SpawnRetry, SpawnRepeat
  <2>3. ASSUME NEW pc \in {"install", "install_failed"}, NEW r, NEW p, NewRow(NextId, r, p),
               Moves(u, pc, NextId)
        PROVE  Goal
    <3>1. NextId \in Created'
      BY <2>3, Basics DEF NewRow, Created, TypeInv
    <3> QED
      BY <1>a, <2>1, <2>3, <3>1 DEF UserPcs, Dismissing
  <2>4. ASSUME NEW pc \in {"install", "install_failed"}, NEW c \in Created, Moves(u, pc, c)
        PROVE  Goal
    BY <1>0, <1>a, <2>1, <2>4 DEF UserPcs, Dismissing
  <2>5. CASE SpawnChild(u, th[u].fresh, FALSE, "install")
    <3>1. \/ \E c \in Created : Moves(u, "install", c)
          \/ \E r : NewRow(NextId, r, th[u].job) /\ Moves(u, "install", NextId)
      BY <1>0, <2>0, <2>1, <2>5, SpawnIs
    <3> QED
      BY <2>3, <2>4, <3>1
  <2>6. CASE SpawnChild(u, TRUE, TRUE, "install_failed")
    <3>1. \/ \E c \in Created : Moves(u, "install_failed", c)
          \/ \E r : NewRow(NextId, r, th[u].job) /\ Moves(u, "install_failed", NextId)
      BY <1>0, <2>0, <2>1, <2>6, SpawnIs
    <3> QED
      BY <2>3, <2>4, <3>1
  <2> QED
    BY <1>c, <2>1, <2>2, <2>5, <2>6
<1>5. CASE Install(u) \/ InstallRepeat(u)
  BY <1>5, <1>c DEF Install, InstallRepeat
<1>6. ASSUME NEW j \in Jobs, Dismiss(u, j) PROVE Goal
  BY <1>0, <1>6, <1>b DEF Dismiss, Dismissible, UserPcs, Dismissing, Pcs
<1>7. CASE Tombstone(u)
  <2>1. Q /\ Goto(u, "retire_runtime", th[u].job) /\ th[u].job \in acked
    BY <1>0, <1>7 DEF Tombstone, At, UserOk, Dismissing
  <2> QED
    BY <1>0, <1>b, <2>1 DEF UserPcs, Dismissing, Pcs
<1>8. CASE RetireRuntime(u)
  <2>1. Q /\ (Goto(u, "await", th[u].job) \/ Leave(u)) /\ th[u].job \in acked
    BY <1>0, <1>8 DEF RetireRuntime, At, UserOk, Dismissing, DismissalEnds
  <2> QED
    BY <1>0, <1>b, <1>c, <2>1 DEF UserPcs, Dismissing, Pcs
<1>9. CASE Forget(u)
  BY <1>0, <1>9, <1>c DEF Forget, DismissalEnds
<1> QED
  BY <1>1, <1>2, <1>3, <1>4, <1>5, <1>6, <1>7, <1>8, <1>9 DEF UserStep, Command, Thread

(* An acknowledged success stays in the library while the library moves on. *)
LEMMA AckedStays ==
  ASSUME TypeInv, RowInv, DeliveryInv, Grows, acked' = acked, library'.sequence \in Nat,
         library.sequence <= library'.sequence
  PROVE  AckedSuccessInLibrary'
<1>1. library.sequence \in Nat /\ \A j \in acked : j \in Jobs /\ outbox[j] \in Nat
  BY DEF TypeInv, LibraryRows
<1>2. \A j \in acked : outbox'[j] = outbox[j] /\ (Succeeded(j)' <=> Succeeded(j))
  BY DEF Grows, Succeeded, RowInv
<1>3. \A j \in acked : Succeeded(j) => library.sequence >= outbox[j]
  BY DEF DeliveryInv, AckedSuccessInLibrary
<1>4. \A j \in acked : Succeeded(j)' => library'.sequence >= outbox'[j]
  BY <1>1, <1>2, <1>3
<1> QED
  BY <1>4 DEF AckedSuccessInLibrary

(* A success is projected under its own number. *)
LEMMA CandidateIs ==
  ASSUME TypeInv, NEW j \in Jobs, NEW e \in LibraryRows
  PROVE  /\ Candidate(j, e) \in LibraryRows
         /\ Succeeded(j) => /\ Candidate(j, e).sequence = outbox[j] /\ Candidate(j, e).rev = row[j].rev
                            /\ e.uploaded /\ e.rev = row[j].rev => Candidate(j, e).uploaded
         /\ ~Succeeded(j) => Candidate(j, e) = e
<1>1. outbox[j] \in Nat /\ row[j].rev \in Revisions \cup {NoRev} /\ e.uploaded \in BOOLEAN
  BY DEF TypeInv, Records, LibraryRows
<1>2. (e.uploaded /\ e.rev = row[j].rev) \in BOOLEAN
  OBVIOUS
<1>3. CASE Succeeded(j)
  <2> DEFINE b == e.uploaded /\ e.rev = row[j].rev
  <2>1. Candidate(j, e) = [sequence |-> outbox[j], rev |-> row[j].rev, uploaded |-> b]
    BY <1>3 DEF Candidate
  <2>2. b \in BOOLEAN /\ (e.uploaded /\ e.rev = row[j].rev => b)
    OBVIOUS
  <2> HIDE DEF b
  <2> QED
    BY <1>1, <1>3, <2>1, <2>2 DEF LibraryRows
<1>4. CASE ~Succeeded(j)
  BY <1>4 DEF Candidate
<1> QED
  BY <1>3, <1>4

PollerStep == Deliver \/ Thread(Poller)

(* One step of the delivery loop. *)
LEMMA PollerMoves ==
  ASSUME LifecycleInv, Grows, PollerStep
  PROVE  /\ PollerOk' /\ DeliveryInv'
         /\ th' \in [Threads -> Places] /\ \A u \in Users : th'[u] = th[u]
         /\ poll' \subseteq Jobs /\ library' \in LibraryRows
         /\ library.sequence <= library'.sequence
         /\ UNCHANGED settling
<1> USE DEF LifecycleInv, durable
<1> DEFINE Sane == /\ th' \in [Threads -> Places] /\ \A u \in Users : th'[u] = th[u]
                   /\ poll' \subseteq Jobs /\ library' \in LibraryRows
                   /\ library.sequence <= library'.sequence
                   /\ UNCHANGED settling
           Good == PollerOk' /\ DeliveryInv' /\ Sane
           pc == th[Poller].pc
           job == th[Poller].job
<1>0. /\ Poller \in Threads /\ Poller \notin Users /\ Users \subseteq Threads
      /\ th \in [Threads -> Places] /\ th[Poller] \in Places
      /\ job \in Nat /\ library \in LibraryRows /\ library.sequence \in Nat /\ library.sequence <= library.sequence
      /\ poll \subseteq Jobs /\ poll \subseteq Numbered /\ acked \subseteq Numbered /\ acked \subseteq Jobs
      /\ Numbered \subseteq Numbered' /\ acked \subseteq acked'
      /\ Numbered \subseteq Jobs /\ Jobs \subseteq Nat
  BY Basics DEF TypeInv, Places, LibraryRows, ThreadInv, PollerOk, RowInv, Grows, Numbered
<1>1. \A j \in Numbered : /\ outbox'[j] = outbox[j] /\ (Succeeded(j)' <=> Succeeded(j))
                          /\ outbox[j] \in Nat
  BY <1>0 DEF Grows, Succeeded, TypeInv
<1>2. ASSUME UNCHANGED <<library, acked>> PROVE AckedSuccessInLibrary'
  BY <1>0, <1>2, AckedStays
\* a step to a place where no outcome is under delivery
<1>a. ASSUME NEW to \in {"idle", "load"} \cup Retiring, NEW j \in Nat, Goto(Poller, to, j),
             UNCHANGED <<library, acked, settling>>, poll' \subseteq Numbered,
             to \in Retiring => poll' \subseteq acked,
             to \in Dismissing => j \in acked
      PROVE  Good
  <2>1. to \in Pcs
    BY DEF Retiring, Dismissing, Pcs
  <2>2. Moves(Poller, to, j)
    BY <1>0, <1>a, <2>1, Goes
  <2>3. Sane /\ th'[Poller].pc = to /\ th'[Poller].job = j
    BY <1>0, <1>a, <2>2 DEF Moves
  <2>4. PollerOk'
    BY <1>0, <1>a, <2>3 DEF PollerOk, Delivering
  <2>5. DeliveryInv'
    BY <1>2, <1>a, <2>3 DEF DeliveryInv, Retiring, Dismissing
  <2> QED
    BY <2>3, <2>4, <2>5
<1>b. 0 \in Nat
  OBVIOUS
<1>3. CASE PollStarts
  <2>1. /\ Goto(Poller, "load", 0) /\ UNCHANGED <<library, acked, settling>> /\ poll' = Pending
    BY <1>3 DEF PollStarts
  <2>2. Pending \subseteq Numbered
    BY DEF Pending, Numbered
  <2> QED
    BY <1>a, <1>b, <2>1, <2>2 DEF Retiring, Dismissing
<1>4. CASE ReadEntry
  <2>1. PICK j \in poll :
          /\ IF Succeeded(j) /\ library.sequence >= outbox[j]
             THEN Goto(Poller, "ack", j)
             ELSE th' = [th EXCEPT ![Poller] = [Idle EXCEPT !.pc = "hash", !.job = j, !.entry = library]]
          /\ poll' = poll \ {j}
    BY <1>4 DEF ReadEntry
  <2>2. UNCHANGED <<library, acked, settling, row, outbox>> /\ j \in Numbered /\ j \in Nat /\ pc = "load"
    BY <1>0, <1>4 DEF ReadEntry, At
  <2>3. CASE Succeeded(j) /\ library.sequence >= outbox[j]
    <3>1. Moves(Poller, "ack", j)
      BY <1>0, <2>1, <2>2, <2>3, Goes DEF Pcs
    <3>2. Sane /\ th'[Poller].pc = "ack" /\ th'[Poller].job = j
      BY <1>0, <2>1, <2>2, <3>1 DEF Moves
    <3>3. PollerOk'
      BY <1>0, <2>1, <3>2 DEF PollerOk, Delivering, Dismissing, Retiring
    <3>4. library'.sequence >= outbox'[j] /\ j \in Numbered'
      BY <1>0, <1>1, <2>2, <2>3
    <3>5. DeliveryInv'
      BY <1>2, <2>2, <3>2, <3>4 DEF DeliveryInv
    <3> QED
      BY <3>2, <3>3, <3>5
  <2>4. CASE ~(Succeeded(j) /\ library.sequence >= outbox[j])
    <3> DEFINE p == [Idle EXCEPT !.pc = "hash", !.job = j, !.entry = library]
    <3>1. p \in Places /\ p.pc = "hash" /\ p.job = j /\ p.entry = library /\ ~p.moved
      BY <1>0, <2>2 DEF Idle, Places, NoEntry, Pcs
    <3>2. th' = [th EXCEPT ![Poller] = p]
      BY <2>1, <2>4
    <3> HIDE DEF p
    <3>3. Moves(Poller, "hash", j) /\ th'[Poller] = p
      BY <1>0, <3>1, <3>2, PlaceSet
    <3>4. Sane /\ th'[Poller].pc = "hash" /\ th'[Poller].job = j
      BY <1>0, <2>1, <2>2, <3>3 DEF Moves
    <3>5. PollerOk'
      BY <1>0, <2>1, <3>4 DEF PollerOk, Delivering, Dismissing, Retiring
    <3>6. j \in Numbered' /\ (Succeeded(j)' => library.sequence < outbox'[j])
      BY <1>0, <1>1, <2>2, <2>4
    <3>7. DeliveryInv'
      BY <1>2, <2>2, <3>1, <3>3, <3>4, <3>6 DEF DeliveryInv
    <3> QED
      BY <3>4, <3>5, <3>7
  <2> QED
    BY <2>3, <2>4
<1>5. CASE VerifyBundle
  <2>1. /\ UNCHANGED <<library, acked, settling, poll>> /\ pc = "hash"
        /\ Goto(Poller, "load", 0) \/ th' = [th EXCEPT ![Poller].pc = "commit"]
    BY <1>5 DEF VerifyBundle, At
  <2>2. CASE Goto(Poller, "load", 0)
    BY <1>0, <1>a, <1>b, <2>1, <2>2 DEF Retiring, Dismissing
  <2>3. CASE th' = [th EXCEPT ![Poller].pc = "commit"]
    <3> DEFINE p == [th[Poller] EXCEPT !.pc = "commit"]
    <3>1. p \in Places /\ p.pc = "commit" /\ p.job = job /\ p.entry = th[Poller].entry
          /\ p.moved = th[Poller].moved
      BY <1>0 DEF Places, Pcs
    <3>2. th' = [th EXCEPT ![Poller] = p]
      BY <2>3
    <3> HIDE DEF p
    <3>3. Moves(Poller, "commit", job) /\ th'[Poller] = p
      BY <1>0, <3>1, <3>2, PlaceSet
    <3>4. Sane /\ th'[Poller].pc = "commit" /\ th'[Poller].job = job
      BY <1>0, <2>1, <3>3 DEF Moves
    <3>5. PollerOk'
      BY <1>0, <2>1, <3>4 DEF PollerOk, Delivering, Dismissing, Retiring
    <3>6. /\ job \in Numbered /\ (~th[Poller].moved => library = th[Poller].entry)
          /\ (Succeeded(job) => th[Poller].entry.sequence < outbox[job])
      BY <2>1 DEF DeliveryInv
    <3>7. job \in Numbered' /\ (Succeeded(job)' => th[Poller].entry.sequence < outbox'[job])
      BY <1>0, <1>1, <3>4, <3>6 DEF Succeeded
    <3>8. DeliveryInv'
      BY <1>2, <2>1, <3>1, <3>3, <3>4, <3>6, <3>7 DEF DeliveryInv
    <3> QED
      BY <3>4, <3>5, <3>8
  <2> QED
    BY <2>1, <2>2, <2>3
<1>6. CASE CommitEntry
  <2> DEFINE entry == th[Poller].entry
             candidate == Candidate(job, entry)
  <2>1. /\ UNCHANGED <<acked, settling, poll>> /\ pc = "commit"
        /\ \/ ~th[Poller].moved /\ library' = candidate /\ Goto(Poller, "ack", job)
           \/ library = candidate /\ Goto(Poller, "ack", job) /\ UNCHANGED library
           \/ Goto(Poller, "load", 0) /\ UNCHANGED library
    BY <1>6 DEF CommitEntry, At
  <2>2. /\ job \in Numbered /\ (~th[Poller].moved => library = entry) /\ job \in Jobs
        /\ (Succeeded(job) => entry.sequence < outbox[job]) /\ entry \in LibraryRows
    BY <1>0, <2>1 DEF DeliveryInv, Places
  <2>3. /\ candidate \in LibraryRows /\ candidate.sequence \in Nat
        /\ Succeeded(job) => candidate.sequence = outbox[job]
        /\ ~Succeeded(job) => candidate = entry
    BY <2>2, CandidateIs DEF LibraryRows
  <2> HIDE DEF candidate
  <2>4. CASE Goto(Poller, "load", 0) /\ UNCHANGED library
    BY <1>0, <1>a, <1>b, <2>1, <2>4 DEF Retiring, Dismissing
  <2>5. ASSUME library' = candidate, Goto(Poller, "ack", job),
               library.sequence <= candidate.sequence
        PROVE  Good
    <3>1. Moves(Poller, "ack", job)
      BY <1>0, <2>5, Goes DEF Pcs
    <3>2. Sane /\ th'[Poller].pc = "ack" /\ th'[Poller].job = job
      BY <1>0, <2>1, <2>3, <2>5, <3>1 DEF Moves
    <3>3. PollerOk'
      BY <1>0, <2>1, <3>2 DEF PollerOk, Delivering, Dismissing, Retiring
    <3>4. AckedSuccessInLibrary'
      BY <2>1, <2>3, <2>5, AckedStays
    <3>5. job \in Numbered' /\ (Succeeded(job)' => library'.sequence >= outbox'[job])
      BY <1>0, <1>1, <2>2, <2>3, <2>5, <3>2 DEF Succeeded
    <3>6. DeliveryInv'
      BY <3>2, <3>4, <3>5 DEF DeliveryInv
    <3> QED
      BY <3>2, <3>3, <3>6
  <2>6. CASE ~th[Poller].moved /\ library' = candidate /\ Goto(Poller, "ack", job)
    <3>1. library.sequence <= candidate.sequence
      BY <1>0, <1>1, <2>2, <2>3, <2>6
    <3> QED
      BY <2>5, <2>6, <3>1
  <2>7. CASE library = candidate /\ Goto(Poller, "ack", job) /\ UNCHANGED library
    BY <1>0, <2>5, <2>7
  <2> QED
    BY <2>1, <2>4, <2>6, <2>7
<1>7. CASE Acknowledge
  <2>1. /\ acked' = acked \cup {job} /\ Goto(Poller, "load", 0) /\ pc = "ack"
        /\ UNCHANGED <<library, settling, poll, row, outbox>>
    BY <1>7 DEF Acknowledge, At
  <2>2. job \in Numbered /\ (Succeeded(job) => library.sequence >= outbox[job])
    BY <2>1 DEF DeliveryInv
  <2>3. Moves(Poller, "load", 0)
    BY <1>0, <2>1, Goes DEF Pcs
  <2>4. Sane /\ th'[Poller].pc = "load"
    BY <1>0, <2>1, <2>3 DEF Moves
  <2>5. PollerOk'
    BY <1>0, <2>1, <2>4 DEF PollerOk, Delivering, Dismissing, Retiring
  <2>6. AckedSuccessInLibrary'
    BY <2>1, <2>2 DEF DeliveryInv, AckedSuccessInLibrary, Succeeded
  <2>7. DeliveryInv'
    BY <2>4, <2>6 DEF DeliveryInv
  <2> QED
    BY <2>4, <2>5, <2>7
<1>8. CASE DeliveryEnds
  <2>1. /\ Goto(Poller, "retire", 0) /\ UNCHANGED <<library, acked, settling>>
        /\ poll' \subseteq acked
    BY <1>8 DEF DeliveryEnds
  <2> QED
    BY <1>0, <1>a, <1>b, <2>1 DEF Retiring, Dismissing
<1>9. CASE RetireNext
  <2>1. PICK j \in poll :
          /\ (Goto(Poller, "tombstone", j) \/ UNCHANGED th)
          /\ poll' = poll \ {j} /\ UNCHANGED <<library, acked, settling>> /\ pc = "retire"
    BY <1>9 DEF RetireNext, At
  <2>2. poll \subseteq acked
    BY <2>1 DEF ThreadInv, PollerOk, Retiring
  <2>3. CASE Goto(Poller, "tombstone", j)
    BY <1>0, <1>a, <2>1, <2>2, <2>3 DEF Retiring, Dismissing
  <2>4. CASE UNCHANGED th
    <3>1. Sane /\ th'[Poller].pc = "retire"
      BY <1>0, <2>1, <2>4
    <3>2. PollerOk'
      BY <1>0, <2>1, <2>2, <3>1 DEF PollerOk, Retiring, Dismissing, Delivering
    <3>3. DeliveryInv'
      BY <1>2, <2>1, <3>1 DEF DeliveryInv
    <3> QED
      BY <3>1, <3>2, <3>3
  <2> QED
    BY <2>1, <2>3, <2>4
<1>10. CASE PollEnds
  <2>1. /\ th' = [th EXCEPT ![Poller] = Idle] /\ UNCHANGED <<library, acked, settling, poll>>
    BY <1>10 DEF PollEnds, Leave
  <2>2. Moves(Poller, "idle", 0)
    BY <1>0, <1>10, Leaves DEF PollEnds
  <2>3. Sane /\ th'[Poller].pc = "idle"
    BY <1>0, <2>1, <2>2 DEF Moves
  <2>4. PollerOk'
    BY <1>0, <2>1, <2>3 DEF PollerOk, Retiring, Dismissing
  <2>5. DeliveryInv'
    BY <1>2, <2>1, <2>3 DEF DeliveryInv
  <2> QED
    BY <2>3, <2>4, <2>5
<1>11. CASE Thread(Poller)
  <2>1. /\ UNCHANGED <<library, acked, settling, poll>> /\ pc \in Dismissing
        /\ \/ Goto(Poller, "retire_runtime", job) \/ Goto(Poller, "await", job)
           \/ Goto(Poller, "retire", 0)
    BY <1>11 DEF Thread, Tombstone, RetireRuntime, Forget, DismissalEnds, At, Dismissing
  <2>2. job \in acked /\ poll \subseteq acked
    BY <2>1 DEF ThreadInv, PollerOk, Retiring
  <2> QED
    BY <1>0, <1>a, <1>b, <2>1, <2>2 DEF Retiring, Dismissing
<1> QED
  BY <1>3, <1>4, <1>5, <1>6, <1>7, <1>8, <1>9, <1>10, <1>11 DEF PollerStep, Deliver

Rest ==
    \/ \E j \in Jobs : Begin(j) \/ Fetch(j) \/ Publish(j) \/ \E o \in Ended : End(j, o)
    \/ Release \/ Settle

(* The steps by who takes them. *)
LEMMA Takers ==
  ASSUME [Next]_vars
  PROVE  \/ UNCHANGED vars \/ (\E u \in Users : UserStep(u)) \/ PollerStep \/ Rest \/ OtherWrite
         \/ Crash
BY Basics DEF Next, UserStep, PollerStep, Rest

(* What another commit of the library's store does. *)
LEMMA OtherWriteIs ==
  ASSUME TypeInv, OtherWrite
  PROVE  /\ library' \in LibraryRows /\ library'.sequence = library.sequence
         /\ library'.rev = library.rev /\ (library.uploaded => library'.uploaded)
         /\ Moves(Poller, th[Poller].pc, th[Poller].job) /\ th'[Poller].entry = th[Poller].entry
         /\ th[Poller].pc \in {"hash", "commit"} => th'[Poller].moved
         /\ UNCHANGED <<row, outbox, acked, poll, settling, runtime, leftover>>
<1>0. library \in LibraryRows /\ th[Poller] \in Places /\ Poller \in Threads
  BY Basics DEF TypeInv
<1>1. library' = library \/ library' = [library EXCEPT !.uploaded = TRUE]
  BY DEF OtherWrite
<1>2. /\ library' \in LibraryRows /\ library'.sequence = library.sequence
      /\ library'.rev = library.rev /\ (library.uploaded => library'.uploaded)
  BY <1>0, <1>1 DEF LibraryRows
<1> DEFINE b == th[Poller].pc \in {"hash", "commit"}
           p == [th[Poller] EXCEPT !.moved = b]
<1>3. b \in BOOLEAN
  OBVIOUS
<1>4. th' = [th EXCEPT ![Poller] = p]
  BY DEF OtherWrite
<1>5. b <=> th[Poller].pc \in {"hash", "commit"}
  OBVIOUS
<1> HIDE DEF b
<1>6. /\ p \in Places /\ p.pc = th[Poller].pc /\ p.job = th[Poller].job
      /\ p.entry = th[Poller].entry /\ p.moved = b
  BY <1>0, <1>3 DEF Places
<1> HIDE DEF p
<1>7. Moves(Poller, p.pc, p.job) /\ th'[Poller] = p
  BY <1>0, <1>4, <1>6, PlaceSet
<1> QED
  BY <1>2, <1>5, <1>6, <1>7 DEF OtherWrite

(* Every step keeps what is known of the threads and of the delivery. *)
LEMMA ThreadKept ==
  ASSUME LifecycleInv, [Next]_vars
  PROVE  /\ ThreadInv' /\ DeliveryInv' /\ th' \in [Threads -> Places]
         /\ poll' \subseteq Jobs /\ library' \in LibraryRows
<1> USE DEF LifecycleInv
<1>0. /\ RowStep /\ Grows /\ PollerOk /\ \A u \in Users : UserOk(u)
  BY RowSteps, RowGrowth DEF ThreadInv
<1>a. /\ th \in [Threads -> Places] /\ library \in LibraryRows /\ poll \subseteq Jobs
      /\ Poller \in Threads /\ Users \subseteq Threads /\ Poller \notin Users
  BY Basics DEF TypeInv
<1> DEFINE Goal == /\ ThreadInv' /\ DeliveryInv' /\ th' \in [Threads -> Places]
                   /\ poll' \subseteq Jobs /\ library' \in LibraryRows
<1>1. ASSUME UNCHANGED <<th, poll, library, acked>> PROVE Goal
  <2>1. PollerOk' /\ DeliveryInv'
    BY <1>0, <1>1, PollerStays
  <2>2. \A u \in Users : UserOk(u)'
    BY <1>0, <1>1, UserStays
  <2> QED
    BY <1>1, <1>a, <2>1, <2>2 DEF ThreadInv
<1>2. CASE UNCHANGED vars
  BY <1>1, <1>2 DEF vars
<1>3. ASSUME NEW u \in Users, UserStep(u) PROVE Goal
  <2>1. /\ \E pc, j : Moves(u, pc, j)
        /\ UserOk(u)'
        /\ UNCHANGED <<poll, library, acked, settling, published>>
    BY <1>0, <1>3, UserMoves
  <2>2. th' \in [Threads -> Places] /\ \A x \in Threads : x # u => th'[x] = th[x]
    BY <2>1 DEF Moves
  <2>3. PollerOk' /\ DeliveryInv'
    BY <1>0, <1>a, <2>1, <2>2, PollerStays
  <2>4. ASSUME NEW x \in Users PROVE UserOk(x)'
    BY <1>0, <1>a, <2>1, <2>2, UserStays
  <2> QED
    BY <1>a, <2>1, <2>2, <2>3, <2>4 DEF ThreadInv
<1>4. CASE PollerStep
  <2>1. /\ PollerOk' /\ DeliveryInv'
        /\ th' \in [Threads -> Places] /\ \A u \in Users : th'[u] = th[u]
        /\ poll' \subseteq Jobs /\ library' \in LibraryRows
    BY <1>0, <1>4, PollerMoves
  <2>2. \A u \in Users : UserOk(u)'
    BY <1>0, <2>1, UserStays
  <2> QED
    BY <2>1, <2>2 DEF ThreadInv
<1>5. CASE Rest
  <2>1. UNCHANGED <<th, poll, library, acked>>
    BY <1>5 DEF Rest, Begin, Fetch, Publish, End, Release, Settle, SettleDiscard, SettleComplete,
                SettleInstall, durable
  <2> QED
    BY <1>1, <2>1
<1>6. CASE OtherWrite
  <2>0. /\ library' \in LibraryRows /\ library'.sequence = library.sequence
        /\ Moves(Poller, th[Poller].pc, th[Poller].job) /\ th'[Poller].entry = th[Poller].entry
        /\ th[Poller].pc \in {"hash", "commit"} => th'[Poller].moved
        /\ UNCHANGED <<row, outbox, acked, poll>>
    BY <1>6, OtherWriteIs
  <2>1. /\ th' \in [Threads -> Places] /\ th'[Poller].pc = th[Poller].pc /\ th'[Poller].job = th[Poller].job
        /\ \A u \in Users : th'[u] = th[u]
    BY <1>a, <2>0 DEF Moves
  <2>2. \A u \in Users : UserOk(u)'
    BY <1>0, <2>1, UserStays
  <2>3. PollerOk'
    BY <1>0, <2>0, <2>1 DEF PollerOk, Numbered
  <2>4. AckedSuccessInLibrary'
    BY <2>0 DEF DeliveryInv, AckedSuccessInLibrary, Succeeded
  <2>5. DeliveryInv'
    BY <2>0, <2>1, <2>4 DEF DeliveryInv, Numbered, Succeeded
  <2> QED
    BY <1>a, <2>0, <2>1, <2>2, <2>3, <2>5 DEF ThreadInv
<1>7. CASE Crash
  <2>1. /\ th' = [t \in Threads |-> Idle] /\ poll' = {}
        /\ UNCHANGED <<row, outbox, acked, library>>
    BY <1>7 DEF Crash, durable
  <2>2. th' \in [Threads -> Places] /\ \A t \in Threads : th'[t] = Idle /\ Idle.pc = "idle"
    BY <2>1, IdleType
  <2>3. ThreadInv'
    BY <1>a, <2>1, <2>2 DEF ThreadInv, UserOk, PollerOk, UserPcs, Dismissing, Retiring
  <2>4. AckedSuccessInLibrary'
    BY <2>1 DEF DeliveryInv, AckedSuccessInLibrary, Succeeded
  <2>5. DeliveryInv'
    BY <1>a, <2>2, <2>4 DEF DeliveryInv
  <2> QED
    BY <1>a, <2>1, <2>2, <2>3, <2>5
<1> QED
  BY <1>2, <1>3, <1>4, <1>5, <1>6, <1>7, Takers

(* Every step keeps the types. *)
LEMMA TypeKept ==
  ASSUME LifecycleInv, [Next]_vars
  PROVE  TypeInv'
<1> USE DEF LifecycleInv
<1>1. /\ Grows /\ th' \in [Threads -> Places] /\ poll' \subseteq Jobs /\ library' \in LibraryRows
  BY RowSteps, RowGrowth, ThreadKept
<1>2. runtime' \subseteq Jobs
  <2>0. runtime \subseteq Jobs /\ Created \subseteq Jobs
    BY DEF TypeInv, Created
  <2>1. ASSUME NEW j \in Jobs, NEW failed, InstallRuntime(j, failed) PROVE runtime' \subseteq Jobs
    BY <2>0, <2>1 DEF InstallRuntime
  <2>2. ASSUME NEW u \in Users, ResolveExisting(u) \/ Install(u) \/ InstallRepeat(u)
        PROVE  runtime' \subseteq Jobs
    <3>1. th[u].job \in Jobs
      BY <2>0, <2>2 DEF ThreadInv, UserOk, ResolveExisting, Install, InstallRepeat, At
    <3>2. UNCHANGED runtime \/ InstallRuntime(th[u].job, TRUE) \/ InstallRuntime(th[u].job, FALSE)
      BY <2>2 DEF ResolveExisting, Install, InstallRepeat
    <3> QED
      BY <2>0, <2>1, <3>1, <3>2
  <2>3. CASE SettleInstall
    BY <2>1, <2>3 DEF SettleInstall
  <2>4. CASE \/ \E u \in Users : \/ SpawnRetry(u) \/ SpawnRepeat(u)
                                 \/ \E r \in Revisions : Enqueue(u, r)
                                 \/ \E j \in Jobs : Retry(u, j) \/ Dismiss(u, j)
             \/ \E t \in Threads : Thread(t)
             \/ \E j \in Jobs : Begin(j) \/ Fetch(j) \/ Publish(j) \/ \E o \in Ended : End(j, o)
             \/ Release \/ Deliver \/ OtherWrite \/ Crash \/ SettleDiscard \/ SettleComplete
             \/ UNCHANGED vars
    <3>1. runtime' \subseteq runtime
      BY <2>4 DEF SpawnRetry, SpawnRepeat, Enqueue, Retry, Dismiss, Thread, Tombstone, RetireRuntime,
                  Forget, Begin, Fetch, Publish, End, Release, Deliver, PollStarts, ReadEntry,
                  VerifyBundle, CommitEntry, Acknowledge, DeliveryEnds, RetireNext, PollEnds,
                  OtherWrite, Crash, SettleDiscard, SettleComplete, vars
    <3> QED
      BY <2>0, <3>1
  <2> QED
    BY <2>2, <2>3, <2>4 DEF Next, Command, Settle
<1>3. settling' \subseteq Jobs
  <2>1. CASE Crash
    BY <2>1 DEF Crash, Recoverable, Live
  <2>2. CASE SettleInstall
    BY <2>2 DEF SettleInstall, TypeInv
  <2>3. CASE ~Crash /\ ~SettleInstall
    <3>1. UNCHANGED settling
      <4>1. CASE PollerStep \/ \E u \in Users : UserStep(u)
        BY <1>1, <4>1, UserMoves, PollerMoves
      <4>2. CASE Rest
        BY <2>3, <4>2 DEF Rest, Begin, Fetch, Publish, End, Release, Settle, SettleDiscard,
                          SettleComplete, durable
      <4>3. CASE UNCHANGED vars \/ OtherWrite
        BY <4>3 DEF vars, OtherWrite
      <4> QED
        BY <2>3, <4>1, <4>2, <4>3, Takers
    <3> QED
      BY <3>1 DEF TypeInv
  <2> QED
    BY <2>1, <2>2, <2>3
<1> QED
  BY <1>1, <1>2, <1>3 DEF TypeInv, Grows

-----------------------------------------------------------------------------
(* The runtime.                                                            *)

(* A thread stays where it is, or takes a step of its own. *)
LEMMA OwnStep ==
  ASSUME LifecycleInv, [Next]_vars, ~Crash, NEW t \in Threads
  PROVE  \/ th'[t].pc = th[t].pc /\ th'[t].job = th[t].job
         \/ t \in Users /\ UserStep(t)
         \/ t = Poller /\ PollerStep
<1>0. Grows /\ TypeInv /\ (t = Poller \/ t \in Users) /\ Poller \notin Users /\ Users \subseteq Threads
  BY RowSteps, RowGrowth, Basics DEF LifecycleInv
<1>1. ASSUME NEW u \in Users, UserStep(u), u # t PROVE th'[t] = th[t]
  BY <1>0, <1>1, UserMoves DEF Moves
<1>2. ASSUME PollerStep, t # Poller PROVE th'[t] = th[t]
  BY <1>0, <1>2, PollerMoves
<1>3. ASSUME Rest PROVE th' = th
  BY <1>3 DEF Rest, Begin, Fetch, Publish, End, Release, Settle, SettleDiscard, SettleComplete,
              SettleInstall, durable
<1>4. ASSUME OtherWrite PROVE th'[t].pc = th[t].pc /\ th'[t].job = th[t].job
  BY <1>0, <1>4, OtherWriteIs DEF Moves
<1>5. ASSUME UNCHANGED vars PROVE th' = th
  BY <1>5 DEF vars
<1> QED
  BY <1>0, <1>1, <1>2, <1>3, <1>4, <1>5, Takers

(* The step of a thread that is about to install its job, ... *)
LEMMA InstallStep ==
  ASSUME NEW u \in Users, UserStep(u), th[u].pc \in {"install", "install_failed"}
  PROVE  Install(u) \/ InstallRepeat(u)
BY DEF UserStep, Command, Thread, ResolveExisting, SpawnRetry, SpawnRepeat, Tombstone, RetireRuntime,
       Forget, Enqueue, Retry, Dismiss, At

(* ... and of one whose dismissal has written its tombstone. *)
LEMMA DismissalStep ==
  ASSUME NEW t \in Threads, (t \in Users /\ UserStep(t)) \/ (t = Poller /\ PollerStep),
         th[t].pc \in {"retire_runtime", "await"}
  PROVE  /\ th[t].pc = "retire_runtime" => RetireRuntime(t)
         /\ th[t].pc = "await" => Forget(t)
<1>1. CASE t \in Users /\ UserStep(t)
  BY <1>1 DEF UserStep, Command, Thread, ResolveExisting, SpawnRetry, SpawnRepeat, Tombstone,
              RetireRuntime, Forget, Enqueue, Retry, Dismiss, Install, InstallRepeat, At
<1>2. CASE t = Poller /\ PollerStep
  BY <1>2 DEF PollerStep, Deliver, Thread, Tombstone, RetireRuntime, Forget, PollStarts, ReadEntry,
              VerifyBundle, CommitEntry, Acknowledge, DeliveryEnds, RetireNext, PollEnds, At
<1> QED
  BY <1>1, <1>2

(* How the runtime changes: a job is installed from its current row, or one  *)
(* whose outcome was acknowledged is forgotten.                              *)
LEMMA RuntimeSteps ==
  ASSUME LifecycleInv, [Next]_vars, ~Crash
  PROVE  /\ \A j \in runtime \ runtime' : j \in acked
         /\ \A j \in runtime' \ runtime : ~row[j].dismissed /\ UNCHANGED row
         /\ leftover \subseteq leftover'
<1> USE DEF LifecycleInv
<1> DEFINE Goal == /\ \A j \in runtime \ runtime' : j \in acked
                   /\ \A j \in runtime' \ runtime : ~row[j].dismissed /\ UNCHANGED row
                   /\ leftover \subseteq leftover'
<1>1. ASSUME NEW j, NEW failed, InstallRuntime(j, failed), UNCHANGED <<row, leftover>> PROVE Goal
  BY <1>1 DEF InstallRuntime, Installable
<1>2. ASSUME UNCHANGED <<runtime, leftover>> PROVE Goal
  BY <1>2
<1>3. ASSUME NEW u \in Users, ResolveExisting(u) \/ Install(u) \/ InstallRepeat(u) PROVE Goal
  <2>1. /\ UNCHANGED <<row, leftover>>
        /\ UNCHANGED runtime \/ InstallRuntime(th[u].job, TRUE) \/ InstallRuntime(th[u].job, FALSE)
    BY <1>3 DEF ResolveExisting, Install, InstallRepeat, durable
  <2> QED
    BY <1>1, <1>2, <2>1
<1>4. CASE SettleInstall
  <2>1. \E j : InstallRuntime(j, TRUE) /\ UNCHANGED <<row, leftover>>
    BY <1>4 DEF SettleInstall, durable
  <2> QED
    BY <1>1, <2>1
<1>5. ASSUME NEW t \in Threads, Forget(t) PROVE Goal
  <2>1. th[t].job \in acked
    BY <1>5, Basics DEF Forget, At, ThreadInv, UserOk, PollerOk, Dismissing
  <2> QED
    BY <1>5, <2>1 DEF Forget
<1>6. CASE \/ \E u \in Users : \/ SpawnRetry(u) \/ SpawnRepeat(u)
                               \/ \E r \in Revisions : Enqueue(u, r)
                               \/ \E j \in Jobs : Retry(u, j) \/ Dismiss(u, j)
           \/ \E t \in Threads : Tombstone(t) \/ RetireRuntime(t)
           \/ \E j \in Jobs : Begin(j) \/ Fetch(j) \/ Publish(j) \/ \E o \in Ended : End(j, o)
           \/ Release \/ Deliver \/ OtherWrite \/ SettleDiscard \/ SettleComplete
           \/ UNCHANGED vars
  <2>1. UNCHANGED <<runtime, leftover>>
    BY <1>6 DEF SpawnRetry, SpawnRepeat, Enqueue, Retry, Dismiss, Tombstone, RetireRuntime,
                Begin, Fetch, Publish, End, Release, Deliver, PollStarts, ReadEntry,
                VerifyBundle, CommitEntry, Acknowledge, DeliveryEnds, RetireNext, PollEnds,
                OtherWrite, SettleDiscard, SettleComplete, vars
  <2> QED
    BY <1>2, <2>1
<1> QED
  BY <1>3, <1>4, <1>5, <1>6 DEF Next, Command, Settle, Thread

(* An open row was open before, or is new. *)
LEMMA LiveSteps ==
  ASSUME LifecycleInv, [Next]_vars
  PROVE  \/ Live' \subseteq Live
         \/ \E u \in Users, pc \in {"install", "install_failed"} :
              \E j : Live' \subseteq Live \cup {j} /\ Moves(u, pc, j) /\ Up
<1> USE DEF LifecycleInv
<1>0. RowStep
  BY RowSteps
<1>1. CASE UNCHANGED <<row, outbox, acked>>
  BY <1>1 DEF Live
<1>2. ASSUME NEW u \in Users, NEW pc \in {"install", "install_failed"}, NEW j, NEW r, NEW p,
             NewRow(j, r, p), Moves(u, pc, j)
      PROVE  Live' \subseteq Live \cup {j} /\ Up
  <2>1. Live' \subseteq Live \cup {j}
    BY <1>2 DEF NewRow, Live, TypeInv
  <2>2. th' # th
    <3>1. j \notin Created /\ pc # "idle"
      BY <1>2 DEF NewRow
    <3>2. UserOk(u)
      BY DEF ThreadInv
    <3> QED
      BY <1>2, <3>1, <3>2 DEF Moves, UserOk
  <2>3. row' # row
    BY <1>2 DEF NewRow, Created, TypeInv
  <2>4. Up
    <3>1. ~Rest /\ ~UNCHANGED vars /\ ~Crash
      BY <2>2, <2>3 DEF Rest, Begin, Fetch, Publish, End, Release, Settle, SettleDiscard, SettleComplete,
                  SettleInstall, durable, vars, Crash
    <3>2. (\E x \in Users : UserStep(x)) \/ PollerStep \/ OtherWrite
      BY <3>1, Takers
    <3> QED
      BY <3>2 DEF UserStep, Command, ResolveExisting, SpawnRetry, SpawnRepeat, Install, InstallRepeat,
                  Thread, Tombstone, RetireRuntime, Forget, Enqueue, Retry, Dismiss, PollerStep, Deliver,
                  PollStarts, ReadEntry, VerifyBundle, CommitEntry, Acknowledge, DeliveryEnds, RetireNext,
                  PollEnds, OtherWrite, At
  <2> QED
    BY <2>1, <2>4
<1>3. ASSUME NEW j \in Live, NEW o \in Ended, Recorded(j, o) PROVE Live' \subseteq Live
  <2> DEFINE x == [row[j] EXCEPT !.state = o]
  <2>1. row' = [row EXCEPT ![j] = x]
    BY <1>3 DEF Recorded
  <2> HIDE DEF x
  <2> QED
    BY <2>1 DEF Live, TypeInv
<1>4. ASSUME NEW j \in acked, Tombstoned(j) PROVE Live' \subseteq Live
  <2> DEFINE x == [row[j] EXCEPT !.dismissed = TRUE]
  <2>1. j \in Jobs /\ x.state = row[j].state
    BY RowTypes DEF TypeInv
  <2>2. row' = [row EXCEPT ![j] = x]
    BY <1>4 DEF Tombstoned
  <2> HIDE DEF x
  <2> QED
    BY <2>1, <2>2 DEF Live, TypeInv
<1>5. ASSUME NEW j \in Numbered, Confirmed(j) PROVE Live' \subseteq Live
  BY <1>5 DEF Confirmed, Live
<1> QED
  BY <1>0, <1>1, <1>2, <1>3, <1>4, <1>5 DEF RowStep

(* What settles while the process starts, and what can happen then. *)
LEMMA SettlingSteps ==
  ASSUME LifecycleInv, [Next]_vars
  PROVE  /\ Up /\ ~Crash => Up'
         /\ Crash => settling' = Live'
         /\ ~Up /\ ~Crash => Live' \subseteq Live /\ \A j \in settling \ settling' : j \notin Live
<1> USE DEF LifecycleInv
<1>0. Grows
  BY RowSteps, RowGrowth
<1>1. CASE Crash
  BY <1>1 DEF Crash, Recoverable, Live, durable
<1>2. CASE SettleInstall /\ ~Crash
  <2>1. PICK j \in Jobs \ Live : ToSettle(j) /\ settling' = settling \ {j} /\ UNCHANGED row
    BY <1>2 DEF SettleInstall, durable
  <2> QED
    BY <1>2, <2>1 DEF ToSettle, Up, Live
<1>3. CASE ~Crash /\ ~SettleInstall
  <2>1. UNCHANGED settling
    <3>1. CASE PollerStep \/ \E u \in Users : UserStep(u)
      BY <1>0, <3>1, UserMoves, PollerMoves
    <3>2. CASE Rest
      BY <1>3, <3>2 DEF Rest, Begin, Fetch, Publish, End, Release, Settle, SettleDiscard,
                        SettleComplete, durable
    <3>3. CASE UNCHANGED vars \/ OtherWrite
      BY <3>3 DEF vars, OtherWrite
    <3> QED
      BY <1>3, <3>1, <3>2, <3>3, Takers
  <2>2. ~Up => Live' \subseteq Live
    BY LiveSteps
  <2> QED
    BY <1>3, <2>1, <2>2 DEF Up
<1> QED
  BY <1>1, <1>2, <1>3

(* Every step leaves every open row run, about to be installed or to settle. *)
LEMMA OpenKept ==
  ASSUME LifecycleInv, [Next]_vars
  PROVE  OpenInv'
<1> USE DEF LifecycleInv
<1>1. CASE Crash
  <2>1. settling' = Live'
    BY <1>1, SettlingSteps
  <2> QED
    BY <2>1 DEF OpenInv, LiveHasRuntime, Up
<1>2. CASE ~Up /\ ~Crash
  <2>1. Live' \subseteq Live /\ \A j \in settling \ settling' : j \notin Live
    BY <1>2, SettlingSteps
  <2>2. Live' \subseteq settling'
    BY <1>2, <2>1 DEF OpenInv
  <2> QED
    BY <2>2 DEF OpenInv, LiveHasRuntime, Up
<1>3. CASE Up /\ ~Crash
  <2>1. Up'
    BY <1>3, SettlingSteps
  <2> DEFINE Owned(j) == \/ j \in runtime'
                         \/ \E u \in Users : th'[u].job = j /\ th'[u].pc \in {"install", "install_failed"}
  <2>2. ASSUME NEW j \in Live PROVE Owned(j) \/ j \notin Live'
    <3>0. j \in Jobs /\ j \notin acked
      BY DEF Live, RowInv, Numbered, Ended, Failures
    <3>1. CASE j \in runtime
      BY <1>3, <3>0, <3>1, RuntimeSteps
    <3>2. ASSUME NEW u \in Users, th[u].job = j, th[u].pc \in {"install", "install_failed"}
          PROVE  Owned(j)
      <4>0. u \in Threads /\ u # Poller
        BY Basics
      <4>1. CASE th'[u].pc = th[u].pc /\ th'[u].job = th[u].job
        BY <3>2, <4>1
      <4>2. CASE UserStep(u)
        <5>1. Install(u) \/ InstallRepeat(u)
          BY <3>2, <4>2, InstallStep
        <5>2. InstallRuntime(j, FALSE)
          BY <3>2, <5>1 DEF Install, InstallRepeat
        <5>3. ~row[j].dismissed /\ row[j].state = "live"
          BY <3>0 DEF RowInv, Live, Ended, Failures
        <5> QED
          BY <5>2, <5>3 DEF InstallRuntime, Installable
      <4> QED
        BY <1>3, <4>0, <4>1, <4>2, OwnStep
    <3> QED
      BY <1>3, <3>1, <3>2 DEF OpenInv, LiveHasRuntime
  <2>3. \A j \in Live' : Owned(j)
    <3>1. CASE Live' \subseteq Live
      BY <2>2, <3>1
    <3>2. ASSUME NEW u \in Users, NEW pc \in {"install", "install_failed"}, NEW j,
                 Live' \subseteq Live \cup {j}, Moves(u, pc, j)
          PROVE  \A i \in Live' : Owned(i)
      <4>1. Owned(j)
        BY <3>2 DEF Moves
      <4> QED
        BY <2>2, <3>2, <4>1
    <3> QED
      BY <3>1, <3>2, LiveSteps
  <2> QED
    BY <2>1, <2>3 DEF OpenInv, LiveHasRuntime
<1> QED
  BY <1>1, <1>2, <1>3

(* Every step keeps dismissed jobs away from the runtime. *)
LEMMA AwayKept ==
  ASSUME LifecycleInv, [Next]_vars
  PROVE  DismissedStaysAway'
<1> USE DEF LifecycleInv
<1>1. CASE Crash
  BY <1>1 DEF Crash, DismissedStaysAway
<1>2. CASE ~Crash
  <2> SUFFICES ASSUME NEW j \in runtime', row'[j].dismissed
               PROVE  \/ j \in leftover'
                      \/ \E t \in Threads : th'[t].job = j /\ th'[t].pc \in {"retire_runtime", "await"}
    BY DEF DismissedStaysAway
  <2>0. j \in runtime /\ leftover \subseteq leftover'
    BY <1>2, RuntimeSteps
  <2>1. CASE row[j].dismissed
    <3>1. ASSUME NEW t \in Threads, th[t].job = j, th[t].pc \in {"retire_runtime", "await"}
          PROVE  j \in leftover' \/ (th'[t].job = j /\ th'[t].pc \in {"retire_runtime", "await"})
      <4>1. j \in acked /\ row[j].state \in Ended
        BY <3>1, Basics DEF ThreadInv, UserOk, PollerOk, Dismissing, RowInv, Numbered
      <4>2. CASE th'[t].pc = th[t].pc /\ th'[t].job = th[t].job
        BY <3>1, <4>2
      <4>3. CASE RetireRuntime(t)
        <5>1. Goto(t, "await", j)
          BY <2>0, <3>1, <4>1, <4>3 DEF RetireRuntime, Dismissible
        <5>2. Moves(t, "await", j)
          BY <2>0, <5>1, Goes, Basics DEF Pcs, TypeInv
        <5> QED
          BY <5>2 DEF Moves
      <4>4. CASE Forget(t)
        BY <3>1, <4>4 DEF Forget
      <4> QED
        BY <1>2, <3>1, <4>2, <4>3, <4>4, OwnStep, DismissalStep
    <3> QED
      BY <2>0, <2>1, <3>1 DEF DismissedStaysAway
  <2>2. CASE ~row[j].dismissed
    <3>0. j \in Jobs /\ row'[j] # row[j]
      BY <2>0, <2>2 DEF TypeInv
    <3>1. CASE \E t \in Threads : Tombstone(t)
      <4>1. PICK t \in Threads : Tombstone(t)
        BY <3>1
      <4>2. th[t].job = j
        BY <2>2, <3>0, <4>1 DEF Tombstone, TypeInv
      <4>3. Moves(t, "retire_runtime", j)
        BY <3>0, <4>1, <4>2, Goes, Basics DEF Tombstone, Pcs
      <4> QED
        BY <4>3 DEF Moves
    <3>2. CASE RetireNext
      BY <2>0, <2>2, <3>0, <3>2 DEF RetireNext, TypeInv
    <3>3. ASSUME NEW i, NEW r, NEW p, NewRow(i, r, p) PROVE FALSE
      BY <2>2, <3>0, <3>3 DEF NewRow, TypeInv
    <3>4. ASSUME NEW i \in Live, NEW o \in Ended, Recorded(i, o) PROVE FALSE
      <4> DEFINE x == [row[i] EXCEPT !.state = o]
      <4>1. i \in Jobs /\ x.dismissed = row[i].dismissed
        BY RowTypes DEF Live
      <4>2. row' = [row EXCEPT ![i] = x]
        BY <3>4 DEF Recorded
      <4> HIDE DEF x
      <4> QED
        BY <2>2, <3>0, <4>1, <4>2 DEF TypeInv
    <3>5. RetireNext \/ \E t \in Threads : Tombstone(t)
      <4>1. RowStep
        BY RowSteps
      <4> QED
        BY <3>0, <3>3, <3>4, <4>1 DEF RowStep, Confirmed
    <3> QED
      BY <3>1, <3>2, <3>5
  <2> QED
    BY <2>1, <2>2
<1> QED
  BY <1>1, <1>2

-----------------------------------------------------------------------------
(* The theorems.                                                           *)

(* The invariant holds at the start. *)
LEMMA LifecycleInit == Init => LifecycleInv
<1> SUFFICES ASSUME Init PROVE LifecycleInv
  OBVIOUS
<1>1. /\ \A j \in Jobs : row[j] = Absent /\ outbox[j] = 0
      /\ \A t \in Threads : th[t] = Idle
      /\ acked = {} /\ poll = {} /\ settling = {} /\ runtime = {} /\ library = NoEntry
  BY DEF Init
<1>2. Absent \in Records /\ Absent.state = "absent" /\ ~Absent.dismissed /\ NoEntry \in LibraryRows
  BY DEF Absent, Records, NoEntry, LibraryRows
<1>3. Idle \in Places /\ Idle.pc = "idle"
  BY IdleType
<1>4. Created = {} /\ Live = {} /\ Numbered = {}
  BY <1>1, <1>2 DEF Created, Live, Numbered
<1>5. TypeInv
  BY <1>2, <1>3 DEF Init, TypeInv
<1>6. RowInv
  <2>1. Cardinality(Numbered) = 0
    BY <1>4, FS_EmptySet
  <2> QED
    BY <1>1, <1>2, <1>4, <2>1 DEF RowInv, Ended, Failures
<1>7. ThreadInv
  BY <1>1, <1>3, Basics DEF ThreadInv, UserOk, PollerOk, UserPcs, Dismissing, Retiring
<1>8. DeliveryInv
  BY <1>1, <1>3, Basics DEF DeliveryInv, AckedSuccessInLibrary
<1> QED
  BY <1>1, <1>4, <1>5, <1>6, <1>7, <1>8
     DEF LifecycleInv, OpenInv, LiveHasRuntime, Up, DismissedStaysAway, ChildInv

(* Every step keeps the invariant. *)
LEMMA LifecycleStep == LifecycleInv /\ [Next]_vars => LifecycleInv'
<1> SUFFICES ASSUME LifecycleInv, [Next]_vars PROVE LifecycleInv'
  OBVIOUS
<1>1. RowStep
  BY RowSteps
<1>2. RowInv' /\ ChildInv'
  BY <1>1, RowKept, ChildKept DEF LifecycleInv
<1>3. TypeInv' /\ ThreadInv' /\ DeliveryInv' /\ OpenInv' /\ DismissedStaysAway'
  BY TypeKept, ThreadKept, OpenKept, AwayKept
<1> QED
  BY <1>2, <1>3 DEF LifecycleInv

(* Rows, threads, the delivery under way and the runtime agree in every      *)
(* reachable state (transfer_store.rs, recovery.rs, composition.rs).         *)
THEOREM LifecycleInvariant == Spec => []LifecycleInv
<1> QED
  BY LifecycleInit, LifecycleStep, PTL DEF Spec

(* An acknowledged success is in the library, through every crash, deferral  *)
(* and conflicting write (deliver_terminal_outcomes).                        *)
THEOREM AckedSuccessShown == Spec => []AckedSuccessInLibrary
<1>1. LifecycleInv => AckedSuccessInLibrary
  BY DEF LifecycleInv, DeliveryInv
<1> QED
  BY <1>1, LifecycleInvariant, PTL

(* No crash, insertion or dismissal leaves an open row nobody will run       *)
(* (fail_interrupted_jobs_on_startup, install_runtime_from_current_locked).  *)
THEOREM NoRowStranded == Spec => []LiveHasRuntime
<1>1. LifecycleInv => LiveHasRuntime
  BY DEF LifecycleInv, OpenInv
<1> QED
  BY <1>1, LifecycleInvariant, PTL

(* A dismissed job does not come back to the queue, whoever saw it before    *)
(* its dismissal (install_runtime_from_current_locked).                      *)
THEOREM DismissedStay == Spec => []DismissedStaysAway
<1>1. LifecycleInv => DismissedStaysAway
  BY DEF LifecycleInv
<1> QED
  BY <1>1, LifecycleInvariant, PTL

(* Retries of one failure share their child (spawn_retry_job_inner). *)
THEOREM RetriesShareChild == Spec => []OneLiveChild
<1>1. ASSUME LifecycleInv PROVE OneLiveChild
  <2> SUFFICES ASSUME NEW p \in Created PROVE Cardinality(Children(p) \cap Live) <= 1
    BY DEF OneLiveChild
  <2>1. \A i, j \in Children(p) \cap Live : i = j
    <3> SUFFICES ASSUME NEW i \in Children(p) \cap Live, NEW j \in Children(p) \cap Live PROVE i = j
      OBVIOUS
    <3>1. /\ p # 0 /\ i \in Created /\ j \in Created /\ i \in Jobs /\ j \in Jobs
          /\ row[i].parent = p /\ row[j].parent = p
      BY Basics DEF Created, Children
    <3>2. i <= j /\ j <= i
      BY <1>1, <3>1 DEF LifecycleInv, ChildInv
    <3> QED
      BY <3>1, <3>2, Basics
  <2>2. CASE Children(p) \cap Live = {}
    BY <2>2, FS_EmptySet
  <2>3. CASE Children(p) \cap Live # {}
    <3>1. \E x : Children(p) \cap Live = {x}
      BY <2>1, <2>3
    <3> QED
      BY <3>1, FS_Singleton
  <2> QED
    BY <2>2, <2>3
<1> QED
  BY <1>1, LifecycleInvariant, PTL

(* A projection never overwrites what an upload wrote to the row meanwhile   *)
(* (apply_download_completion).                                              *)
THEOREM UploadsSurvive == Spec => UploadSurvivesProjection
<1> DEFINE A == library.uploaded /\ library'.rev = library.rev => library'.uploaded
<1>1. ASSUME LifecycleInv, [Next]_vars PROVE A
  <2>1. CASE UNCHANGED library
    BY <2>1
  <2>2. CASE OtherWrite
    BY <1>1, <2>2, OtherWriteIs DEF LifecycleInv
  <2>3. CASE CommitEntry /\ ~UNCHANGED library
    <3> DEFINE job == th[Poller].job
               entry == th[Poller].entry
    <3>1. library' = Candidate(job, entry) /\ ~th[Poller].moved /\ th[Poller].pc = "commit"
      BY <2>3 DEF CommitEntry, At
    <3>2. library = entry /\ job \in Jobs /\ entry \in LibraryRows
      BY <1>1, <3>1, Basics DEF LifecycleInv, DeliveryInv, TypeInv, Places, Numbered
    <3>3. CASE Succeeded(job)
      <4>1. /\ Candidate(job, entry).rev = row[job].rev
            /\ entry.uploaded /\ entry.rev = row[job].rev => Candidate(job, entry).uploaded
        BY <1>1, <3>2, <3>3, CandidateIs DEF LifecycleInv
      <4> QED
        BY <3>1, <3>2, <4>1
    <3>4. CASE ~Succeeded(job)
      BY <3>1, <3>2, <3>4 DEF Candidate
    <3> QED
      BY <3>3, <3>4
  <2>4. UNCHANGED library \/ OtherWrite \/ CommitEntry
    <3>1. CASE \E u \in Users : UserStep(u)
      BY <3>1 DEF UserStep, Command, ResolveExisting, SpawnRetry, SpawnRepeat, Install, InstallRepeat,
                  Thread, Tombstone, RetireRuntime, Forget, Enqueue, Retry, Dismiss, durable
    <3>2. CASE PollerStep
      BY <3>2 DEF PollerStep, Deliver, PollStarts, ReadEntry, VerifyBundle, Acknowledge, DeliveryEnds,
                  RetireNext, PollEnds, Thread, Tombstone, RetireRuntime, Forget, durable
    <3>3. CASE Rest
      BY <3>3 DEF Rest, Begin, Fetch, Publish, End, Release, Settle, SettleDiscard, SettleComplete,
                  SettleInstall, durable
    <3>4. CASE Crash \/ UNCHANGED vars
      BY <3>4 DEF Crash, durable, vars
    <3> QED
      BY <1>1, <3>1, <3>2, <3>3, <3>4, Takers
  <2> QED
    BY <2>1, <2>2, <2>3, <2>4
<1>2. LifecycleInv /\ [Next]_vars => [A]_vars
  BY <1>1
<1> QED
  BY <1>2, LifecycleInvariant, PTL DEF Spec, UploadSurvivesProjection

(* Staged bytes are discarded for a fresh attempt only when no attempt at    *)
(* their revision is open (spawn_retry_job_inner).                           *)
THEOREM OpenStagingKept == Spec => StagingOfLiveAttemptKept
<1> DEFINE A == \A r \in staged \ staged' : Up => \A j \in Live : row[j].rev # r
<1>1. ASSUME LifecycleInv, [Next]_vars PROVE A
  <2>1. CASE staged \subseteq staged'
    BY <2>1
  <2>2. ASSUME NEW u \in Users, SpawnRetry(u) \/ SpawnRepeat(u) PROVE A
    <3>0. u \in Threads /\ th[u].fresh \in BOOLEAN /\ {"install", "install_failed"} \subseteq Pcs
      BY <1>1, Basics DEF LifecycleInv, TypeInv, Places, Pcs
    <3>1. UNCHANGED <<outbox, acked>>
      BY <2>2 DEF SpawnRetry, SpawnRepeat
    <3>2. ASSUME NEW fresh \in BOOLEAN, NEW repeat \in BOOLEAN, NEW next \in Pcs,
                 SpawnChild(u, fresh, repeat, next)
          PROVE  A
      <4>1. \/ UNCHANGED staged
            \/ /\ fresh => \A i \in Live : row[i].rev # row[th[u].job].rev
               /\ staged' = IF fresh THEN staged \ {row[th[u].job].rev} ELSE staged
        BY <1>1, <3>0, <3>1, <3>2, SpawnIs DEF LifecycleInv
      <4> QED
        BY <4>1
    <3>3. \/ UNCHANGED staged
          \/ SpawnChild(u, th[u].fresh, FALSE, "install")
          \/ SpawnChild(u, TRUE, TRUE, "install_failed")
      BY <2>2 DEF SpawnRetry, SpawnRepeat
    <3> QED
      BY <3>0, <3>2, <3>3
  <2>3. CASE SettleDiscard
    BY <2>3 DEF SettleDiscard, ToSettle, Up
  <2>4. CASE \/ \E u \in Users : \/ ResolveExisting(u) \/ Install(u) \/ InstallRepeat(u)
                                 \/ \E r \in Revisions : Enqueue(u, r)
                                 \/ \E j \in Jobs : Retry(u, j) \/ Dismiss(u, j)
             \/ \E t \in Threads : Thread(t)
             \/ \E j \in Jobs : Begin(j) \/ Fetch(j) \/ Publish(j) \/ \E o \in Ended : End(j, o)
             \/ Release \/ Deliver \/ OtherWrite \/ Crash \/ SettleComplete \/ SettleInstall
             \/ UNCHANGED vars
    <3>1. staged \subseteq staged'
      BY <2>4 DEF ResolveExisting, Install, InstallRepeat, Enqueue, Retry, Dismiss, Thread, Tombstone,
                  RetireRuntime, Forget, Begin, Fetch, Publish, End, Release, Deliver, PollStarts,
                  ReadEntry, VerifyBundle, CommitEntry, Acknowledge, DeliveryEnds, RetireNext, PollEnds,
                  OtherWrite, Crash, SettleComplete, SettleInstall, vars, durable
    <3> QED
      BY <2>1, <3>1
  <2> QED
    BY <1>1, <2>2, <2>3, <2>4 DEF Next, Command, Settle
<1>2. LifecycleInv /\ [Next]_vars => [A]_vars
  BY <1>1
<1> QED
  BY <1>2, LifecycleInvariant, PTL DEF Spec, StagingOfLiveAttemptKept

-----------------------------------------------------------------------------
(* The refinement.                                                         *)

OutcomeOf == [j \in Jobs |-> IF row[j].state \in Ended THEN row[j].state ELSE "none"]

(* The library's number changes only when a success that is newer is shown. *)
LEMMA LibraryStep ==
  ASSUME LifecycleInv, [Next]_vars, library'.sequence # library.sequence
  PROVE  /\ th[Poller].job \in Numbered /\ Succeeded(th[Poller].job)
         /\ outbox[th[Poller].job] > library.sequence
         /\ library'.sequence = outbox[th[Poller].job]
         /\ UNCHANGED <<row, outbox, acked>>
<1> USE DEF LifecycleInv
<1>1. CommitEntry
  <2>1. CASE OtherWrite
    BY <2>1, OtherWriteIs
  <2>2. CASE \E u \in Users : UserStep(u)
    BY <2>2 DEF UserStep, Command, ResolveExisting, SpawnRetry, SpawnRepeat, Install, InstallRepeat,
                Thread, Tombstone, RetireRuntime, Forget, Enqueue, Retry, Dismiss, durable
  <2>3. CASE PollerStep /\ ~CommitEntry
    BY <2>3 DEF PollerStep, Deliver, PollStarts, ReadEntry, VerifyBundle, Acknowledge, DeliveryEnds,
                RetireNext, PollEnds, Thread, Tombstone, RetireRuntime, Forget, durable
  <2>4. CASE Rest
    BY <2>4 DEF Rest, Begin, Fetch, Publish, End, Release, Settle, SettleDiscard, SettleComplete,
                SettleInstall, durable
  <2>5. CASE Crash \/ UNCHANGED vars
    BY <2>5 DEF Crash, durable, vars
  <2> QED
    BY <2>1, <2>2, <2>3, <2>4, <2>5, Takers
<1> DEFINE job == th[Poller].job
           entry == th[Poller].entry
<1>2. library' = Candidate(job, entry) /\ ~th[Poller].moved /\ th[Poller].pc = "commit"
      /\ UNCHANGED <<row, outbox, acked>>
  BY <1>1 DEF CommitEntry, At
<1>3. /\ library = entry /\ job \in Numbered /\ job \in Jobs /\ entry \in LibraryRows
      /\ Succeeded(job) => entry.sequence < outbox[job]
  BY <1>2, Basics DEF DeliveryInv, TypeInv, Places, Numbered
<1>4. Succeeded(job)
  BY <1>2, <1>3 DEF Candidate
<1>5. Candidate(job, entry).sequence = outbox[job]
  BY <1>3, <1>4, CandidateIs
<1>6. entry.sequence \in Nat /\ outbox[job] \in Nat
  BY <1>3 DEF TypeInv, LibraryRows
<1> QED
  BY <1>2, <1>3, <1>4, <1>5, <1>6

(* Threads, crashes, retries and settlement only ever record an outcome      *)
(* under the next number, show a newer success, or deliver what is shown:    *)
(* JobLifecycle implements OutcomeDelivery (complete_job,                    *)
(* apply_download_completion, deliver_terminal_outcomes).                    *)
THEOREM PromiseKept == Spec => KeepsPromise
<1> USE DEF OutcomeOf
<1>1. Init => Promise!Init
  BY DEF Init, Promise!Init, Absent, NoEntry, Ended, Failures
<1>2. ASSUME LifecycleInv, [Next]_vars PROVE [Promise!Next]_(Promise!avars)
  <2> DEFINE n == library.sequence
  <2> TypeInv /\ RowInv
    BY <1>2 DEF LifecycleInv
  <2>0. /\ OutcomeOf \in [Jobs -> Ended \cup {"none"}] /\ RowStep /\ "none" \notin Ended
        /\ \A j \in Jobs : OutcomeOf[j] = "none" <=> row[j].state \notin Ended
        /\ \A j \in Jobs : OutcomeOf[j] = "succeeded" <=> Succeeded(j)
    BY <1>2, RowSteps DEF Succeeded, Ended, Failures
  <2>1. CASE library'.sequence # library.sequence
    <3>1. PICK j \in Jobs : /\ Succeeded(j) /\ outbox[j] > n /\ library'.sequence = outbox[j]
                            /\ UNCHANGED <<row, outbox, acked>>
      BY <1>2, <2>1, LibraryStep DEF Numbered
    <3>2. Promise!Project(j)
      BY <2>0, <3>1 DEF Promise!Project
    <3> QED
      BY <3>2 DEF Promise!Next
  <2>2. ASSUME UNCHANGED <<OutcomeOf, outbox, acked>>, library'.sequence = library.sequence
        PROVE  UNCHANGED Promise!avars
    BY <2>2 DEF Promise!avars
  <2>3. CASE library'.sequence = library.sequence
    <3>1. CASE UNCHANGED <<row, outbox, acked>>
      BY <2>2, <2>3, <3>1
    <3>2. ASSUME NEW j, NEW r, NEW p, NewRow(j, r, p) PROVE UNCHANGED Promise!avars
      <4>1. \A i \in Jobs : row'[i].state \in Ended <=> row[i].state \in Ended
        BY <3>2 DEF NewRow, Created, TypeInv, Ended, Failures
      <4>2. \A i \in Jobs : row[i].state \in Ended => row'[i].state = row[i].state
        BY <3>2 DEF NewRow, Created, TypeInv, Ended, Failures
      <4>3. UNCHANGED OutcomeOf
        BY <4>1, <4>2
      <4> QED
        BY <2>2, <2>3, <3>2, <4>3 DEF NewRow
    <3>3. ASSUME NEW j \in Live, NEW o \in Ended, Recorded(j, o) PROVE Promise!Record(j, o)
      <4> DEFINE x == [row[j] EXCEPT !.state = o]
      <4>1. j \in Jobs /\ x.state = o /\ row[j].state \notin Ended
        BY RowTypes DEF Live, Ended, Failures
      <4>2. row' = [row EXCEPT ![j] = x] /\ UNCHANGED acked
            /\ outbox' = [outbox EXCEPT ![j] = Cardinality(Numbered) + 1]
        BY <3>3 DEF Recorded
      <4> HIDE DEF x
      <4>3. \A i \in Jobs : row'[i].state = IF i = j THEN o ELSE row[i].state
        BY <4>1, <4>2 DEF TypeInv
      <4>4. OutcomeOf' = [OutcomeOf EXCEPT ![j] = o]
        BY <4>1, <4>3
      <4>5. OutcomeOf[j] = "none"
        BY <2>0, <4>1
      <4>6. outbox' = [outbox EXCEPT ![j] = Promise!Cardinality({b \in Jobs : outbox[b] # 0}) + 1]
        <5>1. \A S : Promise!Cardinality(S) = Cardinality(S)
          BY Zenon DEF Promise!Cardinality, Cardinality
        <5> QED
          BY <4>2, <5>1 DEF Numbered
      <4> QED
        BY <2>3, <4>2, <4>4, <4>5, <4>6 DEF Promise!Record
    <3>4. ASSUME NEW j \in acked, Tombstoned(j) PROVE UNCHANGED Promise!avars
      <4> DEFINE x == [row[j] EXCEPT !.dismissed = TRUE]
      <4>1. j \in Jobs /\ x.state = row[j].state
        BY RowTypes DEF TypeInv
      <4>2. row' = [row EXCEPT ![j] = x] /\ UNCHANGED <<outbox, acked>>
        BY <3>4 DEF Tombstoned
      <4> HIDE DEF x
      <4>3. \A i \in Jobs : row'[i].state = row[i].state
        BY <4>1, <4>2 DEF TypeInv
      <4>4. UNCHANGED OutcomeOf
        BY <4>3
      <4> QED
        BY <2>2, <2>3, <4>2, <4>4
    <3>5. ASSUME NEW j \in Numbered, Confirmed(j), ~UNCHANGED <<row, outbox, acked>>
          PROVE  Promise!Deliver(j)
      <4>1. j \in Jobs /\ j \notin acked /\ acked' = acked \cup {j} /\ UNCHANGED <<row, outbox>>
            /\ row[j].state \in Ended
        BY <3>5 DEF Confirmed, Numbered, RowInv
      <4>2. DeliveryInv'
        BY <1>2, ThreadKept
      <4>3. Succeeded(j) => library.sequence >= outbox[j]
        BY <2>3, <4>1, <4>2 DEF DeliveryInv, AckedSuccessInLibrary, Succeeded
      <4> QED
        BY <2>0, <2>3, <4>1, <4>3 DEF Promise!Deliver
    <3> QED
      BY <2>0, <2>2, <2>3, <3>1, <3>2, <3>3, <3>4, <3>5 DEF RowStep, Promise!Next, Numbered, Live
  <2> QED
    BY <2>1, <2>3
<1>3. LifecycleInv /\ [Next]_vars => [Promise!Next]_(Promise!avars)
  BY <1>2
<1> QED
  BY <1>1, <1>3, LifecycleInvariant, PTL DEF Spec, KeepsPromise, Promise!Spec
=============================================================================
