------------------------ MODULE LibraryDelete_proofs ------------------------
(* Deleting sessions, for any library, any number of threads, operations,    *)
(* downloads, failures and crashes: no library row outlives its files, the   *)
(* files of an open upload stay where they are, and what was committed is    *)
(* brought back by nobody but a scan that races the commit.                  *)
(*                                                                           *)
(* The argument has four layers. OwnInv: operations and claimed keys belong  *)
(* to one thread each, and the trash of a new operation is empty. RowInv:    *)
(* the entries of an operation have rows until it commits, so that every     *)
(* commit moves the revision; from the commit to the end of the operation    *)
(* the process's copy is behind and nobody else writes rows. StageInv: each  *)
(* entry is moved once, under the lease of its operation. FileInv: rows, and *)
(* projections that may still write one, have files. Two more parts follow   *)
(* for committed deletions: PlaceInv, every bundle is in one place, and      *)
(* CommitInv, the thread of a committed operation is past its commit.        *)
EXTENDS LibraryDelete, FiniteSetTheorems, TLAPS

DelRecord ==
    [pc : Steps, op : Ops \cup {0}, keys : SUBSET Entries, todo : Seq(Entries), expected : Nat,
     known : SUBSET (Ops \X Entries), blocked : BOOLEAN, recorded : BOOLEAN]

BudgetType ==
    [deleters : SUBSET Deleters, deletes : 0 .. MaxDeletes, bundles : 0 .. MaxBundles,
     uploads : Nat, faults : Nat, crashes : Nat]

(* The types: those of TypeOK, and of the parts it leaves out. *)
TypeInv ==
    /\ dir \in [Entries -> Bundles] /\ row \in [Entries -> Bundles]
    /\ trash \in [Ops -> [Entries -> Bundles]] /\ marker \in [Ops -> SUBSET Entries]
    /\ revision \in Nat /\ memory \in [rev : Nat, rows : SUBSET Entries]
    /\ intent \in [Ops -> [Entries -> {"none", "staged", "committed"}]]
    /\ lease \in [Entries -> {Free, UploadLease} \cup {DeleteLease(o) : o \in Ops}]
    /\ claimed \subseteq Entries /\ uploading \subseteq Entries /\ reaper \subseteq Entries
    /\ del \in [Deleters -> DelRecord]
    /\ proj = NoProjection \/ proj \in [entry : Entries, bundle : 1 .. MaxBundles, expected : Nat]
    /\ budget \in BudgetType

Begun == {"busy", "lease", "stage", "scan", "orphans", "record", "commit", "rollback"}
Over == {"cleanup", "finish"}

OwnInv ==
    /\ \A d \in Deleters : del[d].pc # "idle" =>
        del[d].op \in Ops /\ del[d].op < NewOp /\ del[d].keys # {} /\ del[d].keys \subseteq claimed
    /\ \A c, d \in Deleters : c # d /\ del[c].pc # "idle" /\ del[d].pc # "idle" =>
        del[c].op # del[d].op /\ del[c].keys \cap del[d].keys = {}
    /\ \A o \in Ops, e \in Entries : o >= NewOp => trash[o][e] = 0

RowInv ==
    /\ memory.rev <= revision
    /\ \A d \in Deleters : del[d].pc \in Begun =>
        del[d].keys \subseteq Rows /\ del[d].expected <= memory.rev
    /\ \A d \in Deleters : del[d].pc \in Over =>
        del[d].keys \cap Rows = {} /\ del[d].expected = revision /\ memory.rev < revision
    /\ \A c, d \in Deleters : del[c].pc \in Over /\ del[d].pc \in Over => c = d
    /\ \A e \in memory.rows : e \in Rows \/ \E d \in Deleters : del[d].pc \in Over /\ e \in del[d].keys

StageOf(d) ==
    /\ del[d].pc \in {"busy", "lease"} => \A e \in Entries : trash[del[d].op][e] = 0
    /\ del[d].pc \in {"stage", "cleanup"} => del[d].todo \in Seq(del[d].keys)
    /\ del[d].pc = "stage" =>
        /\ \A i, j \in 1 .. Len(del[d].todo) : del[d].todo[i] = del[d].todo[j] => i = j
        /\ \A i \in 1 .. Len(del[d].todo) : trash[del[d].op][del[d].todo[i]] = 0
        /\ \A e \in del[d].keys : lease[e] = DeleteLease(del[d].op)

StageInv ==
    /\ \A d \in Deleters : StageOf(d)
    /\ \A e \in uploading \cup reaper : lease[e] = UploadLease

Kept(e) == dir[e] # 0 \/ \E o \in Ops : trash[o][e] # 0

FileInv ==
    /\ NoFilesLost
    /\ proj # NoProjection => /\ proj.expected <= memory.rev
                              /\ revision = proj.expected => Kept(proj.entry)

DeleteInv == TypeInv /\ OwnInv /\ RowInv /\ StageInv /\ FileInv

-----------------------------------------------------------------------------
(* The paths of a batch: each of its entries once, in some order. *)
LEMMA BatchPaths ==
  ASSUME NEW K, K \subseteq Entries
  PROVE  /\ SetToSeq(K) \in Seq(K) /\ Reverse(SetToSeq(K)) \in Seq(K)
         /\ \A i, j \in 1 .. Len(SetToSeq(K)) : SetToSeq(K)[i] = SetToSeq(K)[j] => i = j
<1>1. IsFiniteSet(K)
  BY DeleteAssumption, FS_Subset
<1>2. Cardinality(K) \in Nat /\ ExistsBijection(1 .. Cardinality(K), K)
  BY <1>1, FS_CardinalityType
<1>3. \E f \in [1 .. Cardinality(K) -> K] : IsInjective(f)
  BY <1>2 DEF ExistsBijection, Bijection, Injection
<1>4. SetToSeq(K) \in [1 .. Cardinality(K) -> K] /\ IsInjective(SetToSeq(K))
  BY <1>3 DEF SetToSeq
<1> DEFINE s == SetToSeq(K)
<1>5. s \in Seq(K) /\ Len(s) = Cardinality(K)
  BY <1>2, <1>4
<1>6. \A i, j \in 1 .. Len(s) : s[i] = s[j] => i = j
  BY <1>2, <1>4, <1>5 DEF IsInjective
<1> HIDE DEF s
<1>7. Reverse(s) \in Seq(K)
  BY <1>5 DEF Reverse
<1> QED
  BY <1>5, <1>6, <1>7 DEF s

(* What the changes of a deleter's record leave. *)
Moves(d, pc, todo, expected) ==
    /\ del' \in [Deleters -> DelRecord]
    /\ del'[d].pc = pc /\ del'[d].op = del[d].op /\ del'[d].keys = del[d].keys
    /\ del'[d].todo = todo /\ del'[d].expected = expected
    /\ \A x \in Deleters : x # d => del'[x] = del[x]

Leaves(d) ==
    /\ del' \in [Deleters -> DelRecord] /\ del'[d] = Idle
    /\ \A x \in Deleters : x # d => del'[x] = del[x]
    /\ claimed' = claimed \ del[d].keys

(* Replacing one deleter's record leaves the others alone. *)
LEMMA DelSet ==
  ASSUME TypeInv, NEW d \in Deleters, NEW r, r \in DelRecord, del' = [del EXCEPT ![d] = r]
  PROVE  /\ del' \in [Deleters -> DelRecord] /\ del'[d] = r
         /\ \A x \in Deleters : x # d => del'[x] = del[x]
BY DEF TypeInv

(* An idle deleter's record has its type. *)
LEMMA IdleType == Idle \in DelRecord /\ Idle.pc = "idle"
<1>1. {} \in SUBSET Entries /\ {} \in SUBSET (Ops \X Entries) /\ <<>> \in Seq(Entries)
  OBVIOUS
<1> QED
  BY <1>1 DEF Idle, DelRecord, Steps

(* Going to another step changes nothing else of the deleter. *)
LEMMA Goes ==
  ASSUME TypeInv, NEW d \in Deleters, NEW pc \in Steps, Goto(d, pc)
  PROVE  Moves(d, pc, del[d].todo, del[d].expected)
<1> DEFINE r == [del[d] EXCEPT !.pc = pc]
<1>0. del[d] \in DelRecord
  BY DEF TypeInv
<1>1. r \in DelRecord /\ r.pc = pc /\ r.op = del[d].op /\ r.keys = del[d].keys
      /\ r.todo = del[d].todo /\ r.expected = del[d].expected
  BY <1>0 DEF DelRecord
<1>2. del' = [del EXCEPT ![d] = r]
  BY DEF Goto, TypeInv
<1> HIDE DEF r
<1> QED
  BY <1>1, <1>2, DelSet DEF Moves

(* Beginning a step sets what it works off. *)
LEMMA Begins ==
  ASSUME TypeInv, NEW d \in Deleters, NEW pc \in Steps, NEW todo, todo \in Seq(Entries),
         Begin(d, pc, todo)
  PROVE  Moves(d, pc, todo, del[d].expected)
<1> DEFINE r == [del[d] EXCEPT !.pc = pc, !.todo = todo]
<1>0. del[d] \in DelRecord
  BY DEF TypeInv
<1>1. r \in DelRecord /\ r.pc = pc /\ r.op = del[d].op /\ r.keys = del[d].keys
      /\ r.todo = todo /\ r.expected = del[d].expected
  BY <1>0 DEF DelRecord
<1>2. del' = [del EXCEPT ![d] = r]
  BY DEF Begin, TypeInv
<1> HIDE DEF r
<1> QED
  BY <1>1, <1>2, DelSet DEF Moves

(* Advancing drops the entry just treated. *)
LEMMA Advances ==
  ASSUME TypeInv, NEW d \in Deleters, del[d].todo # <<>>, Advance(d)
  PROVE  Moves(d, del[d].pc, Tail(del[d].todo), del[d].expected)
<1>0. del[d] \in DelRecord /\ Tail(del[d].todo) \in Seq(Entries)
  BY DEF TypeInv, DelRecord
<1> DEFINE r == [del[d] EXCEPT !.todo = Tail(@)]
<1>1. r \in DelRecord /\ r.pc = del[d].pc /\ r.op = del[d].op /\ r.keys = del[d].keys
      /\ r.todo = Tail(del[d].todo) /\ r.expected = del[d].expected
  BY <1>0 DEF DelRecord
<1>2. del' = [del EXCEPT ![d] = r]
  BY DEF Advance, TypeInv
<1> HIDE DEF r
<1> QED
  BY <1>1, <1>2, DelSet DEF Moves

(* A deleter that leaves is idle. *)
LEMMA LeavesIdle ==
  ASSUME TypeInv, NEW d \in Deleters, Leave(d)
  PROVE  Leaves(d)
BY IdleType, DelSet DEF Leave, Leaves

(* What each step of a deleter does to its record. *)
LEMMA DeleterMoves ==
  ASSUME TypeInv, NEW d \in Deleters
  PROVE  LET todo == del[d].todo
             expected == del[d].expected
             paths == SetToSeq(del[d].keys)
         IN  /\ CheckBusy(d) => \/ Leaves(d)
                                \/ Moves(d, "lease", todo, expected) /\ UNCHANGED claimed
             /\ AcquireLeases(d) => \/ Leaves(d) /\ UNCHANGED lease
                                    \/ Moves(d, "stage", paths, expected) /\ UNCHANGED claimed
             /\ MoveToTrash(d) => Moves(d, "stage", Tail(todo), expected)
             /\ StageFails(d) => Moves(d, "scan", todo, expected)
             /\ ScanStarts(d) => Moves(d, "orphans", todo, expected)
             /\ StageEnds(d) => Moves(d, "record", todo, expected)
             /\ RecordIntents(d) => \/ Moves(d, "commit", todo, expected)
                                    \/ Moves(d, "rollback", Reverse(paths), expected)
             /\ Commit(d) => IF revision = expected THEN Moves(d, "cleanup", paths, revision')
                             ELSE Moves(d, "rollback", Reverse(paths), expected)
             /\ RollBack(d) => Moves(d, "rollback", Tail(todo), expected)
             /\ CleanUp(d) => Moves(d, "cleanup", Tail(todo), expected)
             /\ CleanupFails(d) => Moves(d, "finish", todo, expected)
             /\ Finalize(d) => Moves(d, "finish", todo, expected)
             /\ ScanEnds(d) \/ Abort(d) \/ Finish(d) => Leaves(d)
<1>0. /\ del[d] \in DelRecord /\ del[d].keys \subseteq Entries /\ del[d].todo \in Seq(Entries)
      /\ del[d].pc \in Steps
  BY DEF TypeInv, DelRecord
<1> DEFINE todo == del[d].todo
           expected == del[d].expected
           paths == SetToSeq(del[d].keys)
<1>1. paths \in Seq(Entries) /\ Reverse(paths) \in Seq(Entries)
  <2>1. paths \in Seq(del[d].keys) /\ Reverse(paths) \in Seq(del[d].keys)
    BY <1>0, BatchPaths
  <2> HIDE DEF paths
  <2> QED
    BY <1>0, <2>1
<1> HIDE DEF paths
<1>2. "lease" \in Steps /\ "stage" \in Steps /\ "scan" \in Steps /\ "orphans" \in Steps
      /\ "record" \in Steps /\ "commit" \in Steps /\ "rollback" \in Steps /\ "cleanup" \in Steps
      /\ "finish" \in Steps
  BY DEF Steps
<1>3. CheckBusy(d) => Leaves(d) \/ (Moves(d, "lease", todo, expected) /\ UNCHANGED claimed)
  BY <1>2, Goes, LeavesIdle DEF CheckBusy
<1>4. AcquireLeases(d) => \/ Leaves(d) /\ UNCHANGED lease
                          \/ Moves(d, "stage", paths, expected) /\ UNCHANGED claimed
  BY <1>1, <1>2, Begins, LeavesIdle DEF AcquireLeases, paths
<1>5. MoveToTrash(d) => Moves(d, "stage", Tail(todo), expected)
  BY Advances DEF MoveToTrash
<1>6. StageFails(d) => Moves(d, "scan", todo, expected)
  BY <1>2, Goes DEF StageFails
<1>7. ScanStarts(d) => Moves(d, "orphans", todo, expected)
  <2> SUFFICES ASSUME ScanStarts(d) PROVE Moves(d, "orphans", todo, expected)
    OBVIOUS
  <2> DEFINE k == {x \in Ops \X Entries : intent[x[1]][x[2]] # "none"}
             r == [del[d] EXCEPT !.pc = "orphans", !.known = k]
  <2>1. k \in SUBSET (Ops \X Entries) /\ del' = [del EXCEPT ![d] = r]
    BY DEF ScanStarts, TypeInv
  <2> HIDE DEF k
  <2>2. r \in DelRecord /\ r.pc = "orphans" /\ r.op = del[d].op /\ r.keys = del[d].keys
        /\ r.todo = todo /\ r.expected = expected
    BY <1>0, <1>2, <2>1 DEF DelRecord
  <2> HIDE DEF r
  <2> QED
    BY <2>1, <2>2, DelSet DEF Moves
<1>8. StageEnds(d) => Moves(d, "record", todo, expected)
  BY <1>2, Goes DEF StageEnds
<1>9. RecordIntents(d) => \/ Moves(d, "commit", todo, expected)
                          \/ Moves(d, "rollback", Reverse(paths), expected)
  <2> SUFFICES ASSUME RecordIntents(d)
               PROVE  \/ Moves(d, "commit", todo, expected)
                      \/ Moves(d, "rollback", Reverse(paths), expected)
    OBVIOUS
  <2>1. CASE del' = [del EXCEPT ![d].pc = "commit", ![d].recorded = TRUE]
    <3> DEFINE r == [del[d] EXCEPT !.pc = "commit", !.recorded = TRUE]
    <3>1. del' = [del EXCEPT ![d] = r]
      BY <2>1 DEF TypeInv
    <3>2. r \in DelRecord /\ r.pc = "commit" /\ r.op = del[d].op /\ r.keys = del[d].keys
          /\ r.todo = todo /\ r.expected = expected
      BY <1>0, <1>2 DEF DelRecord
    <3> HIDE DEF r
    <3> QED
      BY <3>1, <3>2, DelSet DEF Moves
  <2>2. CASE Begin(d, "rollback", Reverse(paths))
    BY <1>1, <1>2, <2>2, Begins
  <2> QED
    BY <2>1, <2>2 DEF RecordIntents, paths
<1>10. Commit(d) => IF revision = expected THEN Moves(d, "cleanup", paths, revision')
                    ELSE Moves(d, "rollback", Reverse(paths), expected)
  <2> SUFFICES ASSUME Commit(d)
               PROVE  IF revision = expected THEN Moves(d, "cleanup", paths, revision')
                      ELSE Moves(d, "rollback", Reverse(paths), expected)
    OBVIOUS
  <2>1. CASE revision = expected
    <3> DEFINE r == [del[d] EXCEPT !.pc = "cleanup", !.todo = paths, !.expected = revision']
    <3>0. revision' \in Nat
      BY <2>1 DEF Commit, TypeInv
    <3>1. del' = [del EXCEPT ![d] = r]
      BY <2>1 DEF Commit, TypeInv, paths
    <3>2. r \in DelRecord /\ r.pc = "cleanup" /\ r.op = del[d].op /\ r.keys = del[d].keys
          /\ r.todo = paths /\ r.expected = revision'
      BY <1>0, <1>1, <1>2, <3>0 DEF DelRecord
    <3> HIDE DEF r
    <3> QED
      BY <2>1, <3>1, <3>2, DelSet DEF Moves
  <2>2. CASE revision # expected
    BY <1>1, <1>2, <2>2, Begins DEF Commit, paths
  <2> QED
    BY <2>1, <2>2
<1>11. RollBack(d) => Moves(d, "rollback", Tail(todo), expected)
  <2> SUFFICES ASSUME RollBack(d) PROVE Moves(d, "rollback", Tail(todo), expected)
    OBVIOUS
  <2> DEFINE p == del[d].blocked \/ (trash[del[d].op][Next1(d)] # 0 /\ dir[Next1(d)] # 0)
             r == [del[d] EXCEPT !.todo = Tail(@), !.blocked = p]
  <2>1. del' = [del EXCEPT ![d] = r] /\ del[d].pc = "rollback"
    BY DEF RollBack, TypeInv
  <2>2. p \in BOOLEAN /\ Tail(todo) \in Seq(Entries)
    BY <1>0 DEF RollBack, DelRecord
  <2> HIDE DEF p
  <2>3. r \in DelRecord /\ r.pc = "rollback" /\ r.op = del[d].op /\ r.keys = del[d].keys
        /\ r.todo = Tail(todo) /\ r.expected = expected
    BY <1>0, <2>1, <2>2 DEF DelRecord
  <2> HIDE DEF r
  <2> QED
    BY <2>1, <2>3, DelSet DEF Moves
<1>12. CleanUp(d) => Moves(d, "cleanup", Tail(todo), expected)
  BY Advances DEF CleanUp
<1>13. CleanupFails(d) => Moves(d, "finish", todo, expected)
  BY <1>2, Goes DEF CleanupFails
<1>14. Finalize(d) => Moves(d, "finish", todo, expected)
  BY <1>2, Goes DEF Finalize
<1>15. ScanEnds(d) \/ Abort(d) \/ Finish(d) => Leaves(d)
  BY LeavesIdle DEF ScanEnds, Abort, Finish
<1> QED
  BY <1>3, <1>4, <1>5, <1>6, <1>7, <1>8, <1>9, <1>10, <1>11, <1>12, <1>13, <1>14, <1>15 DEF paths

-----------------------------------------------------------------------------
(* Which steps write what. *)
LEMMA Footprint ==
  ASSUME [Next]_vars
  PROVE  /\ \/ UNCHANGED disk
            \/ \E d \in Deleters : \/ WriteMarker(d) \/ MoveToTrash(d) \/ RollBack(d) \/ CleanUp(d)
                                   \/ \E o \in Ops, e \in Entries : RestoreOrphan(d, o, e)
            \/ \E e \in Entries : PublishBundle(e)
         /\ UNCHANGED <<row, revision>> \/ (\E d \in Deleters : Commit(d)) \/ Project
         /\ UNCHANGED memory \/ (\E d \in Deleters : Finish(d)) \/ Project \/ Crash
         /\ \/ UNCHANGED intent
            \/ \E d \in Deleters : RecordIntents(d) \/ Commit(d) \/ Abort(d) \/ Finalize(d)
         /\ \/ UNCHANGED lease
            \/ \E d \in Deleters : AcquireLeases(d) \/ ScanEnds(d) \/ Abort(d) \/ Finalize(d)
            \/ \E e \in Entries : AcquireUploadLease(e) \/ StartUpload(e) \/ Reap(e)
            \/ Crash
         /\ \/ UNCHANGED <<uploading, reaper>>
            \/ \E e \in Entries : StartUpload(e) \/ UploadEnds(e) \/ Reap(e) \/ ReaperGivesUp(e)
            \/ Crash
         /\ UNCHANGED proj \/ (\E e \in Entries : Verify(e)) \/ Project \/ Crash
         /\ \/ UNCHANGED budget
            \/ \E d \in Deleters, K \in SUBSET Entries : Claim(d, K)
            \/ \E e \in Entries : PublishBundle(e)
            \/ \E what \in {"uploads", "faults", "crashes"} : Spend(what)
<1> USE DEF disk, store
<1>1. CASE UNCHANGED vars
  BY <1>1 DEF vars
<1>2. ASSUME NEW d \in Deleters, NEW K \in SUBSET Entries, Claim(d, K)
      PROVE  UNCHANGED <<disk, store, memory, proj, uploading, reaper>>
  BY <1>2 DEF Claim
<1>3. ASSUME NEW d \in Deleters,
             \/ CheckBusy(d) \/ AcquireLeases(d) \/ WriteMarker(d) \/ MoveToTrash(d) \/ StageEnds(d)
             \/ ScanStarts(d) \/ ScanEnds(d)
             \/ (\E o \in Ops, e \in Entries : RestoreOrphan(d, o, e)) \/ StageFails(d)
      PROVE  /\ UNCHANGED <<row, revision, intent, memory, proj, uploading, reaper>>
             /\ UNCHANGED budget \/ Spend("faults")
             /\ \/ UNCHANGED disk
                \/ \/ WriteMarker(d) \/ MoveToTrash(d)
                   \/ \E o \in Ops, e \in Entries : RestoreOrphan(d, o, e)
             /\ UNCHANGED lease \/ AcquireLeases(d) \/ ScanEnds(d)
  BY <1>3 DEF CheckBusy, AcquireLeases, WriteMarker, MoveToTrash, StageEnds, ScanStarts, ScanEnds,
              RestoreOrphan, StageFails, Fault
<1>4. ASSUME NEW d \in Deleters,
             \/ RecordIntents(d) \/ Commit(d) \/ RollBack(d) \/ Abort(d) \/ CleanUp(d)
             \/ Finalize(d) \/ Finish(d) \/ CleanupFails(d)
      PROVE  /\ UNCHANGED <<proj, uploading, reaper>>
             /\ UNCHANGED budget \/ Spend("faults")
             /\ UNCHANGED disk \/ RollBack(d) \/ CleanUp(d)
             /\ UNCHANGED <<row, revision>> \/ Commit(d)
             /\ UNCHANGED memory \/ Finish(d)
             /\ UNCHANGED intent \/ RecordIntents(d) \/ Commit(d) \/ Abort(d) \/ Finalize(d)
             /\ UNCHANGED lease \/ Abort(d) \/ Finalize(d)
  BY <1>4 DEF RecordIntents, Commit, RollBack, Abort, CleanUp, Finalize, Finish, CleanupFails, Fault
<1>5. ASSUME NEW e \in Entries,
             \/ PublishBundle(e) \/ Verify(e) \/ AcquireUploadLease(e) \/ StartUpload(e)
             \/ UploadEnds(e) \/ Reap(e) \/ ReaperGivesUp(e)
      PROVE  /\ UNCHANGED <<row, revision, intent, memory>>
             /\ UNCHANGED disk \/ PublishBundle(e)
             /\ UNCHANGED lease \/ AcquireUploadLease(e) \/ StartUpload(e) \/ Reap(e)
             /\ \/ UNCHANGED <<uploading, reaper>>
                \/ StartUpload(e) \/ UploadEnds(e) \/ Reap(e) \/ ReaperGivesUp(e)
             /\ UNCHANGED proj \/ Verify(e)
             /\ UNCHANGED budget \/ PublishBundle(e) \/ Spend("uploads")
  BY <1>5 DEF PublishBundle, Verify, AcquireUploadLease, StartUpload, UploadEnds, Reap, ReaperGivesUp
<1>6. CASE Project
  BY <1>6 DEF Project
<1>7. CASE Crash
  BY <1>7 DEF Crash
<1> QED
  BY <1>1, <1>2, <1>3, <1>4, <1>5, <1>6, <1>7 DEF Next, Step

(* The steps that leave every deleter's record alone. *)
LEMMA DeletersMove ==
  ASSUME TypeInv, [Next]_vars
  PROVE  \/ UNCHANGED <<del, claimed>>
         \/ \E d \in Deleters : \/ Step(d) /\ ~WriteMarker(d)
                                   /\ ~(\E o \in Ops, e \in Entries : RestoreOrphan(d, o, e))
                                \/ StageFails(d) \/ CleanupFails(d)
                                \/ \E K \in SUBSET Entries : Claim(d, K)
         \/ Crash
BY DEF Next, vars, WriteMarker, RestoreOrphan, PublishBundle, Verify, AcquireUploadLease,
       StartUpload, UploadEnds, Reap, ReaperGivesUp, Project

-----------------------------------------------------------------------------
(* One place of the trash is written. *)
LEMMA TrashSet ==
  ASSUME TypeInv, NEW o \in Ops, NEW e \in Entries, NEW b \in Bundles,
         trash' = [trash EXCEPT ![o][e] = b]
  PROVE  /\ trash' \in [Ops -> [Entries -> Bundles]] /\ trash'[o][e] = b
         /\ \A p \in Ops, f \in Entries : (p # o \/ f # e) => trash'[p][f] = trash[p][f]
<1> DEFINE t == [trash[o] EXCEPT ![e] = b]
<1>1. t \in [Entries -> Bundles] /\ t[e] = b /\ \A f \in Entries : f # e => t[f] = trash[o][f]
  BY DEF TypeInv
<1>2. trash' = [trash EXCEPT ![o] = t]
  BY DEF TypeInv
<1> HIDE DEF t
<1> QED
  BY <1>1, <1>2 DEF TypeInv

(* A deleter works on the first of the paths it has left. *)
LEMMA FirstPath ==
  ASSUME TypeInv, NEW d \in Deleters, del[d].todo # <<>>
  PROVE  Next1(d) \in Entries /\ Next1(d) = del[d].todo[1] /\ Len(del[d].todo) \in Nat \ {0}
BY DEF TypeInv, DelRecord, Next1

(* The operation of a deleter at work. *)
LEMMA AtWork ==
  ASSUME TypeInv, OwnInv, NEW d \in Deleters, del[d].pc # "idle"
  PROVE  del[d].op \in Ops /\ del[d].keys \subseteq Entries
BY DEF TypeInv, DelRecord, OwnInv

(* Every step keeps the types of what is on disk. *)
LEMMA DiskType ==
  ASSUME TypeInv, OwnInv, [Next]_vars
  PROVE  /\ dir' \in [Entries -> Bundles] /\ trash' \in [Ops -> [Entries -> Bundles]]
         /\ marker' \in [Ops -> SUBSET Entries]
<1>0. 0 \in Bundles
  BY DeleteAssumption DEF Bundles
<1>1. CASE UNCHANGED disk
  BY <1>1 DEF disk, TypeInv
<1>2. ASSUME NEW d \in Deleters, WriteMarker(d)
      PROVE  UNCHANGED <<dir, trash>> /\ marker' \in [Ops -> SUBSET Entries]
  <2>1. del[d].op \in Ops /\ Next1(d) \in Entries
    BY <1>2, AtWork, FirstPath DEF WriteMarker
  <2> QED
    BY <1>2, <2>1 DEF WriteMarker, TypeInv
<1>3. ASSUME NEW d \in Deleters, MoveToTrash(d)
      PROVE  /\ dir' \in [Entries -> Bundles] /\ trash' \in [Ops -> [Entries -> Bundles]]
             /\ UNCHANGED marker
  <2>1. del[d].op \in Ops /\ Next1(d) \in Entries
    BY <1>3, AtWork, FirstPath DEF MoveToTrash
  <2> QED
    BY <1>0, <1>3, <2>1, TrashSet DEF MoveToTrash, TypeInv
<1>4. ASSUME NEW d \in Deleters, RollBack(d)
      PROVE  /\ dir' \in [Entries -> Bundles] /\ trash' \in [Ops -> [Entries -> Bundles]]
             /\ marker' \in [Ops -> SUBSET Entries]
  <2>1. del[d].op \in Ops /\ Next1(d) \in Entries
    BY <1>4, AtWork, FirstPath DEF RollBack
  <2>2. /\ \/ UNCHANGED <<dir, trash>>
           \/ /\ dir' = [dir EXCEPT ![Next1(d)] = trash[del[d].op][Next1(d)]]
              /\ trash' = [trash EXCEPT ![del[d].op][Next1(d)] = 0]
        /\ marker' = [marker EXCEPT ![del[d].op] = @ \ {Next1(d)}]
    BY <1>4 DEF RollBack
  <2>3. trash[del[d].op][Next1(d)] \in Bundles
    BY <2>1 DEF TypeInv
  <2>4. dir' \in [Entries -> Bundles] /\ marker' \in [Ops -> SUBSET Entries]
    BY <2>1, <2>2, <2>3 DEF TypeInv
  <2>5. trash' \in [Ops -> [Entries -> Bundles]]
    BY <1>0, <2>1, <2>2, TrashSet DEF TypeInv
  <2> QED
    BY <2>4, <2>5
<1>5. ASSUME NEW d \in Deleters, CleanUp(d)
      PROVE  /\ UNCHANGED dir /\ trash' \in [Ops -> [Entries -> Bundles]]
             /\ marker' \in [Ops -> SUBSET Entries]
  <2>1. del[d].op \in Ops /\ Next1(d) \in Entries
    BY <1>5, AtWork, FirstPath DEF CleanUp
  <2> QED
    BY <1>0, <1>5, <2>1, TrashSet DEF CleanUp, TypeInv
<1>6. ASSUME NEW d \in Deleters, NEW o \in Ops, NEW e \in Entries, RestoreOrphan(d, o, e)
      PROVE  /\ dir' \in [Entries -> Bundles] /\ trash' \in [Ops -> [Entries -> Bundles]]
             /\ marker' \in [Ops -> SUBSET Entries]
  <2>1. /\ \/ UNCHANGED <<dir, trash>>
           \/ dir' = [dir EXCEPT ![e] = trash[o][e]] /\ trash' = [trash EXCEPT ![o][e] = 0]
        /\ marker' = [marker EXCEPT ![o] = @ \ {e}]
    BY <1>6 DEF RestoreOrphan
  <2> QED
    BY <1>0, <2>1, TrashSet DEF TypeInv
<1>7. ASSUME NEW e \in Entries, PublishBundle(e)
      PROVE  dir' \in [Entries -> Bundles] /\ UNCHANGED <<trash, marker>>
  <2>1. NewBundle \in Bundles
    BY <1>7, DeleteAssumption DEF PublishBundle, Spend, NewBundle, Bundles, TypeInv, BudgetType
  <2> QED
    BY <1>7, <2>1 DEF PublishBundle, TypeInv
<1> QED
  BY <1>1, <1>2, <1>3, <1>4, <1>5, <1>6, <1>7, Footprint DEF TypeInv

(* Every step keeps the types of rows, intents and leases. *)
LEMMA StoreType ==
  ASSUME TypeInv, OwnInv, [Next]_vars
  PROVE  /\ row' \in [Entries -> Bundles] /\ revision' \in Nat
         /\ memory' \in [rev : Nat, rows : SUBSET Entries]
         /\ intent' \in [Ops -> [Entries -> {"none", "staged", "committed"}]]
         /\ lease' \in [Entries -> {Free, UploadLease} \cup {DeleteLease(o) : o \in Ops}]
<1>0. 0 \in Bundles
  BY DeleteAssumption DEF Bundles
<1>1. ASSUME NEW d \in Deleters, Commit(d)
      PROVE  row' \in [Entries -> Bundles] /\ revision' \in Nat
  <2>1. \/ UNCHANGED <<row, revision>>
        \/ /\ row' = [e \in Entries |-> IF e \in del[d].keys THEN 0 ELSE row[e]]
           /\ revision' \in {revision, revision + 1}
    BY <1>1 DEF Commit, TypeInv
  <2> QED
    BY <1>0, <2>1 DEF TypeInv
<1>2. CASE Project
  <2>1. proj.entry \in Entries /\ proj.bundle \in Bundles
    BY <1>2, DeleteAssumption DEF Project, TypeInv, Bundles
  <2> QED
    BY <1>2, <2>1 DEF Project, TypeInv
<1>3. ASSUME NEW d \in Deleters, Finish(d)
      PROVE  memory' \in [rev : Nat, rows : SUBSET Entries]
  BY <1>3 DEF Finish, TypeInv, DelRecord
<1>4. CASE Crash
  <2>1. memory' \in [rev : Nat, rows : SUBSET Entries]
    BY <1>4 DEF Crash, Rows, TypeInv
  <2>2. lease' \in [Entries -> {Free, UploadLease} \cup {DeleteLease(o) : o \in Ops}]
    BY <1>4 DEF Crash, TypeInv
  <2> QED
    BY <1>4, <2>1, <2>2 DEF Crash, TypeInv
<1>5. ASSUME NEW d \in Deleters, RecordIntents(d) \/ Commit(d) \/ Abort(d) \/ Finalize(d)
      PROVE  intent' \in [Ops -> [Entries -> {"none", "staged", "committed"}]]
  <2>1. del[d].op \in Ops /\ intent[del[d].op] \in [Entries -> {"none", "staged", "committed"}]
    BY <1>5, AtWork DEF RecordIntents, Commit, Abort, Finalize, TypeInv
  <2>2. PICK f : /\ f \in [Entries -> {"none", "staged", "committed"}]
                 /\ UNCHANGED intent \/ intent' = [intent EXCEPT ![del[d].op] = f]
    <3>1. CASE RecordIntents(d)
      BY <2>1, <3>1 DEF RecordIntents
    <3>2. CASE Commit(d)
      <4> DEFINE f == [e \in Entries |-> IF intent[del[d].op][e] = "staged" THEN "committed"
                                         ELSE intent[del[d].op][e]]
      <4>1. f \in [Entries -> {"none", "staged", "committed"}]
        BY <2>1
      <4>2. UNCHANGED intent \/ intent' = [intent EXCEPT ![del[d].op] = f]
        BY <2>1, <3>2 DEF Commit, TypeInv
      <4> HIDE DEF f
      <4> QED
        BY <4>1, <4>2
    <3>3. CASE Abort(d)
      <4> DEFINE f == [e \in Entries |-> IF intent[del[d].op][e] = "staged" THEN "none"
                                         ELSE intent[del[d].op][e]]
      <4>1. f \in [Entries -> {"none", "staged", "committed"}]
        BY <2>1
      <4>2. UNCHANGED intent \/ intent' = [intent EXCEPT ![del[d].op] = f]
        BY <2>1, <3>3 DEF Abort, TypeInv
      <4> HIDE DEF f
      <4> QED
        BY <4>1, <4>2
    <3>4. CASE Finalize(d)
      <4> DEFINE f == [e \in Entries |-> IF intent[del[d].op][e] = "committed" THEN "none"
                                         ELSE intent[del[d].op][e]]
      <4>1. f \in [Entries -> {"none", "staged", "committed"}]
        BY <2>1
      <4>2. intent' = [intent EXCEPT ![del[d].op] = f]
        BY <2>1, <3>4 DEF Finalize, TypeInv
      <4> HIDE DEF f
      <4> QED
        BY <4>1, <4>2
    <3> QED
      BY <1>5, <3>1, <3>2, <3>3, <3>4
  <2> QED
    BY <2>1, <2>2 DEF TypeInv
<1>6. ASSUME NEW d \in Deleters, AcquireLeases(d) \/ ScanEnds(d) \/ Abort(d) \/ Finalize(d)
      PROVE  lease' \in [Entries -> {Free, UploadLease} \cup {DeleteLease(o) : o \in Ops}]
  <2>1. del[d].op \in Ops
    BY <1>6, AtWork DEF AcquireLeases, ScanEnds, Abort, Finalize
  <2> QED
    BY <1>6, <2>1 DEF AcquireLeases, ScanEnds, Abort, Finalize, Unlease, TypeInv
<1>7. ASSUME NEW e \in Entries, AcquireUploadLease(e) \/ StartUpload(e) \/ Reap(e)
      PROVE  lease' \in [Entries -> {Free, UploadLease} \cup {DeleteLease(o) : o \in Ops}]
  BY <1>7 DEF AcquireUploadLease, StartUpload, Reap, TypeInv
<1>8. row' \in [Entries -> Bundles] /\ revision' \in Nat
  BY <1>1, <1>2, <1>4, Footprint DEF TypeInv
<1>9. memory' \in [rev : Nat, rows : SUBSET Entries]
  BY <1>2, <1>3, <1>4, Footprint DEF TypeInv
<1>10. intent' \in [Ops -> [Entries -> {"none", "staged", "committed"}]]
  BY <1>5, Footprint DEF TypeInv
<1>11. lease' \in [Entries -> {Free, UploadLease} \cup {DeleteLease(o) : o \in Ops}]
  BY <1>4, <1>6, <1>7, Footprint DEF TypeInv
<1> QED
  BY <1>8, <1>9, <1>10, <1>11

(* Every step keeps the types. *)
LEMMA TypeStep ==
  ASSUME TypeInv, OwnInv, [Next]_vars
  PROVE  TypeInv'
<1>1. /\ del' \in [Deleters -> DelRecord] /\ claimed' \subseteq Entries
  <2>1. ASSUME NEW d \in Deleters, NEW K \in SUBSET Entries, Claim(d, K)
        PROVE  del' \in [Deleters -> DelRecord] /\ claimed' \subseteq Entries
    <3> DEFINE r == [Idle EXCEPT !.pc = "busy", !.op = NewOp, !.keys = K, !.expected = memory.rev]
    <3>1. NewOp \in Ops /\ memory.rev \in Nat
      BY <2>1, DeleteAssumption DEF Claim, Spend, NewOp, Ops, TypeInv, BudgetType
    <3>2. r \in DelRecord
      <4>1. Idle \in DelRecord /\ "busy" \in Steps
        BY IdleType DEF Steps
      <4> QED
        BY <3>1, <4>1 DEF DelRecord
    <3>3. del' = [del EXCEPT ![d] = r] /\ claimed' = claimed \cup K
      BY <2>1 DEF Claim
    <3> HIDE DEF r
    <3> QED
      BY <3>2, <3>3, DelSet DEF TypeInv
  <2>3. ASSUME NEW d \in Deleters, \/ Step(d) /\ ~WriteMarker(d)
                                      /\ ~(\E o \in Ops, e \in Entries : RestoreOrphan(d, o, e))
                                   \/ StageFails(d) \/ CleanupFails(d)
        PROVE  del' \in [Deleters -> DelRecord] /\ claimed' \subseteq Entries
    <3>1. del' \in [Deleters -> DelRecord]
      BY <2>3, DeleterMoves DEF Step, Moves, Leaves
    <3>2. claimed' \subseteq Entries
      BY <2>3 DEF Step, TypeInv, Leave, CheckBusy, AcquireLeases, MoveToTrash, StageEnds, ScanStarts,
         ScanEnds, RecordIntents, Commit, RollBack, Abort, CleanUp, Finalize, Finish, StageFails,
         CleanupFails
    <3> QED
      BY <3>1, <3>2
  <2>4. CASE Crash
    BY <2>4, IdleType DEF Crash
  <2> QED
    BY <2>1, <2>3, <2>4, DeletersMove DEF TypeInv
<1>2. uploading' \subseteq Entries /\ reaper' \subseteq Entries
  BY Footprint DEF TypeInv, StartUpload, UploadEnds, Reap, ReaperGivesUp, Crash
<1>3. proj' = NoProjection
      \/ proj' \in [entry : Entries, bundle : 1 .. MaxBundles, expected : Nat]
  <2>1. ASSUME NEW e \in Entries, Verify(e)
        PROVE  proj' \in [entry : Entries, bundle : 1 .. MaxBundles, expected : Nat]
    <3>1. dir[e] \in 1 .. MaxBundles /\ memory.rev \in Nat
      BY <2>1, DeleteAssumption DEF Verify, TypeInv, Bundles
    <3> QED
      BY <2>1, <3>1 DEF Verify
  <2> QED
    BY <2>1, Footprint DEF TypeInv, Project, Crash
<1>4. budget' \in BudgetType
  <2>1. ASSUME NEW what \in {"deletes", "bundles", "uploads", "faults", "crashes"}, Spend(what)
        PROVE  budget' \in BudgetType
    <3>1. budget \in BudgetType /\ budget[what] > 0 /\ budget' = [budget EXCEPT ![what] = @ - 1]
      BY <2>1 DEF Spend, TypeInv
    <3>2. CASE what = "deletes"
      BY <3>1, <3>2, DeleteAssumption DEF BudgetType
    <3>3. CASE what = "bundles"
      BY <3>1, <3>3, DeleteAssumption DEF BudgetType
    <3>4. CASE what = "uploads" \/ what = "faults" \/ what = "crashes"
      BY <3>1, <3>4 DEF BudgetType
    <3> QED
      BY <3>2, <3>3, <3>4
  <2> QED
    BY <2>1, Footprint DEF TypeInv, Claim, PublishBundle
<1> QED
  BY <1>1, <1>2, <1>3, <1>4, DiskType, StoreType DEF TypeInv

-----------------------------------------------------------------------------
(* The first layer: operations and keys have one owner each.                 *)

(* A claim: a new operation on the claimed keys. *)
LEMMA ClaimMoves ==
  ASSUME TypeInv, NEW d \in Deleters, NEW K \in SUBSET Entries, Claim(d, K)
  PROVE  /\ del'[d].pc = "busy" /\ del'[d].op = NewOp /\ del'[d].keys = K /\ NewOp \in Ops
         /\ del'[d].expected = memory.rev /\ \A x \in Deleters : x # d => del'[x] = del[x]
         /\ NewOp' = NewOp + 1 /\ del[d].pc = "idle" /\ K # {} /\ K \subseteq memory.rows \ claimed
         /\ claimed' = claimed \cup K
<1>1. budget \in BudgetType /\ budget.deletes > 0 /\ budget' = [budget EXCEPT !["deletes"] = @ - 1]
  BY DEF Claim, Spend, TypeInv
<1>2. NewOp \in Ops /\ NewOp' = NewOp + 1
  BY <1>1, DeleteAssumption DEF NewOp, Ops, BudgetType
<1>3. /\ del'[d].pc = "busy" /\ del'[d].op = NewOp /\ del'[d].keys = K
      /\ del'[d].expected = memory.rev /\ \A x \in Deleters : x # d => del'[x] = del[x]
  BY DEF Claim, Idle, TypeInv
<1> QED
  BY <1>2, <1>3 DEF Claim

(* Without a claim no operation begins. *)
LEMMA OpsStay ==
  ASSUME TypeInv, [Next]_vars, ~\E d \in Deleters, K \in SUBSET Entries : Claim(d, K)
  PROVE  NewOp' = NewOp
<1>1. ASSUME NEW what \in {"bundles", "uploads", "faults", "crashes"}, Spend(what)
      PROVE  budget'.deletes = budget.deletes
  BY <1>1 DEF Spend, TypeInv, BudgetType
<1> QED
  BY <1>1, Footprint DEF NewOp, PublishBundle

(* Without a claim the records keep operation and keys, or go. *)
LEMMA RecordsStay ==
  ASSUME TypeInv, [Next]_vars, ~\E d \in Deleters, K \in SUBSET Entries : Claim(d, K)
  PROVE  \/ \E d \in Deleters : del[d].pc # "idle" /\ Leaves(d)
         \/ Crash
         \/ /\ claimed' = claimed
            /\ \A x \in Deleters : /\ del'[x].op = del[x].op /\ del'[x].keys = del[x].keys
                                   /\ del[x].pc = "idle" => del'[x].pc = "idle"
<1>0. ASSUME NEW d \in Deleters, Step(d) \/ StageFails(d) \/ CleanupFails(d)
      PROVE  del[d].pc # "idle"
  BY <1>0 DEF Step, CheckBusy, AcquireLeases, WriteMarker, MoveToTrash, StageEnds, ScanStarts,
     ScanEnds, RestoreOrphan, RecordIntents, Commit, RollBack, Abort, CleanUp, Finalize, Finish,
     StageFails, CleanupFails
<1>1. ASSUME NEW d \in Deleters, \/ Step(d) /\ ~WriteMarker(d)
                                    /\ ~(\E o \in Ops, e \in Entries : RestoreOrphan(d, o, e))
                                 \/ StageFails(d) \/ CleanupFails(d),
             ~Leaves(d)
      PROVE  /\ claimed' = claimed
             /\ \A x \in Deleters : /\ del'[x].op = del[x].op /\ del'[x].keys = del[x].keys
                                    /\ del[x].pc = "idle" => del'[x].pc = "idle"
  <2>1. /\ del'[d].op = del[d].op /\ del'[d].keys = del[d].keys
        /\ \A x \in Deleters : x # d => del'[x] = del[x]
    BY <1>1, DeleterMoves DEF Step, Moves
  <2>2. claimed' = claimed
    BY <1>1, DeleterMoves, LeavesIdle DEF Step, CheckBusy, AcquireLeases, MoveToTrash, StageEnds,
       ScanStarts, RecordIntents, Commit, RollBack, CleanUp, Finalize, StageFails, CleanupFails
  <2> QED
    BY <1>0, <1>1, <2>1, <2>2
<1> QED
  BY <1>0, <1>1, DeletersMove

(* Every step keeps operations, claims and entries apart from each other. *)
LEMMA OwnStep ==
  ASSUME TypeInv, OwnInv, [Next]_vars
  PROVE  OwnInv'
<1>1. ASSUME NEW d \in Deleters, NEW K \in SUBSET Entries, Claim(d, K)
      PROVE  OwnInv'
  <2>1. UNCHANGED trash
    BY <1>1 DEF Claim, disk
  <2>2. NewOp \in Nat /\ \A o \in Ops : o \in Nat
    BY <1>1, ClaimMoves DEF Ops
  <2>3. \A x \in Deleters : del'[x].pc # "idle" =>
          del'[x].op \in Ops /\ del'[x].op < NewOp' /\ del'[x].keys # {}
          /\ del'[x].keys \subseteq claimed'
    BY <1>1, <2>2, ClaimMoves DEF OwnInv
  <2>4. ASSUME NEW x \in Deleters, x # d, del[x].pc # "idle"
        PROVE  del[x].op # NewOp /\ del[x].keys \cap K = {} /\ del'[x] = del[x]
    <3>1. del[x].op < NewOp /\ del[x].op \in Nat /\ del[x].keys \subseteq claimed
      BY <2>2, <2>4 DEF OwnInv
    <3> QED
      BY <1>1, <2>2, <2>4, <3>1, ClaimMoves
  <2>5. \A b, c \in Deleters : b # c /\ del'[b].pc # "idle" /\ del'[c].pc # "idle" =>
          del'[b].op # del'[c].op /\ del'[b].keys \cap del'[c].keys = {}
    BY <1>1, <2>4, ClaimMoves DEF OwnInv
  <2>6. \A o \in Ops, e \in Entries : o >= NewOp' => trash'[o][e] = 0
    BY <1>1, <2>1, <2>2, ClaimMoves DEF OwnInv
  <2> QED
    BY <2>3, <2>5, <2>6 DEF OwnInv
<1>2. CASE ~\E d \in Deleters, K \in SUBSET Entries : Claim(d, K)
  <2>1. NewOp' = NewOp
    BY <1>2, OpsStay
  <2>2. ASSUME NEW o \in Ops, NEW e \in Entries, o >= NewOp PROVE trash'[o][e] = 0
    <3>0. trash[o][e] = 0 /\ \A d \in Deleters : del[d].pc # "idle" => del[d].op < NewOp
      BY <2>2 DEF OwnInv
    <3>1. ASSUME NEW d \in Deleters, MoveToTrash(d) \/ CleanUp(d) PROVE trash'[o][e] = trash[o][e]
      <4>1. del[d].op \in Ops /\ Next1(d) \in Entries /\ dir[Next1(d)] \in Bundles /\ 0 \in Bundles
            /\ del[d].op < NewOp
        BY <3>0, <3>1, AtWork, FirstPath, DeleteAssumption
           DEF MoveToTrash, CleanUp, TypeInv, Bundles
      <4>2. del[d].op # o
        BY <2>2, <4>1, DeleteAssumption DEF Ops, NewOp, TypeInv, BudgetType
      <4> QED
        BY <3>1, <4>1, <4>2, TrashSet DEF MoveToTrash, CleanUp
    <3>2. ASSUME NEW d \in Deleters, NEW p \in Ops, NEW f \in Entries,
                 trash' = [trash EXCEPT ![p][f] = 0]
          PROVE  trash'[o][e] = 0
      BY <3>0, <3>2, TrashSet, DeleteAssumption DEF Bundles
    <3>3. ASSUME NEW d \in Deleters, RollBack(d) PROVE trash'[o][e] = 0
      BY <3>0, <3>2, <3>3, AtWork, FirstPath DEF RollBack
    <3> QED
      BY <3>0, <3>1, <3>2, <3>3, Footprint DEF disk, WriteMarker, RestoreOrphan, PublishBundle
  <2>3. CASE Crash
    BY <2>1, <2>2, <2>3, IdleType DEF OwnInv, Crash
  <2>4. ASSUME NEW d \in Deleters, del[d].pc # "idle", Leaves(d) PROVE OwnInv'
    <3>1. \A x \in Deleters : del'[x].pc # "idle" => x # d /\ del'[x] = del[x]
      BY <2>4, IdleType DEF Leaves
    <3>2. \A x \in Deleters : x # d /\ del[x].pc # "idle" => del[x].keys \subseteq claimed'
      BY <2>4 DEF OwnInv, Leaves
    <3> QED
      BY <2>1, <2>2, <3>1, <3>2 DEF OwnInv
  <2>5. CASE /\ claimed' = claimed
             /\ \A x \in Deleters : /\ del'[x].op = del[x].op /\ del'[x].keys = del[x].keys
                                    /\ del[x].pc = "idle" => del'[x].pc = "idle"
    BY <2>1, <2>2, <2>5 DEF OwnInv
  <2> QED
    BY <1>2, <2>3, <2>4, <2>5, RecordsStay
<1> QED
  BY <1>1, <1>2

-----------------------------------------------------------------------------
(* The second layer: rows, the revision and the process's copy.              *)

(* A deleter that neither commits nor takes its result over. *)
Onward(x) ==
    \/ del'[x].pc = "idle" /\ del[x].pc \notin Over
    \/ /\ del'[x].keys = del[x].keys /\ del'[x].expected = del[x].expected
       /\ del'[x].pc \in Begun => del[x].pc \in Begun
       /\ del'[x].pc \in Over <=> del[x].pc \in Over

(* A step of a deleter other than its end and its commit only moves it on. *)
LEMMA StepsOnward ==
  ASSUME TypeInv, NEW d \in Deleters, Step(d) \/ StageFails(d) \/ CleanupFails(d), ~Finish(d),
         Commit(d) => revision # del[d].expected
  PROVE  \A x \in Deleters : Onward(x)
<1> USE DEF Begun, Over
<1>1. \A x \in Deleters : del'[x] = del[x] => Onward(x)
  BY DEF Onward
<1>2. CASE \/ CheckBusy(d) \/ AcquireLeases(d) \/ MoveToTrash(d) \/ StageEnds(d) \/ ScanStarts(d)
           \/ ScanEnds(d) \/ StageFails(d) \/ RecordIntents(d) \/ Commit(d) \/ RollBack(d)
           \/ Abort(d)
  <2>1. del[d].pc \in Begun
    BY <1>2 DEF CheckBusy, AcquireLeases, MoveToTrash, StageEnds, ScanStarts, ScanEnds, StageFails,
       RecordIntents, Commit, RollBack, Abort
  <2>2. /\ \/ del'[d].pc = "idle"
           \/ /\ del'[d].keys = del[d].keys /\ del'[d].expected = del[d].expected
              /\ del'[d].pc \in Begun
        /\ \A x \in Deleters : x # d => del'[x] = del[x]
    BY <1>2, DeleterMoves, IdleType DEF Moves, Leaves
  <2> QED
    BY <1>1, <2>1, <2>2 DEF Onward
<1>3. CASE CleanUp(d) \/ CleanupFails(d) \/ Finalize(d)
  <2>1. del[d].pc \in Over
    BY <1>3 DEF CleanUp, CleanupFails, Finalize
  <2>2. /\ del'[d].keys = del[d].keys /\ del'[d].expected = del[d].expected /\ del'[d].pc \in Over
        /\ \A x \in Deleters : x # d => del'[x] = del[x]
    BY <1>3, DeleterMoves DEF Moves
  <2> QED
    BY <1>1, <2>1, <2>2 DEF Onward
<1>4. CASE WriteMarker(d) \/ \E o \in Ops, e \in Entries : RestoreOrphan(d, o, e)
  BY <1>1, <1>4 DEF WriteMarker, RestoreOrphan
<1> QED
  BY <1>2, <1>3, <1>4 DEF Step

(* While nobody writes rows and the deleters move on, what they know of the *)
(* rows stays true.                                                         *)
LEMMA RowsQuiet ==
  ASSUME TypeInv, RowInv, UNCHANGED <<row, revision, memory>>, \A x \in Deleters : Onward(x)
  PROVE  RowInv'
<1>1. Rows' = Rows
  BY DEF Rows
<1>2. ASSUME NEW x \in Deleters, del'[x].pc \in Begun
      PROVE  del'[x].keys \subseteq Rows' /\ del'[x].expected <= memory'.rev
  BY <1>1, <1>2 DEF RowInv, Onward, Begun
<1>3. ASSUME NEW x \in Deleters, del'[x].pc \in Over
      PROVE  del'[x].keys \cap Rows' = {} /\ del'[x].expected = revision' /\ memory'.rev < revision'
  BY <1>1, <1>3 DEF RowInv, Onward, Over
<1>4. ASSUME NEW e \in memory.rows, e \notin Rows
      PROVE  \E d \in Deleters : del'[d].pc \in Over /\ e \in del'[d].keys
  <2>1. PICK d \in Deleters : del[d].pc \in Over /\ e \in del[d].keys
    BY <1>4 DEF RowInv
  <2> QED
    BY <2>1 DEF Onward
<1>5. \A c, d \in Deleters : del'[c].pc \in Over /\ del'[d].pc \in Over => c = d
  BY DEF RowInv, Onward, Over
<1> QED
  BY <1>1, <1>2, <1>3, <1>4, <1>5 DEF RowInv

(* At a commit no other operation is between its commit and its end: every   *)
(* commit finds rows to remove, and moves the revision.                      *)
LEMMA CommitMoves ==
  ASSUME TypeInv, OwnInv, RowInv, NEW d \in Deleters, Commit(d), revision = del[d].expected
  PROVE  /\ revision' = revision + 1 /\ Rows' = Rows \ del[d].keys /\ memory.rev = revision
         /\ \A x \in Deleters : del[x].pc \notin Over
<1>1. del[d].pc = "commit" /\ del[d].keys # {} /\ del[d].keys \subseteq Rows
      /\ revision <= memory.rev
  BY DEF Commit, OwnInv, RowInv, Begun
<1>2. Rows \cap del[d].keys # {}
  BY <1>1
<1>3. revision' = revision + 1
  BY <1>2 DEF Commit, TypeInv
<1>4. memory.rev = revision
  <2>1. memory.rev \in Nat /\ revision \in Nat /\ memory.rev <= revision
    BY DEF RowInv, TypeInv
  <2> QED
    BY <1>1, <2>1
<1>5. \A x \in Deleters : del[x].pc \notin Over
  BY <1>4 DEF RowInv, TypeInv
<1>6. Rows' = Rows \ del[d].keys
  BY DEF Commit, Rows, TypeInv
<1> QED
  BY <1>3, <1>4, <1>5, <1>6

(* Every step keeps what deleters and projection know of rows and *)
(* revisions.                                                     *)
LEMMA RowStep ==
  ASSUME TypeInv, OwnInv, RowInv, [Next]_vars
  PROVE  RowInv'
<1>0. revision \in Nat /\ memory.rev \in Nat /\ memory.rows \subseteq Entries
  BY DEF TypeInv
<1>1. ASSUME NEW d \in Deleters, NEW K \in SUBSET Entries, Claim(d, K)
      PROVE  RowInv'
  <2>1. UNCHANGED <<row, revision, memory>> /\ Rows' = Rows
    BY <1>1 DEF Claim, store, Rows
  <2>2. K \subseteq Rows
    BY <1>1, ClaimMoves DEF RowInv, OwnInv, Over
  <2>3. \A x \in Deleters : x # d => del'[x] = del[x]
    BY <1>1, ClaimMoves
  <2>4. del'[d].pc = "busy" /\ del'[d].keys = K /\ del'[d].expected = memory.rev
        /\ del[d].pc = "idle"
    BY <1>1, ClaimMoves
  <2>5. ASSUME NEW x \in Deleters, del'[x].pc \in Begun
        PROVE  del'[x].keys \subseteq Rows' /\ del'[x].expected <= memory'.rev
    BY <1>0, <2>1, <2>2, <2>3, <2>4, <2>5 DEF RowInv
  <2>6. ASSUME NEW x \in Deleters, del'[x].pc \in Over
        PROVE  del'[x] = del[x]
    BY <2>3, <2>4, <2>6 DEF Over
  <2>7. ASSUME NEW x \in Deleters, del[x].pc \in Over
        PROVE  del'[x] = del[x]
    BY <2>3, <2>4, <2>7 DEF Over
  <2> QED
    BY <2>1, <2>5, <2>6, <2>7 DEF RowInv
<1>2. ASSUME NEW d \in Deleters, Step(d) \/ StageFails(d) \/ CleanupFails(d), ~Finish(d),
             Commit(d) => revision # del[d].expected
      PROVE  RowInv'
  <2>1. UNCHANGED <<row, revision, memory>>
    BY <1>2 DEF Step, store, CheckBusy, AcquireLeases, WriteMarker, MoveToTrash, StageEnds,
       ScanStarts, ScanEnds, RestoreOrphan, RecordIntents, Commit, RollBack, Abort, CleanUp,
       Finalize, StageFails, CleanupFails
  <2> QED
    BY <1>2, <2>1, StepsOnward, RowsQuiet
<1>3. ASSUME NEW d \in Deleters, Commit(d), revision = del[d].expected
      PROVE  RowInv'
  <2>1. /\ revision' = revision + 1 /\ Rows' = Rows \ del[d].keys /\ memory.rev = revision
        /\ \A x \in Deleters : del[x].pc \notin Over
    BY <1>3, CommitMoves
  <2>2. UNCHANGED memory /\ del[d].pc = "commit"
    BY <1>3 DEF Commit
  <2>3. /\ del'[d].pc = "cleanup" /\ del'[d].keys = del[d].keys /\ del'[d].expected = revision'
        /\ \A x \in Deleters : x # d => del'[x] = del[x]
    BY <1>3, DeleterMoves DEF Moves
  <2>4. ASSUME NEW x \in Deleters, del'[x].pc \in Begun
        PROVE  del'[x].keys \subseteq Rows' /\ del'[x].expected <= memory'.rev
    <3>1. x # d /\ del'[x] = del[x] /\ del[x].pc # "idle"
      BY <2>3, <2>4 DEF Begun
    <3>2. del[x].keys \cap del[d].keys = {}
      BY <2>2, <3>1 DEF OwnInv
    <3> QED
      BY <2>1, <2>2, <2>4, <3>1, <3>2 DEF RowInv
  <2>5. ASSUME NEW x \in Deleters, del'[x].pc \in Over
        PROVE  del'[x].keys \cap Rows' = {} /\ del'[x].expected = revision' /\ memory'.rev < revision'
    <3>1. x = d
      BY <2>1, <2>3, <2>5
    <3> QED
      BY <1>0, <2>1, <2>2, <2>3, <3>1
  <2>6. ASSUME NEW e \in memory.rows, e \notin Rows'
        PROVE  \E x \in Deleters : del'[x].pc \in Over /\ e \in del'[x].keys
    <3>1. e \in Rows
      BY <2>1, <2>6 DEF RowInv
    <3> QED
      BY <2>1, <2>3, <2>6, <3>1 DEF Over
  <2>7. memory'.rev <= revision'
    BY <1>0, <2>1, <2>2
  <2>8. \A b, c \in Deleters : del'[b].pc \in Over /\ del'[c].pc \in Over => b = c
    BY <2>1, <2>3
  <2> QED
    BY <2>2, <2>4, <2>5, <2>6, <2>7, <2>8 DEF RowInv
<1>4. ASSUME NEW d \in Deleters, Finish(d)
      PROVE  RowInv'
  <2>1. /\ UNCHANGED <<row, revision>> /\ Rows' = Rows /\ del[d].pc \in Over
        /\ memory'.rev = del[d].expected /\ memory'.rows = memory.rows \ del[d].keys
    BY <1>4 DEF Finish, store, Rows, Over
  <2>2. del'[d].pc = "idle" /\ \A x \in Deleters : x # d => del'[x] = del[x]
    BY <1>4, DeleterMoves, IdleType DEF Leaves
  <2>3. del[d].expected = revision /\ memory.rev < revision
    BY <2>1 DEF RowInv
  <2>4. ASSUME NEW x \in Deleters, del'[x].pc \in Over PROVE FALSE
    BY <2>1, <2>2, <2>4 DEF RowInv, Over
  <2>5. ASSUME NEW x \in Deleters, del'[x].pc \in Begun
        PROVE  del'[x].keys \subseteq Rows' /\ del'[x].expected <= memory'.rev
    <3>1. del'[x] = del[x] /\ del[x] \in DelRecord
      BY <2>2, <2>5 DEF Begun, TypeInv
    <3>2. del[x].expected \in Nat /\ del[x].expected <= memory.rev
      BY <2>5, <3>1 DEF RowInv, DelRecord
    <3>3. del[x].expected <= revision
      BY <1>0, <2>3, <3>2
    <3> QED
      BY <2>1, <2>3, <2>5, <3>1, <3>3 DEF RowInv
  <2>6. ASSUME NEW e \in memory'.rows PROVE e \in Rows'
    BY <2>1, <2>6 DEF RowInv
  <2> QED
    BY <1>0, <2>1, <2>3, <2>4, <2>5, <2>6 DEF RowInv
<1>5. CASE Project
  <2>1. UNCHANGED del
    BY <1>5 DEF Project
  <2>2. CASE UNCHANGED <<row, revision, memory>>
    BY <2>1, <2>2 DEF RowInv, Rows
  <2>3. CASE memory.rev = proj.expected /\ revision = proj.expected
    <3>1. /\ row' = [row EXCEPT ![proj.entry] = proj.bundle] /\ revision' = revision + 1
          /\ memory'.rev = revision' /\ memory'.rows = memory.rows \cup {proj.entry}
          /\ proj.bundle # 0 /\ proj.entry \in Entries
      BY <1>5, <2>3 DEF Project, TypeInv
    <3>2. Rows' = Rows \cup {proj.entry}
      BY <3>1 DEF Rows, TypeInv
    <3>3. \A x \in Deleters : del[x].pc \notin Over
      BY <1>0, <2>3 DEF RowInv
    <3>4. ASSUME NEW x \in Deleters, del[x].pc \in Begun PROVE del[x].expected <= memory'.rev
      BY <1>0, <2>3, <3>1, <3>4 DEF RowInv, TypeInv, DelRecord
    <3> QED
      BY <1>0, <2>1, <3>1, <3>2, <3>3, <3>4 DEF RowInv
  <2> QED
    BY <1>5, <2>2, <2>3 DEF Project
<1>6. CASE Crash
  <2>1. memory'.rev = revision /\ memory'.rows = Rows /\ Rows' = Rows /\ UNCHANGED revision
        /\ \A x \in Deleters : del'[x].pc = "idle"
    BY <1>6, IdleType DEF Crash, Rows
  <2> QED
    BY <1>0, <2>1 DEF RowInv, Begun, Over
<1>7. CASE UNCHANGED del /\ UNCHANGED <<row, revision, memory>>
  BY <1>7 DEF RowInv, Rows
<1>8. ASSUME NEW e \in Entries,
             \/ PublishBundle(e) \/ Verify(e) \/ AcquireUploadLease(e) \/ StartUpload(e)
             \/ UploadEnds(e) \/ Reap(e) \/ ReaperGivesUp(e)
      PROVE  UNCHANGED del /\ UNCHANGED <<row, revision, memory>>
  BY <1>8 DEF store, PublishBundle, Verify, AcquireUploadLease, StartUpload, UploadEnds, Reap,
     ReaperGivesUp
<1>9. UNCHANGED vars => UNCHANGED del /\ UNCHANGED <<row, revision, memory>>
  BY DEF vars
<1> QED
  BY <1>1, <1>2, <1>3, <1>4, <1>5, <1>6, <1>7, <1>8, <1>9 DEF Next

-----------------------------------------------------------------------------
(* The third layer: moves into the trash, and leases.                        *)

(* The leases of different operations and of uploads differ. *)
LEMMA LeasesDiffer ==
  /\ Free # UploadLease /\ \A o \in Ops : DeleteLease(o) # Free /\ DeleteLease(o) # UploadLease
  /\ \A o, p \in Ops : DeleteLease(o) = DeleteLease(p) => o = p
BY DEF Free, UploadLease, DeleteLease

(* The trash of an operation is filled by its own deleter only. *)
LEMMA TrashOf ==
  ASSUME TypeInv, OwnInv, [Next]_vars, NEW x \in Deleters, del[x].pc # "idle", NEW e \in Entries,
         trash[del[x].op][e] = 0, ~MoveToTrash(x)
  PROVE  trash'[del[x].op][e] = 0
<1>0. del[x].op \in Ops /\ 0 \in Bundles
  BY AtWork, DeleteAssumption DEF Bundles
<1>1. ASSUME NEW d \in Deleters, MoveToTrash(d) PROVE trash'[del[x].op][e] = 0
  <2>1. /\ del[d].op \in Ops /\ Next1(d) \in Entries /\ dir[Next1(d)] \in Bundles
        /\ del[d].op # del[x].op
    BY <1>1, AtWork, FirstPath DEF MoveToTrash, TypeInv, OwnInv
  <2> QED
    BY <1>0, <1>1, <2>1, TrashSet DEF MoveToTrash
<1>2. ASSUME NEW p \in Ops, NEW f \in Entries, trash' = [trash EXCEPT ![p][f] = 0]
      PROVE  trash'[del[x].op][e] = 0
  BY <1>0, <1>2, TrashSet
<1>3. ASSUME NEW d \in Deleters, RollBack(d) \/ CleanUp(d) PROVE trash'[del[x].op][e] = 0
  BY <1>2, <1>3, AtWork, FirstPath DEF RollBack, CleanUp
<1> QED
  BY <1>1, <1>2, <1>3, Footprint DEF disk, WriteMarker, RestoreOrphan, PublishBundle

(* Nobody takes the leases of a deleter that stages. *)
LEMMA LeaseOf ==
  ASSUME TypeInv, OwnInv, StageInv, [Next]_vars, ~Crash, NEW x \in Deleters, del[x].pc = "stage",
         NEW e \in Entries, e \in del[x].keys
  PROVE  lease'[e] = lease[e]
<1>0. lease[e] = DeleteLease(del[x].op) /\ del[x].op \in Ops
  BY AtWork DEF StageInv, StageOf
<1>1. ASSUME NEW d \in Deleters, AcquireLeases(d) PROVE lease'[e] = lease[e]
  <2>1. e \notin del[d].keys
    BY <1>1 DEF AcquireLeases, OwnInv
  <2> QED
    BY <1>1, <2>1 DEF AcquireLeases, TypeInv
<1>2. ASSUME NEW d \in Deleters, ScanEnds(d) \/ Abort(d) \/ Finalize(d) PROVE lease'[e] = lease[e]
  <2>1. del[d].op \in Ops /\ del[d].op # del[x].op
    BY <1>2, AtWork DEF ScanEnds, Abort, Finalize, OwnInv
  <2>2. lease[e] # DeleteLease(del[d].op)
    BY <1>0, <2>1, LeasesDiffer
  <2> QED
    BY <1>2, <2>2 DEF ScanEnds, Abort, Finalize, Unlease
<1>3. ASSUME NEW f \in Entries, AcquireUploadLease(f) \/ StartUpload(f) \/ Reap(f)
      PROVE  lease'[e] = lease[e]
  <2>1. f # e
    BY <1>0, <1>3, LeasesDiffer DEF AcquireUploadLease, StartUpload, Reap, StageInv
  <2> QED
    BY <1>3, <2>1 DEF AcquireUploadLease, StartUpload, Reap, TypeInv
<1> QED
  BY <1>1, <1>2, <1>3, Footprint

(* A deleter that did not take the step. *)
LEMMA OtherStages ==
  ASSUME TypeInv, OwnInv, StageInv, [Next]_vars, ~Crash, NEW x \in Deleters, del'[x] = del[x],
         ~MoveToTrash(x)
  PROVE  StageOf(x)'
<1>0. StageOf(x) /\ del[x] \in DelRecord
  BY DEF StageInv, TypeInv
<1>1. CASE del[x].pc \in {"busy", "lease"}
  BY <1>0, <1>1, TrashOf DEF StageOf
<1>2. CASE del[x].pc = "stage"
  <2>1. \A i \in 1 .. Len(del[x].todo) : del[x].todo[i] \in Entries
    BY <1>0 DEF DelRecord
  <2>2. \A i \in 1 .. Len(del[x].todo) : trash'[del[x].op][del[x].todo[i]] = 0
    BY <1>0, <1>2, <2>1, TrashOf DEF StageOf
  <2>3. \A e \in del[x].keys : lease'[e] = DeleteLease(del[x].op)
    BY <1>0, <1>2, LeaseOf DEF StageOf, DelRecord
  <2> QED
    BY <1>0, <1>2, <2>2, <2>3 DEF StageOf
<1>3. CASE del[x].pc \notin {"busy", "lease", "stage"}
  BY <1>0, <1>3 DEF StageOf
<1> QED
  BY <1>1, <1>2, <1>3

(* What is left of a list of paths. *)
LEMMA TailPaths ==
  ASSUME NEW S, NEW s, s \in Seq(S), s # <<>>
  PROVE  Tail(s) \in Seq(S)
OBVIOUS

(* The deleter that took it. *)
LEMMA StepStages ==
  ASSUME TypeInv, OwnInv, StageInv, [Next]_vars, NEW d \in Deleters,
         \/ Step(d) /\ ~WriteMarker(d) /\ ~(\E o \in Ops, e \in Entries : RestoreOrphan(d, o, e))
         \/ StageFails(d) \/ CleanupFails(d)
  PROVE  StageOf(d)'
<1>0. StageOf(d) /\ del[d] \in DelRecord /\ del[d].keys \subseteq Entries
      /\ del[d].todo \in Seq(Entries)
  BY DEF StageInv, TypeInv, DelRecord
<1>1. CASE del'[d].pc \notin {"busy", "lease", "stage", "cleanup"}
  BY <1>1 DEF StageOf
<1>2. CASE CheckBusy(d) /\ del'[d].pc # "idle"
  <2>1. del'[d].pc = "lease" /\ del'[d].op = del[d].op /\ del[d].pc = "busy" /\ UNCHANGED trash
    BY <1>2, DeleterMoves, IdleType DEF CheckBusy, Moves, Leaves, disk
  <2> QED
    BY <1>0, <2>1 DEF StageOf
<1>3. CASE AcquireLeases(d) /\ del'[d].pc # "idle"
  <2>1. /\ del'[d].pc = "stage" /\ del'[d].op = del[d].op /\ del'[d].keys = del[d].keys
        /\ del'[d].todo = SetToSeq(del[d].keys) /\ del[d].pc = "lease" /\ UNCHANGED trash
        /\ UNCHANGED claimed
    BY <1>3, DeleterMoves, IdleType DEF AcquireLeases, Moves, Leaves, disk
  <2>2. ~Leave(d)
    BY <1>3, LeavesIdle, IdleType DEF Leaves
  <2>3. \A e \in del[d].keys : lease'[e] = DeleteLease(del[d].op)
    BY <1>0, <1>3, <2>2 DEF AcquireLeases
  <2> DEFINE s == SetToSeq(del[d].keys)
  <2>4. s \in Seq(del[d].keys) /\ \A i, j \in 1 .. Len(s) : s[i] = s[j] => i = j
    BY <1>0, BatchPaths
  <2>5. del'[d].todo = s
    BY <2>1
  <2> HIDE DEF s
  <2>6. \A i \in 1 .. Len(s) : s[i] \in Entries
    BY <1>0, <2>4
  <2>7. \A i \in 1 .. Len(s) : trash[del[d].op][s[i]] = 0
    BY <1>0, <2>1, <2>6 DEF StageOf
  <2> QED
    BY <2>1, <2>3, <2>4, <2>5, <2>7 DEF StageOf
<1>4. CASE MoveToTrash(d)
  <2>1. /\ del'[d].pc = "stage" /\ del'[d].op = del[d].op /\ del'[d].keys = del[d].keys
        /\ del'[d].todo = Tail(del[d].todo) /\ del[d].pc = "stage" /\ UNCHANGED lease
        /\ del[d].todo # <<>>
    BY <1>4, DeleterMoves DEF MoveToTrash, Moves, store
  <2> DEFINE s == del[d].todo
             t == Tail(del[d].todo)
  <2>2. /\ s \in Seq(del[d].keys) /\ s # <<>> /\ t = Tail(s)
        /\ \A i, j \in 1 .. Len(s) : s[i] = s[j] => i = j
        /\ \A i \in 1 .. Len(s) : trash[del[d].op][s[i]] = 0
    BY <1>0, <2>1 DEF StageOf
  <2>3. del'[d].todo = t /\ Next1(d) = s[1]
    BY <2>1, FirstPath
  <2> HIDE DEF s, t
  <2>4. /\ t \in Seq(del[d].keys) /\ Len(t) = Len(s) - 1 /\ Len(s) \in Nat \ {0}
        /\ \A i \in 1 .. Len(t) : t[i] = s[i + 1]
    BY <2>2
  <2>5. \A i, j \in 1 .. Len(t) : t[i] = t[j] => i = j
    BY <2>2, <2>4
  <2>6. \A i \in 1 .. Len(t) : t[i] # s[1] /\ t[i] \in del[d].keys /\ trash[del[d].op][t[i]] = 0
    BY <2>2, <2>4
  <2>7. del[d].op \in Ops /\ Next1(d) \in Entries /\ dir[Next1(d)] \in Bundles
    BY <1>4, AtWork, FirstPath DEF MoveToTrash, TypeInv
  <2>8. \A i \in 1 .. Len(t) : trash'[del[d].op][t[i]] = 0
    BY <1>0, <1>4, <2>3, <2>6, <2>7, TrashSet DEF MoveToTrash
  <2> QED
    BY <1>0, <2>1, <2>3, <2>4, <2>5, <2>8 DEF StageOf
<1>5. CASE Commit(d) /\ del'[d].pc = "cleanup"
  <2>1. del'[d].keys = del[d].keys /\ del'[d].todo = SetToSeq(del[d].keys)
    BY <1>5, DeleterMoves DEF Moves
  <2>2. SetToSeq(del[d].keys) \in Seq(del[d].keys)
    BY <1>0, BatchPaths
  <2> QED
    BY <1>5, <2>1, <2>2 DEF StageOf
<1>6. CASE CleanUp(d)
  <2>1. /\ del'[d].pc = "cleanup" /\ del'[d].keys = del[d].keys
        /\ del'[d].todo = Tail(del[d].todo) /\ del[d].pc = "cleanup" /\ del[d].todo # <<>>
    BY <1>6, DeleterMoves DEF CleanUp, Moves
  <2>2. Tail(del[d].todo) \in Seq(del[d].keys)
    <3>1. del[d].todo \in Seq(del[d].keys)
      BY <1>0, <2>1 DEF StageOf
    <3> QED
      BY <2>1, <3>1, TailPaths
  <2> QED
    BY <2>1, <2>2 DEF StageOf
<1>7. CASE \/ StageFails(d) \/ ScanStarts(d) \/ StageEnds(d) \/ RecordIntents(d) \/ RollBack(d)
           \/ CleanupFails(d) \/ Finalize(d) \/ ScanEnds(d) \/ Abort(d) \/ Finish(d)
  <2>1. del'[d].pc \notin {"busy", "lease", "stage", "cleanup"}
    BY <1>7, DeleterMoves, IdleType DEF Moves, Leaves
  <2> QED
    BY <1>1, <2>1
<1>8. CASE Commit(d) /\ del'[d].pc # "cleanup"
  <2>1. del'[d].pc = "rollback"
    BY <1>8, DeleterMoves DEF Moves
  <2> QED
    BY <1>1, <2>1
<1>9. CASE del'[d].pc = "idle"
  BY <1>1, <1>9
<1> QED
  BY <1>2, <1>3, <1>4, <1>5, <1>6, <1>7, <1>8, <1>9 DEF Step

(* The leases of the uploads stay theirs. *)
LEMMA UploadLeases ==
  ASSUME TypeInv, OwnInv, StageInv, [Next]_vars, NEW e \in uploading' \cup reaper'
  PROVE  lease'[e] = UploadLease
<1>0. e \in Entries /\ \A f \in uploading \cup reaper : lease[f] = UploadLease
  BY TypeStep DEF TypeInv, StageInv
<1>1. ~Crash
  BY DEF Crash
<1>2. ASSUME NEW d \in Deleters, AcquireLeases(d) \/ ScanEnds(d) \/ Abort(d) \/ Finalize(d)
      PROVE  lease'[e] = UploadLease
  <2>1. UNCHANGED <<uploading, reaper>> /\ del[d].op \in Ops
    BY <1>2, AtWork DEF AcquireLeases, ScanEnds, Abort, Finalize
  <2>2. lease[e] = UploadLease /\ UploadLease # Free /\ UploadLease # DeleteLease(del[d].op)
    BY <1>0, <2>1, LeasesDiffer
  <2> QED
    BY <1>0, <1>2, <2>2 DEF AcquireLeases, ScanEnds, Abort, Finalize, Unlease
<1>3. ASSUME NEW f \in Entries, AcquireUploadLease(f)
      PROVE  lease'[e] = UploadLease
  BY <1>0, <1>3 DEF AcquireUploadLease, TypeInv
<1>4. ASSUME NEW f \in Entries, StartUpload(f)
      PROVE  lease'[e] = UploadLease
  BY <1>0, <1>4 DEF StartUpload, TypeInv
<1>5. ASSUME NEW f \in Entries, Reap(f)
      PROVE  lease'[e] = UploadLease
  BY <1>0, <1>5 DEF Reap, TypeInv
<1>6. ASSUME NEW f \in Entries, UploadEnds(f) \/ ReaperGivesUp(f)
      PROVE  UNCHANGED lease /\ e \in uploading \cup reaper
  BY <1>6 DEF UploadEnds, ReaperGivesUp, store
<1> QED
  BY <1>0, <1>1, <1>2, <1>3, <1>4, <1>5, <1>6, Footprint

(* Every step keeps the account of what each deleter has staged and *)
(* recorded.                                                        *)
LEMMA StageStep ==
  ASSUME TypeInv, OwnInv, StageInv, [Next]_vars
  PROVE  StageInv'
<1>1. ASSUME NEW x \in Deleters PROVE StageOf(x)'
  <2>1. CASE Crash
    BY <2>1, IdleType DEF Crash, StageOf
  <2>2. ASSUME NEW d \in Deleters, NEW K \in SUBSET Entries, Claim(d, K)
        PROVE  StageOf(x)'
    <3>1. CASE x = d
      <4>1. /\ del'[d].pc = "busy" /\ del'[d].op = NewOp /\ NewOp \in Ops /\ UNCHANGED trash
        BY <2>2, ClaimMoves DEF Claim, disk
      <4>2. \A e \in Entries : trash[NewOp][e] = 0
        BY <4>1, DeleteAssumption DEF OwnInv, Ops
      <4> QED
        BY <3>1, <4>1, <4>2 DEF StageOf
    <3>2. CASE x # d
      <4>1. del'[x] = del[x] /\ ~Crash
        BY <2>2, <3>2, ClaimMoves, IdleType DEF Crash
      <4>2. ~MoveToTrash(x)
        <5>1. del'[d].pc = "busy" /\ del[d].pc = "idle"
          BY <2>2, ClaimMoves
        <5>2. MoveToTrash(x) => del'[d] = del[d]
          BY <3>2, DeleterMoves DEF Moves
        <5> QED
          BY <5>1, <5>2
      <4> QED
        BY <4>1, <4>2, OtherStages
    <3> QED
      BY <3>1, <3>2
  <2>3. ASSUME NEW d \in Deleters, ~Crash,
               \/ Step(d) /\ ~WriteMarker(d)
                  /\ ~(\E o \in Ops, e \in Entries : RestoreOrphan(d, o, e))
               \/ StageFails(d) \/ CleanupFails(d)
        PROVE  StageOf(x)'
    <3>1. CASE x = d
      BY <2>3, <3>1, StepStages
    <3>2. CASE MoveToTrash(x)
      BY <3>2, StepStages DEF Step, MoveToTrash, WriteMarker, RestoreOrphan
    <3>3. CASE x # d /\ ~MoveToTrash(x)
      <4>1. del'[x] = del[x]
        BY <2>3, <3>3, DeleterMoves DEF Step, Moves, Leaves
      <4> QED
        BY <2>3, <3>3, <4>1, OtherStages
    <3> QED
      BY <3>1, <3>2, <3>3
  <2>4. CASE UNCHANGED del /\ ~Crash /\ ~MoveToTrash(x)
    BY <2>4, OtherStages
  <2>5. CASE MoveToTrash(x)
    BY <2>5, StepStages DEF Step, MoveToTrash, WriteMarker, RestoreOrphan
  <2> QED
    BY <2>1, <2>2, <2>3, <2>4, <2>5, DeletersMove
<1> QED
  BY <1>1, UploadLeases DEF StageInv

-----------------------------------------------------------------------------
(* The fourth layer: files.                                                  *)

(* Files go only when a committed deletion cleans its trash. *)
LEMMA FilesKept ==
  ASSUME TypeInv, OwnInv, StageInv, [Next]_vars, NEW e \in Entries, Kept(e), ~Kept(e)'
  PROVE  \E d \in Deleters : CleanUp(d) /\ e = Next1(d)
<1>0. 0 \in Bundles /\ dir' \in [Entries -> Bundles] /\ trash' \in [Ops -> [Entries -> Bundles]]
  BY DiskType, DeleteAssumption DEF Bundles
<1>1. ~UNCHANGED <<dir, trash>>
  BY DEF Kept
<1>2. ASSUME NEW o \in Ops, NEW f \in Entries, dir[f] = 0,
             dir' = [dir EXCEPT ![f] = trash[o][f]], trash' = [trash EXCEPT ![o][f] = 0]
      PROVE  FALSE
  <2>1. CASE e # f
    BY <1>0, <1>2, <2>1, TrashSet DEF Kept, TypeInv
  <2>2. CASE e = f
    <3>1. dir'[e] = trash[o][e] /\ \A p \in Ops : p # o => trash'[p][e] = trash[p][e]
      BY <1>0, <1>2, <2>2, TrashSet DEF TypeInv
    <3> QED
      BY <1>2, <2>2, <3>1 DEF Kept
  <2> QED
    BY <2>1, <2>2
<1>3. ASSUME NEW d \in Deleters, MoveToTrash(d) PROVE FALSE
  <2>1. del[d].op \in Ops /\ Next1(d) \in Entries /\ dir[Next1(d)] \in Bundles
    BY <1>3, AtWork, FirstPath DEF MoveToTrash, TypeInv
  <2>2. trash[del[d].op][Next1(d)] = 0
    BY <1>3, FirstPath DEF MoveToTrash, StageInv, StageOf
  <2>3. CASE e # Next1(d)
    BY <1>3, <2>1, <2>3, TrashSet DEF MoveToTrash, Kept, TypeInv
  <2>4. CASE e = Next1(d)
    <3>1. trash'[del[d].op][e] = dir[e]
          /\ \A p \in Ops : p # del[d].op => trash'[p][e] = trash[p][e]
      BY <1>3, <2>1, <2>4, TrashSet DEF MoveToTrash
    <3> QED
      BY <2>1, <2>2, <2>4, <3>1 DEF Kept
  <2> QED
    BY <2>3, <2>4
<1>4. ASSUME NEW d \in Deleters, RollBack(d) PROVE FALSE
  BY <1>1, <1>2, <1>4, AtWork, FirstPath DEF RollBack
<1>5. ASSUME NEW d \in Deleters, NEW o \in Ops, NEW f \in Entries, RestoreOrphan(d, o, f)
      PROVE  FALSE
  BY <1>1, <1>2, <1>5 DEF RestoreOrphan
<1>6. ASSUME NEW f \in Entries, PublishBundle(f) PROVE FALSE
  <2>1. NewBundle # 0
    BY <1>6, DeleteAssumption DEF PublishBundle, Spend, NewBundle, TypeInv, BudgetType
  <2> QED
    BY <1>6, <2>1 DEF PublishBundle, Kept, TypeInv
<1>7. ASSUME NEW d \in Deleters, CleanUp(d) PROVE e = Next1(d)
  <2>1. del[d].op \in Ops /\ Next1(d) \in Entries
    BY <1>7, AtWork, FirstPath DEF CleanUp
  <2> QED
    BY <1>0, <1>7, <2>1, TrashSet DEF CleanUp, Kept
<1> QED
  BY <1>1, <1>3, <1>4, <1>5, <1>6, <1>7, Footprint DEF disk, WriteMarker

(* Every step keeps each row's files in place or in a trash that will be *)
(* restored.                                                             *)
LEMMA FileStep ==
  ASSUME TypeInv, OwnInv, RowInv, StageInv, FileInv, [Next]_vars
  PROVE  FileInv'
<1>0. /\ revision \in Nat /\ memory.rev \in Nat /\ memory.rev <= revision
      /\ proj # NoProjection => proj.expected \in Nat /\ proj.entry \in Entries
  BY DEF TypeInv, RowInv
<1>1. ASSUME NEW d \in Deleters, CleanUp(d)
      PROVE  /\ Next1(d) \notin Rows
             /\ proj # NoProjection => proj.expected < revision
             /\ UNCHANGED <<row, revision, memory, proj>>
  <2>1. del[d].pc = "cleanup" /\ del[d].todo # <<>> /\ UNCHANGED <<row, revision, memory, proj>>
    BY <1>1 DEF CleanUp, store
  <2>2. del[d].todo \in Seq(del[d].keys)
    BY <2>1 DEF StageInv, StageOf
  <2>3. Next1(d) \in del[d].keys
    BY <2>1, <2>2 DEF Next1
  <2>4. del[d].keys \cap Rows = {} /\ memory.rev < revision
    BY <2>1 DEF RowInv, Over
  <2>5. proj # NoProjection => proj.expected <= memory.rev
    BY DEF FileInv
  <2> QED
    BY <1>0, <2>1, <2>3, <2>4, <2>5
<1>2. memory'.rev >= memory.rev /\ memory'.rev \in Nat /\ revision' \in Nat /\ revision' >= revision
  <2>1. memory'.rev \in Nat /\ revision' \in Nat
    BY TypeStep DEF TypeInv
  <2>2. ASSUME NEW d \in Deleters, Finish(d) PROVE memory'.rev >= memory.rev
    <3>1. memory'.rev = del[d].expected /\ del[d].pc = "finish"
      BY <2>2 DEF Finish
    <3> QED
      BY <1>0, <3>1 DEF RowInv, Over
  <2>3. ASSUME NEW d \in Deleters, Commit(d) PROVE revision' >= revision
    BY <1>0, <2>3 DEF Commit
  <2>4. CASE Project
    <3>1. \/ UNCHANGED <<revision, memory>>
          \/ revision' = revision + 1 /\ memory'.rev = revision'
      BY <2>4 DEF Project
    <3> QED
      BY <1>0, <3>1
  <2>5. CASE Crash
    BY <1>0, <2>5 DEF Crash
  <2>6. memory'.rev >= memory.rev
    BY <1>0, <2>2, <2>4, <2>5, Footprint
  <2>7. revision' >= revision
    BY <1>0, <2>3, <2>4, <2>5, Footprint
  <2> QED
    BY <2>1, <2>6, <2>7
<1>3. ASSUME NEW e \in Rows' PROVE Kept(e)'
  <2>1. e \in Entries /\ row'[e] # 0
    BY DEF Rows
  <2>2. CASE row[e] # 0
    <3>1. Kept(e) /\ e \in Rows
      BY <2>1, <2>2 DEF FileInv, NoFilesLost, Kept, Rows
    <3> QED
      BY <1>1, <2>1, <3>1, FilesKept
  <2>3. CASE row[e] = 0
    <3>1. Project
      <4>1. ASSUME NEW d \in Deleters, Commit(d) PROVE row'[e] = row[e] \/ row'[e] = 0
        BY <2>1, <4>1 DEF Commit
      <4> QED
        BY <2>1, <2>3, <4>1, Footprint
    <3>2. proj # NoProjection /\ e = proj.entry /\ revision = proj.expected /\ UNCHANGED disk
      BY <2>1, <2>3, <3>1 DEF Project, TypeInv
    <3> QED
      BY <3>2 DEF FileInv, Kept, disk
  <2> QED
    BY <2>2, <2>3
<1>4. ASSUME proj' # NoProjection
      PROVE  proj'.expected <= memory'.rev /\ (\A f : f = proj'.entry /\ revision' = proj'.expected => Kept(f)')
  <2>1. ASSUME NEW e \in Entries, Verify(e)
        PROVE  proj'.expected <= memory'.rev /\ (\A f : f = proj'.entry /\ revision' = proj'.expected => Kept(f)')
    <3>1. proj'.expected = memory.rev /\ proj'.entry = e /\ dir'[e] # 0 /\ UNCHANGED memory
      BY <2>1 DEF Verify, disk
    <3> QED
      BY <1>0, <3>1 DEF Kept
  <2>2. CASE UNCHANGED proj
    <3>1. proj # NoProjection /\ proj.expected <= memory.rev /\ proj.expected <= memory'.rev
          /\ proj.expected <= revision
      BY <1>0, <1>2, <1>4, <2>2 DEF FileInv
    <3>2. ASSUME NEW f, f = proj.entry, revision' = proj.expected PROVE Kept(f)'
      <4>1. revision = proj.expected /\ Kept(f) /\ f \in Entries
        BY <1>0, <1>2, <3>1, <3>2 DEF FileInv
      <4>2. ~\E d \in Deleters : CleanUp(d)
        BY <1>0, <1>1, <3>1, <4>1
      <4> QED
        BY <4>1, <4>2, FilesKept
    <3> QED
      BY <2>2, <3>1, <3>2
  <2>3. UNCHANGED proj \/ \E e \in Entries : Verify(e)
    BY <1>4, Footprint DEF Project, Crash
  <2> QED
    BY <2>1, <2>2, <2>3
<1> QED
  BY <1>3, <1>4 DEF FileInv, NoFilesLost, Kept

-----------------------------------------------------------------------------
(* The invariant holds at the start. *)
LEMMA DeleteInit == Init => DeleteInv
<1> SUFFICES ASSUME Init PROVE DeleteInv
  OBVIOUS
<1>1. budget \in BudgetType /\ Cardinality(Entries) <= MaxBundles
      /\ Cardinality(Entries) \in Nat /\ MaxBundles \in Nat /\ MaxDeletes \in Nat
  <2>1. /\ budget \in [deleters : SUBSET Deleters, deletes : 0 .. MaxDeletes,
                       bundles : 0 .. MaxBundles - Cardinality(Entries), uploads : Nat,
                       faults : Nat, crashes : Nat]
        /\ IsFiniteSet(Entries) /\ MaxBundles \in Nat /\ MaxDeletes \in Nat
    BY DeleteAssumption DEF Init
  <2>2. Cardinality(Entries) \in Nat
    BY <2>1, FS_CardinalityType
  <2> QED
    BY <2>1, <2>2 DEF BudgetType
<1>2. /\ dir \in [Entries -> Bundles] /\ row \in [Entries -> Bundles]
      /\ \A e \in Entries : dir[e] # 0 /\ row[e] # 0
  BY <1>1 DEF Init, Bundles
<1>3. TypeInv
  <2>1. del \in [Deleters -> DelRecord]
    BY IdleType DEF Init
  <2>2. trash \in [Ops -> [Entries -> Bundles]]
    BY <1>1 DEF Init, Bundles
  <2> QED
    BY <1>1, <1>2, <2>1, <2>2 DEF Init, TypeInv
<1>4. \A d \in Deleters : del[d].pc = "idle"
  BY IdleType DEF Init
<1>5. OwnInv
  BY <1>4 DEF Init, OwnInv
<1>6. RowInv
  <2>1. Rows = Entries /\ memory.rev = 0 /\ revision = 0 /\ memory.rows = Entries
    BY <1>2 DEF Init, Rows
  <2> QED
    BY <1>4, <2>1 DEF RowInv, Begun, Over
<1>7. StageInv
  BY <1>4 DEF Init, StageInv, StageOf
<1>8. FileInv
  BY <1>2 DEF Init, FileInv, NoFilesLost, Rows
<1> QED
  BY <1>3, <1>5, <1>6, <1>7, <1>8 DEF DeleteInv

(* The inductive invariant of the deletions. *)
THEOREM DeleteInvariant == Spec => []DeleteInv
<1>1. DeleteInv /\ [Next]_vars => DeleteInv'
  BY TypeStep, OwnStep, RowStep, StageStep, FileStep DEF DeleteInv
<1> QED
  BY <1>1, DeleteInit, PTL DEF Spec

(* No library row outlives its files, whatever threads delete, download,     *)
(* project and crash in between: the revision that a commit moves keeps out  *)
(* every projection that was verified before it (delete_entries,             *)
(* commit_library_delete_if_revision, apply_download_completion).            *)
THEOREM RowsKeepTheirFiles == Spec => []NoFilesLost
<1>1. DeleteInv => NoFilesLost
  BY DEF DeleteInv, FileInv
<1> QED
  BY <1>1, DeleteInvariant, PTL

(* The visible directory of an entry is emptied by the deleter that holds    *)
(* its lease only.                                                           *)
LEMMA UploadUndisturbed ==
  ASSUME DeleteInv, [Next]_vars, NEW e \in uploading, dir[e] # 0
  PROVE  dir'[e] # 0
<1>0. TypeInv /\ OwnInv /\ StageInv /\ e \in Entries /\ lease[e] = UploadLease
  BY DEF DeleteInv, TypeInv, StageInv
<1>1. ASSUME NEW d \in Deleters, MoveToTrash(d) PROVE dir'[e] = dir[e]
  <2>1. /\ del[d].pc = "stage" /\ del[d].todo # <<>> /\ Next1(d) = del[d].todo[1]
        /\ Len(del[d].todo) \in Nat \ {0} /\ del[d].op \in Ops
    BY <1>0, <1>1, FirstPath, AtWork DEF MoveToTrash
  <2>2. del[d].todo \in Seq(del[d].keys) /\ \A f \in del[d].keys : lease[f] = DeleteLease(del[d].op)
    BY <1>0, <2>1 DEF StageInv, StageOf
  <2>3. Next1(d) \in del[d].keys
    BY <2>1, <2>2
  <2>4. Next1(d) # e
    BY <1>0, <2>1, <2>2, <2>3, LeasesDiffer
  <2> QED
    BY <1>0, <1>1, <2>4 DEF MoveToTrash, TypeInv
<1>2. ASSUME NEW o \in Ops, NEW f \in Entries, trash[o][f] # 0,
             dir' = [dir EXCEPT ![f] = trash[o][f]]
      PROVE  dir'[e] # 0
  BY <1>0, <1>2 DEF TypeInv
<1>3. ASSUME NEW d \in Deleters, RollBack(d) PROVE dir'[e] # 0
  BY <1>0, <1>2, <1>3, AtWork, FirstPath DEF RollBack
<1>4. ASSUME NEW d \in Deleters, NEW o \in Ops, NEW f \in Entries, RestoreOrphan(d, o, f)
      PROVE  dir'[e] # 0
  BY <1>2, <1>4 DEF RestoreOrphan
<1>5. ASSUME NEW f \in Entries, PublishBundle(f) PROVE dir'[e] # 0
  <2>1. NewBundle # 0
    BY <1>0, <1>5, DeleteAssumption DEF PublishBundle, Spend, NewBundle, TypeInv, BudgetType
  <2> QED
    BY <1>0, <1>5, <2>1 DEF PublishBundle, TypeInv
<1> QED
  BY <1>1, <1>3, <1>4, <1>5, Footprint DEF disk, WriteMarker, CleanUp

(* The files of an open upload are never moved away: leases keep uploads and *)
(* deletions apart although neither checks the other again after taking its  *)
(* own (acquire_operation_leases, stage_entries).                            *)
THEOREM UploadsKeepTheirFiles == Spec => UploadKeepsFiles
<1>1. DeleteInv /\ [Next]_vars => [\A e \in uploading : dir[e] # 0 => dir'[e] # 0]_vars
  BY UploadUndisturbed
<1> QED
  BY <1>1, DeleteInvariant, PTL DEF Spec, UploadKeepsFiles

-----------------------------------------------------------------------------
(* What was committed stays away, except for a scan that races the commit.   *)

(* Every bundle is in one place: visible, or in the trash of one operation. *)
PlaceInv ==
    \A e \in Entries :
      /\ dir[e] < NewBundle
      /\ \A o \in Ops : /\ trash[o][e] < NewBundle
                        /\ trash[o][e] # 0 => dir[e] # trash[o][e]
                        /\ \A p \in Ops : trash[o][e] # 0 /\ trash[p][e] = trash[o][e] => p = o

(* An operation with a committed intent is one that was begun, and its       *)
(* thread, if there still is one, is past the commit.                        *)
CommitInv ==
    \A o \in Ops, e \in Entries : intent[o][e] = "committed" =>
      /\ o < NewOp
      /\ \A d \in Deleters : del[d].pc # "idle" /\ del[d].op = o => del[d].pc \in Over

(* Bundles are numbered as they are published. *)
LEMMA Numbered ==
  ASSUME TypeInv, [Next]_vars
  PROVE  /\ NewBundle \in Nat /\ NewBundle # 0
         /\ \A e \in Entries : PublishBundle(e) => NewBundle' = NewBundle + 1
         /\ (~\E e \in Entries : PublishBundle(e)) => NewBundle' = NewBundle
<1>1. MaxBundles \in Nat /\ budget \in BudgetType /\ budget.bundles \in 0 .. MaxBundles
  BY DeleteAssumption DEF TypeInv, BudgetType
<1>2. NewBundle \in Nat /\ NewBundle # 0
  BY <1>1 DEF NewBundle
<1>3. ASSUME NEW e \in Entries, PublishBundle(e) PROVE NewBundle' = NewBundle + 1
  <2>1. budget'.bundles = budget.bundles - 1
    BY <1>1, <1>3 DEF PublishBundle, Spend, BudgetType
  <2> QED
    BY <1>1, <2>1 DEF NewBundle
<1>4. ASSUME NEW what \in {"deletes", "uploads", "faults", "crashes"}, Spend(what)
      PROVE  budget'.bundles = budget.bundles
  BY <1>1, <1>4 DEF Spend, BudgetType
<1>5. (~\E e \in Entries : PublishBundle(e)) => NewBundle' = NewBundle
  BY <1>4, Footprint DEF NewBundle, Claim
<1> QED
  BY <1>2, <1>3, <1>5

(* A bundle that moves between a directory and a trash is in one place.      *)
LEMMA PlaceMoved ==
  ASSUME TypeInv, PlaceInv, NewBundle' = NewBundle, NewBundle \in Nat, NewBundle # 0,
         NEW o \in Ops, NEW e \in Entries, NEW b \in Bundles, NEW v \in Bundles,
         trash' = [trash EXCEPT ![o][e] = b], dir' = [dir EXCEPT ![e] = v],
         \/ b = 0 /\ v \in {dir[e], trash[o][e]}
         \/ v = 0 /\ b = dir[e]
  PROVE  PlaceInv'
<1>1. /\ trash'[o][e] = b
      /\ \A p \in Ops, f \in Entries : (p # o \/ f # e) => trash'[p][f] = trash[p][f]
  BY TrashSet
<1>2. dir'[e] = v /\ \A f \in Entries : f # e => dir'[f] = dir[f]
  BY DEF TypeInv
<1>3. /\ dir[e] < NewBundle /\ trash[o][e] < NewBundle /\ 0 < NewBundle
      /\ \A p \in Ops : /\ trash[p][e] < NewBundle
                        /\ trash[p][e] # 0 => dir[e] # trash[p][e]
                        /\ p # o /\ trash[p][e] # 0 => trash[p][e] # trash[o][e]
                        /\ \A q \in Ops : trash[p][e] # 0 /\ trash[q][e] = trash[p][e] => q = p
  BY DEF PlaceInv
<1>4. ASSUME NEW f \in Entries, f # e
      PROVE  /\ dir'[f] < NewBundle'
             /\ \A p \in Ops : /\ trash'[p][f] < NewBundle'
                               /\ trash'[p][f] # 0 => dir'[f] # trash'[p][f]
                               /\ \A q \in Ops : trash'[p][f] # 0 /\ trash'[q][f] = trash'[p][f] => q = p
  BY <1>1, <1>2, <1>4 DEF PlaceInv
<1>5. /\ dir'[e] < NewBundle'
      /\ \A p \in Ops : /\ trash'[p][e] < NewBundle'
                        /\ trash'[p][e] # 0 => dir'[e] # trash'[p][e]
                        /\ \A q \in Ops : trash'[p][e] # 0 /\ trash'[q][e] = trash'[p][e] => q = p
  <2>1. dir'[e] < NewBundle' /\ \A p \in Ops : trash'[p][e] < NewBundle'
    BY <1>1, <1>2, <1>3
  <2>2. ASSUME NEW p \in Ops, trash'[p][e] # 0 PROVE dir'[e] # trash'[p][e]
    BY <1>1, <1>2, <1>3, <2>2
  <2>3. ASSUME NEW p \in Ops, NEW q \in Ops, trash'[p][e] # 0, trash'[q][e] = trash'[p][e]
        PROVE  q = p
    BY <1>1, <1>2, <1>3, <2>3
  <2> QED
    BY <2>1, <2>2, <2>3
<1> QED
  BY <1>4, <1>5 DEF PlaceInv

(* Every step keeps the bundles apart. *)
LEMMA PlaceStep ==
  ASSUME TypeInv, OwnInv, PlaceInv, [Next]_vars
  PROVE  PlaceInv'
<1>0. 0 \in Bundles /\ NewBundle \in Nat /\ NewBundle # 0
  BY Numbered, DeleteAssumption DEF Bundles
<1>1. ASSUME NEW e \in Entries, PublishBundle(e) PROVE PlaceInv'
  <2>1. /\ NewBundle' = NewBundle + 1 /\ trash' = trash /\ dir'[e] = NewBundle
        /\ \A f \in Entries : f # e => dir'[f] = dir[f]
    BY <1>1, Numbered DEF PublishBundle, TypeInv
  <2>2. /\ \A f \in Entries : dir[f] \in Nat /\ dir[f] < NewBundle
        /\ \A o \in Ops, f \in Entries : trash[o][f] \in Nat /\ trash[o][f] < NewBundle
    BY DeleteAssumption DEF PlaceInv, TypeInv, Bundles
  <2>3. \A f \in Entries : dir'[f] < NewBundle' /\ \A o \in Ops : trash'[o][f] < NewBundle'
    BY <1>0, <2>1, <2>2
  <2>4. \A f \in Entries, o \in Ops : trash'[o][f] # 0 => dir'[f] # trash'[o][f]
    BY <1>0, <2>1, <2>2 DEF PlaceInv
  <2>5. \A f \in Entries, o \in Ops, p \in Ops : trash'[o][f] # 0 /\ trash'[p][f] = trash'[o][f] => p = o
    BY <2>1 DEF PlaceInv
  <2> QED
    BY <2>3, <2>4, <2>5 DEF PlaceInv
<1>2. CASE ~\E e \in Entries : PublishBundle(e)
  <2>0. NewBundle' = NewBundle
    BY <1>2, Numbered
  <2>1. CASE UNCHANGED <<dir, trash>>
    BY <2>0, <2>1 DEF PlaceInv
  <2>2. ASSUME NEW d \in Deleters, MoveToTrash(d) PROVE PlaceInv'
    <3>1. del[d].op \in Ops /\ Next1(d) \in Entries /\ dir[Next1(d)] \in Bundles
      BY <2>2, AtWork, FirstPath DEF MoveToTrash, TypeInv
    <3> QED
      BY <1>0, <2>0, <2>2, <3>1, PlaceMoved DEF MoveToTrash
  <2>3. ASSUME NEW o \in Ops, NEW e \in Entries, dir' = [dir EXCEPT ![e] = trash[o][e]],
               trash' = [trash EXCEPT ![o][e] = 0]
        PROVE  PlaceInv'
    <3>1. trash[o][e] \in Bundles
      BY DEF TypeInv
    <3> QED
      BY <1>0, <2>0, <2>3, <3>1, PlaceMoved
  <2>4. ASSUME NEW d \in Deleters, RollBack(d), ~UNCHANGED <<dir, trash>> PROVE PlaceInv'
    <3>1. del[d].op \in Ops /\ Next1(d) \in Entries
      BY <2>4, AtWork, FirstPath DEF RollBack
    <3> QED
      BY <2>3, <2>4, <3>1 DEF RollBack
  <2>5. ASSUME NEW d \in Deleters, NEW o \in Ops, NEW e \in Entries, RestoreOrphan(d, o, e),
               ~UNCHANGED <<dir, trash>>
        PROVE PlaceInv'
    BY <2>3, <2>5 DEF RestoreOrphan
  <2>6. ASSUME NEW d \in Deleters, CleanUp(d) PROVE PlaceInv'
    <3>1. del[d].op \in Ops /\ Next1(d) \in Entries /\ dir[Next1(d)] \in Bundles
      BY <2>6, AtWork, FirstPath DEF CleanUp, TypeInv
    <3>2. dir' = [dir EXCEPT ![Next1(d)] = dir[Next1(d)]]
      BY <2>6 DEF CleanUp, TypeInv
    <3> QED
      BY <1>0, <2>0, <2>6, <3>1, <3>2, PlaceMoved DEF CleanUp
  <2> QED
    BY <1>2, <2>1, <2>2, <2>4, <2>5, <2>6, Footprint DEF disk, WriteMarker
<1> QED
  BY <1>1, <1>2

(* Only a commit makes an intent a committed one. *)
LEMMA CommittedBy ==
  ASSUME TypeInv, OwnInv, [Next]_vars, NEW o \in Ops, NEW e \in Entries,
         intent'[o][e] = "committed", intent[o][e] # "committed"
  PROVE  \E d \in Deleters : Commit(d) /\ revision = del[d].expected /\ del[d].op = o
<1>1. ASSUME NEW d \in Deleters, RecordIntents(d) PROVE FALSE
  <2>1. del[d].op \in Ops
    BY <1>1, AtWork DEF RecordIntents
  <2> DEFINE t == [f \in Entries |-> IF f \in del[d].keys THEN "staged" ELSE "none"]
  <2>2. intent' = intent \/ intent' = [intent EXCEPT ![del[d].op] = t]
    BY <1>1 DEF RecordIntents
  <2>3. t[e] # "committed"
    OBVIOUS
  <2> HIDE DEF t
  <2> QED
    BY <2>1, <2>2, <2>3 DEF TypeInv
<1>2. ASSUME NEW d \in Deleters, Abort(d) \/ Finalize(d) PROVE FALSE
  <2>1. del[d].op \in Ops
    BY <1>2, AtWork DEF Abort, Finalize
  <2> DEFINE t(s) == [f \in Entries |-> IF intent[del[d].op][f] = s THEN "none" ELSE intent[del[d].op][f]]
  <2>2. \/ intent' = intent
        \/ intent' = [intent EXCEPT ![del[d].op] = t("staged")]
        \/ intent' = [intent EXCEPT ![del[d].op] = t("committed")]
    BY <1>2 DEF Abort, Finalize
  <2>3. /\ t("staged")[e] \in {"none", intent[del[d].op][e]}
        /\ t("committed")[e] \in {"none", intent[del[d].op][e]}
    OBVIOUS
  <2> HIDE DEF t
  <2> QED
    BY <2>1, <2>2, <2>3 DEF TypeInv
<1>3. ASSUME NEW d \in Deleters, Commit(d) PROVE revision = del[d].expected /\ del[d].op = o
  <2>1. del[d].op \in Ops
    BY <1>3, AtWork DEF Commit
  <2> QED
    BY <1>3, <2>1 DEF Commit, TypeInv
<1> QED
  BY <1>1, <1>2, <1>3, Footprint

(* A thread past its commit stays there until it leaves, and only a claim    *)
(* begins an operation.                                                      *)
LEMMA PastCommit ==
  ASSUME TypeInv, [Next]_vars, NEW x \in Deleters
  PROVE  \/ del'[x].pc = "idle"
         \/ /\ del[x].pc # "idle" /\ del'[x].op = del[x].op
            /\ del[x].pc \in Over => del'[x].pc \in Over
         \/ \E K \in SUBSET Entries : Claim(x, K)
<1>1. CASE UNCHANGED <<del, claimed>>
  BY <1>1
<1>2. CASE Crash
  BY <1>2, IdleType DEF Crash
<1>3. ASSUME NEW d \in Deleters, NEW K \in SUBSET Entries, Claim(d, K), d # x PROVE del'[x] = del[x]
  BY <1>3, ClaimMoves
<1>4. ASSUME NEW d \in Deleters, \/ Step(d) /\ ~WriteMarker(d)
                                    /\ ~(\E o \in Ops, e \in Entries : RestoreOrphan(d, o, e))
                                 \/ StageFails(d) \/ CleanupFails(d)
      PROVE  \/ del'[x].pc = "idle"
             \/ /\ del[x].pc # "idle" /\ del'[x].op = del[x].op
                /\ del[x].pc \in Over => del'[x].pc \in Over
  <2>1. CASE d # x
    <3>1. del'[x] = del[x]
      BY <1>4, <2>1, DeleterMoves DEF Step, Moves, Leaves
    <3> QED
      BY <3>1
  <2>2. CASE d = x /\ (CleanUp(d) \/ CleanupFails(d) \/ Finalize(d))
    BY <2>2, DeleterMoves DEF Moves, Over, CleanUp, CleanupFails, Finalize
  <2>3. CASE d = x /\ (ScanEnds(d) \/ Abort(d) \/ Finish(d))
    BY <2>3, DeleterMoves, IdleType DEF Leaves
  <2>4. CASE /\ d = x
             /\ \/ CheckBusy(d) \/ AcquireLeases(d) \/ MoveToTrash(d) \/ StageEnds(d) \/ ScanStarts(d)
                \/ StageFails(d) \/ RecordIntents(d) \/ Commit(d) \/ RollBack(d)
    <3>1. del[d].pc \notin Over \cup {"idle"}
      BY <2>4 DEF Over, CheckBusy, AcquireLeases, MoveToTrash, StageEnds, ScanStarts, StageFails,
                  RecordIntents, Commit, RollBack
    <3>2. del'[d].pc = "idle" \/ del'[d].op = del[d].op
      BY <2>4, DeleterMoves, IdleType DEF Moves, Leaves
    <3> QED
      BY <2>4, <3>1, <3>2
  <2> QED
    BY <1>4, <2>1, <2>2, <2>3, <2>4 DEF Step
<1> QED
  BY <1>1, <1>2, <1>3, <1>4, DeletersMove

(* Every step keeps what a committed intent says. *)
LEMMA CommitStep ==
  ASSUME TypeInv, OwnInv, CommitInv, [Next]_vars
  PROVE  CommitInv'
<1> SUFFICES ASSUME NEW o \in Ops, NEW e \in Entries, intent'[o][e] = "committed"
             PROVE  /\ o < NewOp'
                    /\ \A d \in Deleters : del'[d].pc # "idle" /\ del'[d].op = o => del'[d].pc \in Over
  BY DEF CommitInv
<1>0. NewOp \in Int /\ o \in Int /\ (NewOp' = NewOp \/ NewOp' = NewOp + 1)
  <2>1. NewOp \in Int /\ o \in Int
    BY DeleteAssumption DEF NewOp, TypeInv, BudgetType, Ops
  <2>2. NewOp' = NewOp \/ NewOp' = NewOp + 1
    BY OpsStay, ClaimMoves
  <2> QED
    BY <2>1, <2>2
<1>1. CASE intent[o][e] = "committed"
  <2>1. /\ o < NewOp
        /\ \A d \in Deleters : del[d].pc # "idle" /\ del[d].op = o => del[d].pc \in Over
    BY <1>1 DEF CommitInv
  <2>2. ASSUME NEW d \in Deleters, del'[d].pc # "idle", del'[d].op = o PROVE del'[d].pc \in Over
    <3>1. ASSUME NEW K \in SUBSET Entries, Claim(d, K) PROVE FALSE
      BY <1>0, <2>1, <2>2, <3>1, ClaimMoves
    <3> QED
      BY <2>1, <2>2, <3>1, PastCommit
  <2> QED
    BY <1>0, <2>1, <2>2
<1>2. CASE intent[o][e] # "committed"
  <2>1. PICK d \in Deleters : Commit(d) /\ revision = del[d].expected /\ del[d].op = o
    BY <1>2, CommittedBy
  <2>2. /\ del'[d].pc = "cleanup" /\ del[d].pc # "idle"
        /\ \A x \in Deleters : x # d => del'[x] = del[x]
    BY <2>1, DeleterMoves DEF Moves, Commit
  <2>3. o < NewOp /\ \A x \in Deleters : x # d /\ del[x].pc # "idle" => del[x].op # o
    BY <2>1, <2>2 DEF OwnInv
  <2> QED
    BY <1>0, <2>2, <2>3 DEF Over
<1> QED
  BY <1>1, <1>2

(* Where the bundles are and who is past a commit, in every reachable state. *)
THEOREM CommitInvariant == Spec => [](PlaceInv /\ CommitInv)
<1>1. Init => PlaceInv /\ CommitInv
  <2> SUFFICES ASSUME Init PROVE PlaceInv /\ CommitInv
    OBVIOUS
  <2>1. TypeInv
    BY DeleteInit DEF DeleteInv
  <2>2. Cardinality(Entries) \in Nat /\ MaxBundles \in Nat /\ Cardinality(Entries) < NewBundle
    <3>1. /\ budget \in [deleters : SUBSET Deleters, deletes : 0 .. MaxDeletes,
                         bundles : 0 .. MaxBundles - Cardinality(Entries), uploads : Nat,
                         faults : Nat, crashes : Nat]
          /\ IsFiniteSet(Entries) /\ MaxBundles \in Nat
      BY DeleteAssumption DEF Init
    <3>2. Cardinality(Entries) \in Nat
      BY <3>1, FS_CardinalityType
    <3> QED
      BY <3>1, <3>2 DEF NewBundle
  <2>3. NewBundle \in Nat
    BY <2>1, <2>2, DeleteAssumption DEF NewBundle, TypeInv, BudgetType
  <2>4. /\ \A e \in Entries : dir[e] \in 1 .. Cardinality(Entries)
        /\ \A o \in Ops, e \in Entries : trash[o][e] = 0 /\ intent[o][e] = "none"
    BY DEF Init
  <2> QED
    BY <2>2, <2>3, <2>4 DEF PlaceInv, CommitInv
<1>2. DeleteInv /\ (PlaceInv /\ CommitInv) /\ [Next]_vars => (PlaceInv /\ CommitInv)'
  BY PlaceStep, CommitStep DEF DeleteInv
<1> QED
  BY <1>1, <1>2, DeleteInvariant, PTL DEF Spec

(* A step that makes what was committed visible again. *)
LEMMA BroughtBack ==
  ASSUME DeleteInv, PlaceInv, CommitInv, [Next]_vars, NEW o \in Ops, NEW e \in Entries,
         intent[o][e] = "committed", trash[o][e] # 0, dir'[e] = trash[o][e]
  PROVE  \E d \in Deleters : del[d].pc = "orphans" /\ del[d].op # o /\ <<o, e>> \notin del[d].known
<1>0. /\ TypeInv /\ OwnInv /\ dir[e] # trash[o][e] /\ trash[o][e] < NewBundle /\ NewBundle \in Nat
      /\ trash[o][e] \in Nat
      /\ \A p \in Ops : trash[p][e] = trash[o][e] => p = o
      /\ \A d \in Deleters : del[d].pc # "idle" /\ del[d].op = o => del[d].pc \in Over
  <2>1. TypeInv /\ OwnInv
    BY DEF DeleteInv
  <2>2. trash[o][e] \in Nat
    BY <2>1, DeleteAssumption DEF TypeInv, Bundles
  <2> QED
    BY <2>1, <2>2, Numbered DEF PlaceInv, CommitInv
<1>1. ASSUME NEW f \in Entries, PublishBundle(f) PROVE FALSE
  BY <1>0, <1>1 DEF PublishBundle, TypeInv
<1>2. ASSUME NEW d \in Deleters, MoveToTrash(d) PROVE FALSE
  BY <1>0, <1>2 DEF MoveToTrash, TypeInv
<1>3. ASSUME NEW p \in Ops, NEW f \in Entries, dir' = [dir EXCEPT ![f] = trash[p][f]]
      PROVE  f = e /\ p = o
  BY <1>0, <1>3 DEF TypeInv
<1>4. ASSUME NEW d \in Deleters, RollBack(d) PROVE FALSE
  <2>1. del[d].op \in Ops /\ Next1(d) \in Entries /\ del[d].pc = "rollback"
    BY <1>0, <1>4, AtWork, FirstPath DEF RollBack
  <2>2. dir' = dir \/ dir' = [dir EXCEPT ![Next1(d)] = trash[del[d].op][Next1(d)]]
    BY <1>4 DEF RollBack
  <2>3. del[d].op = o
    BY <1>0, <1>3, <2>1, <2>2
  <2> QED
    BY <1>0, <2>1, <2>3 DEF Over
<1>5. ASSUME NEW d \in Deleters, NEW p \in Ops, NEW f \in Entries, RestoreOrphan(d, p, f)
      PROVE  del[d].pc = "orphans" /\ del[d].op # o /\ <<o, e>> \notin del[d].known
  <2>1. del[d].pc = "orphans" /\ <<p, f>> \notin del[d].known
    BY <1>5 DEF RestoreOrphan, Orphans
  <2>2. dir' = dir \/ dir' = [dir EXCEPT ![f] = trash[p][f]]
    BY <1>5 DEF RestoreOrphan
  <2>3. f = e /\ p = o
    BY <1>0, <1>3, <2>2
  <2> QED
    BY <1>0, <2>1, <2>3 DEF Over
<1> QED
  BY <1>0, <1>1, <1>2, <1>4, <1>5, Footprint DEF disk, WriteMarker, CleanUp

(* A deletion that is committed is undone by nobody but a scan of another    *)
(* deletion that failed and had listed the intents too early, for any number *)
(* of threads, failures, downloads and crashes (library_delete.rs:6,         *)
(* recover_orphan_markers).                                                  *)
THEOREM CommittedUnlessScanned == Spec => OnlyAScanRestores
<1>1. DeleteInv /\ (PlaceInv /\ CommitInv) /\ [Next]_vars =>
        [\A o \in Ops, e \in Entries :
          intent[o][e] = "committed" /\ trash[o][e] # 0 /\ dir'[e] = trash[o][e] =>
            \E d \in Deleters : /\ del[d].pc = "orphans" /\ del[d].op # o
                                /\ <<o, e>> \notin del[d].known]_vars
  BY BroughtBack
<1> QED
  BY <1>1, DeleteInvariant, CommitInvariant, PTL DEF Spec, OnlyAScanRestores

=============================================================================
