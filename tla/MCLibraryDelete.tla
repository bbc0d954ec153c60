-------------------------- MODULE MCLibraryDelete --------------------------
(* Instances of LibraryDelete: two sessions, one or two deleting threads.    *)
EXTENDS LibraryDelete, TLC

CONSTANTS e1, e2, d1, d2

TwoEntries == {e1, e2}
TwoDeleters == {d1, d2}

Limits(D, o, b, u, f, k) ==
    [deleters |-> D, deletes |-> o, bundles |-> b, uploads |-> u, faults |-> f, crashes |-> k]

(* One thread that deletes twice, with failing steps, a crash and downloads  *)
(* into the same directories; two threads beside an upload; two threads with *)
(* a failing step, the orphan scan of one against the commit of the other,   *)
(* and a download or a crash.                                                *)
Deletions == {Limits({d1}, 2, 2, 0, 2, 1), Limits({d1, d2}, 2, 1, 1, 0, 0),
              Limits({d1, d2}, 2, 1, 0, 1, 1)}
(* Two threads, one failing step. *)
Failing == {Limits({d1, d2}, 2, 0, 0, 1, 0)}
(* A deletion and a crash; a deletion beside an upload. *)
Crashing == {Limits({d1}, 1, 0, 0, 0, 1)}
Uploading == {Limits({d1}, 1, 0, 1, 0, 0)}
=============================================================================
