--------------------------- MODULE MCJobLifecycle ---------------------------
(* Instances of JobLifecycle: one or two revisions of a session, one or two  *)
(* user threads beside the poll loop.                                        *)
EXTENDS JobLifecycle, TLC

CONSTANTS r1, r2, u1, u2

OneRevision == {r1}
TwoRevisions == {r1, r2}
OneUser == {u1}
TwoUsers == {u1, u2}

Limits(c, k, w) == [commands |-> c, crashes |-> k, writes |-> w]

(* Four commands without a crash, three around two crashes. *)
Lineages == {Limits(4, 0, 0), Limits(3, 2, 0)}
(* A crash and a conflicting write while two outcomes are delivered. *)
Deliveries == {Limits(2, 1, 1)}
(* One download, and the request to repeat it. *)
Repeats == {Limits(2, 0, 0)}

UserSymmetry == Permutations({u1, u2})
=============================================================================
