---------------------------- MODULE MCUploadJobs ----------------------------
(* Instances of UploadJobs: one or two revisions of the entry, one or two    *)
(* object store settings.                                                    *)
EXTENDS UploadJobs

CONSTANTS r1, r2, c1, c2

TwoRevisions == {r1, r2}
TwoConfigs == {c1, c2}

Limits(C, n, w, f, k) ==
    [configs |-> C, commands |-> n, writes |-> w, faults |-> f, crashes |-> k]

(* Three commands; two with a failed start and a crash; two while the        *)
(* settings change; two while a download writes the entry, around a crash.   *)
Mixed == {Limits({c1}, 3, 0, 0, 0), Limits({c1}, 2, 0, 1, 1), Limits({c1, c2}, 2, 0, 0, 0),
          Limits({c1}, 2, 1, 0, 1)}
(* One upload and its cancellation. *)
Cancelled == {Limits({c1}, 2, 0, 0, 0)}
(* An upload, its cancellation and another upload. *)
ThreeCommands == {Limits({c1}, 3, 0, 0, 0)}
=============================================================================
