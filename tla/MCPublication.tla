---------------------------- MODULE MCPublication ----------------------------
(* Instances of Publication: an attempt and two retries. *)
EXTENDS Publication

CONSTANTS j1, j2, j3

ThreeJobs == {j1, j2, j3}

Limits(f, k) == [faults |-> f, crashes |-> k]

(* Failing steps and crashes, up to four in all. *)
Mixed == {Limits(f, 4 - f) : f \in 0 .. 4}
OneFault == {Limits(1, 0)}
=============================================================================
