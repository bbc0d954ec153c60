----------------------------- MODULE MCMultipart -----------------------------
(* Instances of Multipart: an attempt and its retry, two content objects.    *)
EXTENDS Multipart

CONSTANTS j1, j2

TwoJobs == {j1, j2}

Limits(f, c, k) == [faults |-> f, cancels |-> c, crashes |-> k]

(* Two failing calls and a cancellation; a failing call around two crashes.  *)
Mixed == {Limits(2, 1, 0), Limits(1, 1, 2)}
=============================================================================
