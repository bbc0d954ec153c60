---------------------------- MODULE MCMediaImport ----------------------------
(* Instances of MediaImport: the card of the import and another one. *)
EXTENDS MediaImport

CONSTANTS l1, l2

TwoCards == {l1, l2}

Limits(C, n, m, f, k) ==
    [commands |-> C, clicks |-> n, moves |-> m, faults |-> f, crashes |-> k]

(* The card is exchanged three times around a pause; a crash and a retry     *)
(* with two exchanges; a failing step with every command.                    *)
Mixed == {Limits({"pause", "resume"}, 2, 3, 0, 0), Limits({"pause", "resume", "retry"}, 2, 2, 0, 1),
          Limits({"pause", "cancel", "resume", "retry"}, 2, 1, 1, 0)}
(* One command and nothing else; with a crash; a failing step. *)
Cancelled == {Limits({"cancel"}, 1, 0, 0, 0)}
CrashedPause == {Limits({"pause"}, 1, 0, 0, 1)}
RacingRetry == {Limits({"retry"}, 1, 0, 1, 0)}
OneCrash == {Limits({}, 0, 0, 0, 1)}
=============================================================================
