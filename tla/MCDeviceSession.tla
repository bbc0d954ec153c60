--------------------------- MODULE MCDeviceSession ---------------------------
(* Bounds for DeviceSession: one of the budgets holds in a behaviour.        *)
EXTENDS DeviceSession

Bound(connects, cancels, disconnects, rebinds, faults, lapses) ==
    [connects |-> connects, cancels |-> cancels, disconnects |-> disconnects,
     rebinds |-> rebinds, faults |-> faults, lapses |-> lapses]

(* Two attempts with all calls answered, or one attempt with a failing call. *)
MCBudgets ==
    {Bound(2, 0, 1, 0, 0, 1), Bound(2, 0, 0, 1, 0, 1), Bound(1, 1, 1, 0, 1, 0),
     Bound(1, 1, 0, 1, 1, 1)}

(* A later attempt beside a cancellation; a later attempt that fails.        *)
MCLateCancelBudgets == {Bound(2, 1, 0, 0, 0, 0)}
MCFailedRetryBudgets == {Bound(2, 0, 0, 0, 1, 0)}
=============================================================================
