---------------------------- MODULE MCCoordinator ----------------------------
(* Small instances of Coordinator for TLC. *)
EXTENDS Coordinator, TLC

CONSTANTS j1, j2, w1, w2, u1, u2, t1, d1

OneTarget == [j \in Jobs |-> t1]
OneDevice == [j \in Jobs |-> d1]

Ready == [connection |-> "connected", capture |-> "idle"]
Recording == [connection |-> "connected", capture |-> "recording"]
Offline == [connection |-> "disconnected", capture |-> "unknown"]
Pairing == [connection |-> "pairing", capture |-> "unknown"]

ReadyOffline == {Ready, Offline}
ReadyRecording == {Ready, Recording}
AllKinds == {Ready, Recording, Offline, Pairing}
AlwaysReady == {Ready}

Limits(c, d, f, p) == [commands |-> c, changes |-> d, faults |-> f, panics |-> p]

(* Two commands; one with a store failure and a panic; one while the device *)
(* changes.                                                                 *)
Mixed == {Limits(2, 0, 0, 0), Limits(1, 0, 1, 1), Limits(1, 1, 0, 0)}
(* A panic. *)
Contended == {Limits(0, 0, 0, 1)}
(* Two commands; a device that goes away and comes back. *)
Settling == {Limits(2, 0, 0, 0), Limits(0, 2, 0, 0)}
(* Nothing but the jobs themselves; one command. *)
Undisturbed == {Limits(0, 0, 0, 0)}
OneCommand == {Limits(1, 0, 0, 0)}
TwoCommands == {Limits(2, 0, 0, 0)}
ThreeCommands == {Limits(3, 0, 0, 0)}

(* A device that does not change is ready; one that changes is ready or    *)
(* recording before, and anything after.                                   *)
ControlInit ==
  Init /\ device \in [Devices -> IF changes = 0 THEN {Ready} ELSE ReadyRecording]

Threads == Permutations(Users) \cup Permutations(Workers)
(* Jobs for one directory of one device. *)
ThreadsAndJobs == Threads \cup Permutations(Jobs)

=============================================================================
