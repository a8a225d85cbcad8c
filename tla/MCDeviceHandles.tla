---------------------------- MODULE MCDeviceHandles --------------------------
(* Instances of DeviceHandles for TLC.                                     *)
EXTENDS DeviceHandles, TLC

\* Two entries; the device's offsets are its own business.
TwoEntries == (1 :> [name |-> 1, next |-> 7]) @@ (7 :> [name |-> 2, next |-> 3])

Symmetry == Permutations(Threads)
=============================================================================
