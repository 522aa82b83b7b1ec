------------------------ MODULE MCInstanceDetector ------------------------
(* Small instances of InstanceDetector for TLC. *)
EXTENDS InstanceDetector

CONSTANTS vm1, vm2

OneInstance == {vm1}
TwoInstances == {vm1, vm2}
=============================================================================
