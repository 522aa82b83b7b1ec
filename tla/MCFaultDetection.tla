------------------------ MODULE MCFaultDetection ------------------------
(* A small instance of FaultDetection for TLC. *)
EXTENDS FaultDetection, TLC

CONSTANTS vm1, vm2

OneInstance == {vm1}
TwoInstances == {vm1, vm2}
Symmetry == Permutations(TwoInstances)

AllLayers   == {{0, 1, 2, 3, 4, 5, 6}}
SomeLayers  == {{0, 1, 2, 3, 4, 5, 6}, {0, 3, 6}, {2, 3, 4, 6}}
PowerOnly   == {{0, 3, 6}}
AllConfigs  == {"unlisted", "no account", "no sensors", "full"}
FullConfig  == {"full"}
=============================================================================
