---------------------------- MODULE MCLifecycle ----------------------------
(* Instances of Lifecycle for TLC.                                           *)
EXTENDS Lifecycle, TLC

FleetSymmetry == Permutations(Instances) \cup Permutations(Requests)
=============================================================================
