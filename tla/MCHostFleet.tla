------------------------------ MODULE MCHostFleet ------------------------------
(***************************************************************************)
(* Instances of HostFleet: machines that compete for few hosts.            *)
(***************************************************************************)
EXTENDS HostFleet, TLC

Symmetry == Permutations(Machines)
=============================================================================
