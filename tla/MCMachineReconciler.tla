------------------------- MODULE MCMachineReconciler -------------------------
(***************************************************************************)
(* Instances of MachineReconciler. A machine differs from another in what  *)
(* its spec asks for; these specs take every branch on it.                 *)
(***************************************************************************)
EXTENDS MachineReconciler

MCSpec(eph, clone, format, disks, stage) ==
    [eph |-> eph, clone |-> clone, format |-> format, disks |-> disks,
     stage |-> stage]

PersistentSpecs ==
    {MCSpec(FALSE, FALSE, "ignition", 1, TRUE),
     MCSpec(FALSE, TRUE, "cloud-init", 1, FALSE)}

EphemeralSpecs ==
    {MCSpec(TRUE, FALSE, "ignition", 0, FALSE),
     MCSpec(TRUE, FALSE, "cloud-init", 1, TRUE)}

ClonedEphemeralSpecs == {MCSpec(TRUE, TRUE, "ignition", 0, TRUE)}

MCSpecs == PersistentSpecs \cup EphemeralSpecs \cup ClonedEphemeralSpecs

LiveSpecs == PersistentSpecs \cup {MCSpec(TRUE, FALSE, "cloud-init", 1, TRUE)}

OnlyCrashes == {"crash"}
OnlyRefusal == {"terminal"}
=============================================================================
