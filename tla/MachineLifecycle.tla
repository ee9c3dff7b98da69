--------------------------- MODULE MachineLifecycle ---------------------------
(***************************************************************************)
(* What the finalizer of a LibvirtMachine promises (README.md, "Finalizer  *)
(* safety"), without the steps that keep the promise: from the moment the  *)
(* finalizer is stored, the object stays until the host holds nothing of   *)
(* the machine any more, and afterwards nothing of it comes back.          *)
(* MachineReconciler implements this specification.                        *)
(***************************************************************************)
VARIABLES
    phase,   \* "new" (no finalizer stored yet), "held", "gone" (released),
             \* or "lost" (deleted before a finalizer was stored)
    dirty    \* the host holds an artifact of the machine

lifecycle == <<phase, dirty>>

LifecycleTypeOK ==
    /\ phase \in {"new", "held", "gone", "lost"}
    /\ dirty \in BOOLEAN

LifecycleInit == phase = "new" /\ dirty = FALSE

(* Artifacts are made and removed in every phase but the last.             *)
Work    == phase # "gone" /\ dirty' \in BOOLEAN /\ UNCHANGED phase
Hold    == phase = "new"  /\ phase' = "held" /\ UNCHANGED dirty
Lose    == phase = "new"  /\ phase' = "lost" /\ UNCHANGED dirty
Release == phase = "held" /\ ~dirty /\ phase' = "gone" /\ UNCHANGED dirty

LifecycleNext == Work \/ Hold \/ Lose \/ Release

LifecycleSpec == LifecycleInit /\ [][LifecycleNext]_lifecycle
=============================================================================
