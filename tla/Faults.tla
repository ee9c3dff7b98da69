-------------------------------- MODULE Faults --------------------------------
(***************************************************************************)
(* What a controller cannot count on: requests that fail, processes that   *)
(* crash, other people's changes. A component decides where they may       *)
(* happen; together they happen at most MaxFaults times.                   *)
(***************************************************************************)
EXTENDS Naturals

CONSTANT MaxFaults      \* bound on the number of faults

VARIABLE faults         \* faults so far

Fault == faults < MaxFaults /\ faults' = faults + 1
=============================================================================
