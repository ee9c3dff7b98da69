-------------------------- MODULE MCBaseImageStaging --------------------------
(***************************************************************************)
(* Instances of BaseImageStaging: workers that may or may not agree on the *)
(* host, the source and the digest.                                        *)
(***************************************************************************)
EXTENDS BaseImageStaging, TLC

Symmetry == Permutations(Workers) \cup Permutations(Digests)
=============================================================================
