------------------------------- MODULE MCSpc -------------------------------
(***************************************************************************)
(* Instances of the SCSI driver for TLC.  Acb and Lun are sets of model    *)
(* values and interchangeable, so Symmetry may be used for invariants and  *)
(* for action properties, not for liveness.                                *)
(***************************************************************************)
EXTENDS SpcRefinement, TLC

Symmetry == Permutations(Acb) \cup Permutations(Lun)
=============================================================================
