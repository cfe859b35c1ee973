------------------------------ MODULE MCArchive -----------------------------
(* Instances of CheckpointedArchive for TLC; the configurations give the   *)
(* numbers.                                                                *)
EXTENDS CheckpointedArchive
=============================================================================
