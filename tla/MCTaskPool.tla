----------------------------- MODULE MCTaskPool -----------------------------
(* The TaskPool instances for TLC. *)
EXTENDS TaskPool

\* Jobs are interchangeable in the safety properties.
JobSymmetry == Permutations(Job)
=============================================================================
