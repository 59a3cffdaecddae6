--------------------------- MODULE MCCoScheduler ---------------------------
(* The ic_co_scheduler instances for TLC: constants in the .cfg files. *)
EXTENDS CoScheduler
=============================================================================
