--------------------------- MODULE MCIcBroadcast ---------------------------
(* The ic_broadcast instance for TLC: constants in MCIcBroadcast*.cfg. *)
EXTENDS IcBroadcast
=============================================================================
