------------------------------ MODULE MCIcGate ------------------------------
(* The ic_gate instance for TLC: values of the constants are in MCIcGate.cfg. *)
EXTENDS IcGate
=============================================================================
