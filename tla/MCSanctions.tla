---------------------------- MODULE MCSanctions ----------------------------
(* Small instances of Sanctions for TLC: the cfgs give the sets.           *)
EXTENDS Sanctions
=============================================================================
