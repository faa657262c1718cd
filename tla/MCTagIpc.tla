------------------------------ MODULE MCTagIpc ------------------------------
(* Small instances of TagIpc for TLC: its constants are given in the cfgs. *)
EXTENDS TagIpc
=============================================================================
