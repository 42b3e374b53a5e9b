----------------------------- MODULE MCSessions -----------------------------
(***************************************************************************)
(* The minimal keep alive interval is 2 seconds instead of 60, and a u16   *)
(* holds 0 .. 15.                                                          *)
(***************************************************************************)
EXTENDS Sessions
=============================================================================
