----------------------------- MODULE MCClients ------------------------------
(***************************************************************************)
(* Four ids so that insert meets the front, the middle and the end of the  *)
(* list, five connections so that ids come back.                            *)
(***************************************************************************)
EXTENDS Clients
=============================================================================
