--------------------------- MODULE MCMessageQueue ---------------------------
(***************************************************************************)
(* Instances of MessageQueue: two client tasks, of which p1 publishes      *)
(* twice and the other one once, one observer, and as many addresses as    *)
(* messages, so that one node can be behind another while a third is       *)
(* appended, and an address is used again while the other task walks.      *)
(***************************************************************************)
EXTENDS MessageQueue

CONSTANT p1

MCMaxAppends == [p \in Appenders |-> IF p = p1 THEN 2 ELSE 1]
=============================================================================
