---------------------------- MODULE MCClientStore ----------------------------
(***************************************************************************)
(* Lines of 5 and 8 bytes and a buffer of 20 in place of lines of 25, 26   *)
(* and 41 bytes and a buffer of 512.  Tasks are interchangeable, and so are*)
(* topics.                                                                 *)
(***************************************************************************)
EXTENDS ClientStore, TLC

MCSize == [e \in Events |-> IF e = "Ended" THEN 8 ELSE 5]
Symmetry == Permutations(Topics) \cup Permutations(Tasks)
=============================================================================
