------------------------------ MODULE MCRouter ------------------------------
(***************************************************************************)
(* Topics a, a/b and a/c: a topic that ends inside another one, and two    *)
(* that share a branch.  One packet asks for two topics.                   *)
(***************************************************************************)
EXTENDS Router

CONSTANTS a, b, c1

MCTopics == {<<a>>, <<a, b>>, <<a, c1>>}
MCRequests == {<< <<<<a, b>>, 1>> >>, << <<<<a, c1>>, 1>>, <<<<a>>, 0>> >>}
=============================================================================
