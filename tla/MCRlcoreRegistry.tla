------------------------- MODULE MCRlcoreRegistry -------------------------
(* RlcoreRegistry with two nodes and one topic. *)
EXTENDS RlcoreRegistry

CONSTANTS n1, n2, t1

\* Everybody declares every topic.
AllTopics == [n \in Node |-> Topic]
===========================================================================
