---------------------------- MODULE MCRelinkNode ----------------------------
(***************************************************************************)
(* RelinkNode with two topics that may share a pair, or have a transport   *)
(* each, and an image topic, which stays on the shared transport.          *)
(***************************************************************************)
EXTENDS RelinkNode

CONSTANTS t1, t2, t3, p1

\* Any two of discovery mode, multiplexing and relay in every combination.
NodeConfigs ==
  {[mode |-> "RlCore", multiplex |-> FALSE, relay |-> TRUE, repunch |-> TRUE],
   [mode |-> "RlCore", multiplex |-> TRUE, relay |-> FALSE, repunch |-> TRUE],
   [mode |-> "Multicast", multiplex |-> FALSE, relay |-> FALSE, repunch |-> FALSE],
   [mode |-> "Multicast", multiplex |-> TRUE, relay |-> TRUE, repunch |-> TRUE]}
=============================================================================
