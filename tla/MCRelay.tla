------------------------------ MODULE MCRelay ------------------------------
(* Instance of Relay for TLC. *)
EXTENDS Relay

CONSTANTS n1, n2
=============================================================================
