---------------------------- MODULE MCShmSegment ----------------------------
(***************************************************************************)
(* ShmSegment for three processes.  One of them is built with another      *)
(* capacity and may meet, or leave behind, an incompatible segment.        *)
(***************************************************************************)
EXTENDS ShmSegment

CONSTANTS pub, pub2, sub

MixedGeometry == [p \in Procs |-> IF p = pub2 THEN 2 ELSE 1]
=============================================================================
