----------------------------- MODULE MCShmRing -----------------------------
(***************************************************************************)
(* ShmRing on a small ring: two payloads of different lengths that fit and *)
(* one that does not, enough pushes for more than one full turn of the     *)
(* indices, and a sequence counter that wraps within the run.              *)
(***************************************************************************)
EXTENDS ShmRing

MCPayloads == {"small", "large", "oversized"}
MCPayloadLen == [small |-> 1, large |-> 2, oversized |-> 3]
============================================================================
