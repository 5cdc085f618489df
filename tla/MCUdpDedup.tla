----------------------------- MODULE MCUdpDedup -----------------------------
(***************************************************************************)
(* UdpDedup with a window of three and numbers modulo four, so that the    *)
(* window is filled and overwritten and the counter wraps.                 *)
(***************************************************************************)
EXTENDS UdpDedup

CONSTANTS a, b
=============================================================================
