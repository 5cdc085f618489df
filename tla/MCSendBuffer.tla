---------------------------- MODULE MCSendBuffer ----------------------------
(***************************************************************************)
(* SendBuffer with the two threads every node in rlcore mode has: the      *)
(* application, and the re-punch thread.                                   *)
(***************************************************************************)
EXTENDS SendBuffer

MCTopicOf == [app |-> "data", repunch |-> "punch"]
MCSize == [data |-> 2, punch |-> 0]
=============================================================================
