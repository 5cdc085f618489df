------------------------ MODULE MCImageReassembler ------------------------
(* One publisher of images and one subscriber. *)
EXTENDS ImageReassembler

CONSTANTS p1, direct
===========================================================================
