------------------------------ MODULE MCCdcPort ------------------------------
(***************************************************************************)
(* Frames of three bytes, packets of two, a ring of four; the signature    *)
(* inside a window, across two, at the seam of two, and where the last     *)
(* window comes round to it again.                                         *)
(***************************************************************************)
EXTENDS CdcPort

MCMarks == {1, 4, 6}
=============================================================================
