------------------------------ MODULE MCUpdater ------------------------------
(***************************************************************************)
(* A four-unit program region, pages of three units and frames of two,     *)
(* so that the region ends inside a page and the payload inside a frame.   *)
(***************************************************************************)
EXTENDS UpdaterProps, Bitwise

MCOverlay(a, b) == a & b
MCSectorOf == [i \in 0 .. 3 |-> IF i = 0 THEN 0 ELSE 1]
MCTopSector == {2, 3}

(* Two payloads: a program, the marker, the balancing byte, a trailing one. *)
PayloadA == <<0, 2, 0, 1, 1, 3>>
PayloadB == <<2, 3, 3, 1, 3, 0>>
MCImages == {PayloadA, PayloadB}

(* A data frame read out of step: the end of one frame and the start of    *)
(* the next.                                                               *)
MCStrayFrames == {<<2, 1>>}

(* The second payload built with a smaller --size: its marker is not at    *)
(* the end of the region.                                                  *)
ShortPayload == <<2, 1, 1, 3>>
MCShortImages == {PayloadA, ShortPayload}
=============================================================================
