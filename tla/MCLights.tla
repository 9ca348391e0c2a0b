------------------------------ MODULE MCLights ------------------------------
(***************************************************************************)
(* Three light levels, the middle one as bright as a waking screen.        *)
(***************************************************************************)
EXTENDS Lights

MCPct == [l \in 0 .. 2 |-> CASE l = 0 -> 90 [] l = 1 -> 50 [] l = 2 -> 15]
=============================================================================
