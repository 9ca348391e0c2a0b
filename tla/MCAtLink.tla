------------------------------ MODULE MCAtLink ------------------------------
(***************************************************************************)
(* The radio thread alone, or with the update receiver, which preempts it. *)
(***************************************************************************)
EXTENDS AtLink

CONSTANTS zbnet, receiver

MCAhead == [r \in Readers |-> IF r = zbnet THEN Readers \ {zbnet} ELSE {}]
=============================================================================
