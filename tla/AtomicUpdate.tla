---------------------------- MODULE AtomicUpdate ----------------------------
(***************************************************************************)
(* What the update path of the remote promises, whatever happens between   *)
(* the first frame of a transfer and the reboot into the new program: the  *)
(* program the next power-up runs changes in a single step, from the one   *)
(* installed to the whole of the one the host is offering.  An accident    *)
(* may leave it damaged, and a later update then replaces it in one step   *)
(* again.  Updater.tla is shown to implement this specification, and to    *)
(* have two accidents and no other.                                        *)
(***************************************************************************)
CONSTANTS
  Firmwares,            \* the programs a host may offer
  Damaged               \* none of them

VARIABLES
  runs,                 \* the program the next power-up will run
  offered               \* the program of the host's latest session

vars == <<runs, offered>>

Init == runs \in Firmwares /\ offered \in Firmwares

(* The host opens a session for the program f. *)
Offer(f) ==
  /\ offered' = f
  /\ UNCHANGED runs

(* The whole of the offered program replaces what was there. *)
Install ==
  /\ runs' = offered
  /\ UNCHANGED offered

Accident ==
  /\ runs' = Damaged
  /\ UNCHANGED offered

Next == Install \/ Accident \/ \E f \in Firmwares : Offer(f)

Spec == Init /\ [][Next]_vars
=============================================================================
