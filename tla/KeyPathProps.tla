----------------------------- MODULE KeyPathProps -----------------------------
(***************************************************************************)
(* What the key path guarantees.                                           *)
(***************************************************************************)
EXTENDS KeyPath

(* Pressed one at a time and read without loss, a press is at most one     *)
(* click, or one hold and its release, however the scan misreads the       *)
(* matrix: the safety half of "a tap must be exactly one click" (on_event  *)
(* in lib.rs; a press shorter than the debounce gives none).  Whatever is  *)
(* lost, no click and no hold is reported "that nobody made".              *)
Promise == INSTANCE RemoteNotes WITH Keys <- Keys \ {Local}
OnePressOneNote == Promise!Spec

(* "A hold has to be closed" (lib.rs): on a port that loses nothing, when  *)
(* the user has let go of every key, no consumer is left ramping.          *)
HoldsClose == ~lossy => (<>[](held = {}) => <>[](ramping = {}))

(* The menu opens only on a Backlight that has been down for the hold time *)
(* ever since it was reported.                                             *)
MenuOpensByHold ==
  [][ menu = 0 /\ menu' # 0 => stable = Local /\ downFor' = HoldTime ]_vars
=============================================================================
