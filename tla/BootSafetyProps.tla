--------------------------- MODULE BootSafetyProps ---------------------------
(***************************************************************************)
(* What the boot counter, the watchdog and safe mode guarantee.            *)
(***************************************************************************)
EXTENDS BootSafety

(* The counter in RAM is what safety.h says it is, "how many consecutive   *)
(* boots have not reached safety_mark_healthy()", whatever mixture of      *)
(* faults, resets, power cuts, updates and safe modes led here.            *)
CounterCountsFailures ==
  /\ phase # "reset" => magic
  /\ magic => attempts = unproven

(* No more than MaxBootAttempts boots in a row run the full firmware       *)
(* without one of them proving itself.                                     *)
RetriesBounded == phase \in Full => unproven <= MaxBootAttempts

(* The inductive invariant: besides, the history starts with the RAM.      *)
HistoryStarts == ~magic => unproven = 0
BootInv == TypeOK /\ CounterCountsFailures /\ RetriesBounded /\ HistoryStarts

(* Safe mode is one-shot (the comment in safe_mode()): main branches to it *)
(* only when more than MaxBootAttempts boots were begun since it last did. *)
SafeModeEarned ==
  [][phase = "checked" /\ phase' = "safe" => unproven > MaxBootAttempts]_vars

(* Resets from outside, power cuts and hosts that give up come to an end.  *)
Calm == <>[][~ExternalReset /\ ~PowerOn /\ ~HostStops]_vars

(* However the firmware hangs, a host that keeps offering an update gets   *)
(* to replace it, as long as it hangs before the healthy mark: a fault     *)
(* that comes later and before an upload can end is retried for ever, for  *)
(* every boot counts as healthy.                                           *)
Recoverable ==
  faultAge <= HealthyAfter /\ Calm /\ []~stuck => <>~broken

(* A hang becomes a reset (safety.h), the serial flash's excepted: the     *)
(* receiver's wait for it feeds the watchdog.                              *)
HangBecomesReset ==
  Calm /\ []~stuck => (phase \in Hung ~> phase = "reset")
=============================================================================
