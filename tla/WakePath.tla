------------------------------- MODULE WakePath -------------------------------
(***************************************************************************)
(* How a sleeping remote notices its user (src/wake.c, src/power.c, the    *)
(* scan of src/keypad.c, src/accel.c, src/touch.c and the input part of    *)
(* the main loop).  A falling edge on a row of the key matrix or a rising  *)
(* INT1 of the accelerometer gives a semaphore, which the sleeping loop    *)
(* waits on for a while; the inputs are looked at between two waits.       *)
(* Awake, the loop knows of a finger only what LVGL last read; the pass    *)
(* that falls asleep first spends a while switching the panel off.         *)
(*                                                                         *)
(* Time is counted in passes of the awake loop; the one that wakes is      *)
(* longer, and SleepAfter away from the next sleep.  One key is held at a  *)
(* time and every scan sees it (KeyPath has the others).  The              *)
(* accelerometer was found at boot; reading it may fail at any time.       *)
(***************************************************************************)
EXTENDS Naturals

CONSTANTS
  DebounceTime, \* KEY_DEBOUNCE_MS
  WaitTime,     \* the limit of wake_wait()
  BlankTime,    \* what display_blanking_on() takes
  ReadEvery,    \* the period at which LVGL reads the panel
  SleepAfter    \* SLEEP_AFTER_MS

ASSUME TimesAssumption ==
  /\ DebounceTime \in Nat \ {0} /\ WaitTime \in Nat /\ SleepAfter \in Nat
  /\ BlankTime \in Nat /\ ReadEvery \in Nat \ {0}
  /\ DebounceTime < WaitTime /\ DebounceTime < SleepAfter /\ ReadEvery < SleepAfter

(* A key of the first column, of another, or none. *)
Codes == {"first", "other", "none"}
Long == ReadEvery + BlankTime + WaitTime + DebounceTime + 4
                                   \* bound: times are counted up to here

VARIABLES
  recovery,     \* never_sleep
  key,          \* the key held down
  keyFor,       \* ... and for how long
  finger,       \* on the touch panel
  fingerFor,    \* ... and for how long
  down, unread, \* last_down, and the time since LVGL last read it
  int1,         \* the accelerometer's line: high until INT1_SRC is read
  misread,      \* ... which has failed since it rose
  int1For,      \* the time since it rose, or the reading failed
  sem,          \* wake_sem has been given
  pending, pendingFor, stable,  \* keypad_scan()
  idleFor,      \* time since last_active
  asleep,
  pc,           \* what the loop does next
  left          \* what is left of its wait, or of the blanking

lvgl  == <<down, unread>>
user  == <<key, keyFor, finger, fingerFor, int1, misread, int1For>>
scan  == <<pending, pendingFor, stable>>
power == <<idleFor, asleep>>
vars  == <<recovery, user, lvgl, sem, scan, power, pc, left>>

Init ==
  /\ recovery \in BOOLEAN
  /\ key = "none" /\ finger = FALSE /\ int1 = FALSE /\ sem = FALSE
  /\ keyFor = 0 /\ fingerFor = 0 /\ int1For = 0 /\ misread = FALSE
  /\ down = FALSE /\ unread \in 0 .. ReadEvery
  /\ pending = "none" /\ pendingFor = 0 /\ stable = "none"
  /\ idleFor = 0 /\ asleep = FALSE /\ pc = "scan" /\ left = 0
-----------------------------------------------------------------------------
(* The user.  Between scans every column is driven, so a press pulls its   *)
(* row down; a release may bounce.                                         *)
Presses(k) ==
  /\ key = "none" /\ k # "none"
  /\ key' = k /\ keyFor' = 0 /\ sem' = TRUE
  /\ UNCHANGED <<recovery, finger, fingerFor, int1, misread, int1For, lvgl,
                 scan, power, pc, left>>
Releases ==
  /\ key # "none" /\ key' = "none" /\ keyFor' = 0 /\ sem' \in {sem, TRUE}
  /\ UNCHANGED <<recovery, finger, fingerFor, int1, misread, int1For, lvgl,
                 scan, power, pc, left>>
Touches ==
  /\ finger' = ~finger /\ fingerFor' = 0
  /\ UNCHANGED <<recovery, key, keyFor, int1, misread, int1For, lvgl, sem,
                 scan, power, pc, left>>

(* on_wake(), for a line that is high until it is read. *)
MaskedOut == sem                          \* mutant: INT1 left out of the mask
Given == TRUE
Moves ==
  /\ ~int1 /\ int1' = TRUE /\ int1For' = 0 /\ sem' = Given
  /\ UNCHANGED <<recovery, key, keyFor, finger, fingerFor, misread, lvgl,
                 scan, power, pc, left>>
-----------------------------------------------------------------------------
(* Time passes: one unit in the pause of an awake pass and in each step of *)
(* a wait or of the blanking, and none or one in a scan.                   *)
Later(t, dt, limit) == IF t + dt < limit THEN t + dt ELSE limit
LaterIf(on, t, dt) == IF on THEN Later(t, dt, Long) ELSE 0
Elapse(dt) ==
  /\ keyFor' = LaterIf(key # "none", keyFor, dt)
  /\ fingerFor' = LaterIf(finger, fingerFor, dt)
  /\ int1For' = LaterIf(int1, int1For, dt)
  /\ UNCHANGED <<recovery, key, finger, int1, misread>>

(* scan_once() drives one column after the other until it finds the key.   *)
(* The row of a key that is not in the first column rises meanwhile, and   *)
(* its falling edge gives the semaphore.                                   *)
EdgeNever == FALSE                        \* mutant: every column stays driven
Edge == key = "other"
Scan ==
  /\ pc = "scan" /\ pc' = "look"
  /\ \E dt \in {0, 1} :
       /\ Elapse(dt) /\ unread' = Later(unread, dt, ReadEvery)
       /\ idleFor' = Later(idleFor, dt, SleepAfter + 1)
       /\ pendingFor' = IF key # pending THEN 0
                        ELSE Later(pendingFor, dt, DebounceTime)
  /\ pending' = key
  /\ stable' = IF key = pending /\ pendingFor' = DebounceTime
                THEN key ELSE stable
  /\ sem' = (sem \/ Edge)
  /\ UNCHANGED <<down, asleep, left>>

(* accel_motion() clears the latch, unless the reading fails, and then it  *)
(* says that nothing moved.  Asleep the panel is read, awake it is         *)
(* ui_touch_down().  The pass that falls asleep blanks the panel, and goes *)
(* on to the wait.                                                         *)
Touched == IF asleep THEN finger ELSE down
Look ==
  /\ pc = "look"
  /\ \E fails \in BOOLEAN :
       LET active == Touched \/ (int1 /\ ~fails) \/ stable # "none"
       IN  /\ int1' = (int1 /\ fails) /\ int1For' = 0
           /\ misread' = (int1 /\ fails)
           /\ idleFor' = IF active THEN 0 ELSE idleFor
           /\ asleep' = /\ ~active
                        /\ asleep \/ (~recovery /\ idleFor > SleepAfter)
  /\ pc' = IF ~asleep' THEN "nap" ELSE IF asleep THEN "wait" ELSE "blank"
  /\ left' = IF ~asleep' THEN 0 ELSE IF asleep THEN WaitTime ELSE BlankTime
  /\ UNCHANGED <<recovery, key, keyFor, finger, fingerFor, lvgl, sem, scan>>

Blanked ==
  /\ pc = "blank" /\ left = 0
  /\ pc' = "wait" /\ left' = WaitTime
  /\ UNCHANGED <<recovery, user, lvgl, sem, scan, power>>

(* wake_wait(): the semaphore, or the end of the wait.                     *)
Wakes ==
  /\ pc = "wait" /\ (sem \/ left = 0)
  /\ sem' = FALSE /\ left' = 0 /\ pc' = "scan"
  /\ UNCHANGED <<recovery, user, lvgl, scan, power>>

(* ui_render() has LVGL read the panel when it is time to, before the      *)
(* pause of an awake pass.                                                 *)
Render ==
  IF unread = ReadEvery THEN down' = finger /\ unread' = Later(0, 1, ReadEvery)
                        ELSE down' = down /\ unread' = unread + 1
Tick ==
  /\ \/ pc = "nap" /\ pc' = "scan" /\ Render /\ UNCHANGED left
     \/ /\ left > 0 /\ (pc = "blank" \/ (pc = "wait" /\ ~sem))
        /\ left' = left - 1 /\ unread' = Later(unread, 1, ReadEvery)
        /\ UNCHANGED <<pc, down>>
  /\ Elapse(1)
  /\ idleFor' = Later(idleFor, 1, SleepAfter + 1)
  /\ pendingFor' = Later(pendingFor, 1, DebounceTime)
  /\ UNCHANGED <<sem, pending, stable, asleep>>

Next ==
  \/ \E k \in Codes : Presses(k)
  \/ Releases \/ Touches \/ Moves \/ Scan \/ Look \/ Blanked \/ Wakes \/ Tick

Spec == Init /\ [][Next]_vars
-----------------------------------------------------------------------------
(* A held key wakes the remote in time.  It is looked at at its edge, or   *)
(* when the panel has been blanked, and has to be looked at again when the *)
(* reading has lasted: this is at once, by the edges the scan makes        *)
(* itself, or, for a key of the first column, which makes none, only at    *)
(* the end of a wait (keypad_scan(), wake_wait()).                         *)
PressWakes ==
  asleep =>
    /\ key = "other" => keyFor <= BlankTime + DebounceTime + 2
    /\ key = "first" => keyFor <= BlankTime + WaitTime + DebounceTime + 2

(* A finger wakes it at the end of a wait, though nothing gives the        *)
(* semaphore and LVGL need not have read it before the loop fell asleep; a *)
(* movement at once, or as soon as the panel has been blanked; and one     *)
(* whose reading failed after that and one more wait (power_tick(),        *)
(* accel_motion(), ui_touch_down()).                                       *)
UserWakes ==
  asleep => /\ finger => fingerFor <= ReadEvery + BlankTime + WaitTime + 2
            /\ int1 /\ ~misread => int1For <= BlankTime + 1
            /\ int1 => int1For <= BlankTime + WaitTime + 1
=============================================================================
