------------------------------ MODULE StatusLed ------------------------------
(***************************************************************************)
(* The front-panel indicator (main loop of src/main.c, src/funlight.c) and *)
(* what it reports: the charger and the battery (src/battery.c).           *)
(***************************************************************************)
EXTENDS Integers

CONSTANTS
  LedHold,      \* LED_HOLD_MS, in passes of the awake main loop, not zero
  SleepTime     \* a pass of the sleeping loop, likewise

Dark == -1
Colours == 0 .. 2                     \* low, complete, charging
Bands == {"below", "between", "above"} \* of the two battery thresholds

VARIABLES
  charger,      \* a charger is connected
  complete,     \* the charger reports the pack full
  band,         \* where the battery voltage lies
  low,          \* low_latched
  pending,      \* led_pending
  pendingFor,   \* time since led_since, up to LedHold
  last,         \* last_led
  shown,        \* what the LEDs show: their colours
  asleep

supply == <<charger, complete, band>>
vars == <<supply, low, pending, pendingFor, last, shown, asleep>>

TypeOK ==
  /\ charger \in BOOLEAN /\ complete \in BOOLEAN /\ band \in Bands
  /\ low \in BOOLEAN /\ asleep \in BOOLEAN
  /\ pending \in Colours \cup {Dark} /\ last \in Colours \cup {Dark}
  /\ pendingFor \in 0 .. LedHold
  /\ shown \subseteq Colours

(* The boot sweep ends with the three channels lit; led_since is 0, so     *)
(* the first state has been held since the start.                          *)
Init ==
  /\ charger \in BOOLEAN /\ complete \in BOOLEAN /\ band \in Bands
  /\ low = FALSE
  /\ pending = Dark /\ pendingFor = LedHold /\ last = Dark
  /\ shown = Colours
  /\ asleep = FALSE
-----------------------------------------------------------------------------
SupplyChanges ==
  /\ \/ charger' = ~charger /\ UNCHANGED <<complete, band>>
     \/ complete' = ~complete /\ UNCHANGED <<charger, band>>
     \/ band' \in Bands \ {band} /\ UNCHANGED <<charger, complete>>
  /\ UNCHANGED <<low, pending, pendingFor, last, shown, asleep>>

Restart ==
  /\ low' = FALSE
  /\ pending' = Dark /\ pendingFor' = LedHold /\ last' = Dark
  /\ shown' = Colours
  /\ asleep' = FALSE
  /\ UNCHANGED supply

Later(t, dt) == IF t + dt < LedHold THEN t + dt ELSE LedHold

(* battery_low(): between the thresholds, or without a reading, the last   *)
(* decision stands.                                                        *)
LowNow ==
  {low} \cup CASE band = "below" -> {TRUE}
               [] band = "above" -> {FALSE}
               [] OTHER          -> {low}

(* The state the indicator is to report. *)
Wanted == IF charger THEN IF complete THEN 1 ELSE 2
                     ELSE IF low' THEN 0 ELSE Dark

(* A state has to hold before the indicator follows it. *)
Report(base, dt) ==
  LET forNow == IF Wanted # pending THEN 0 ELSE Later(pendingFor, dt)
      led    == IF forNow < LedHold THEN base.last ELSE Wanted
  IN  /\ pending' = Wanted
      /\ pendingFor' = forNow
      /\ last' = led
      /\ shown' = IF led = base.last THEN base.shown
                  ELSE IF led = Dark THEN {} ELSE {led}

Pass ==
  /\ ~asleep
  /\ low' \in LowNow
  /\ Report([last |-> last, shown |-> shown], 1)
  /\ UNCHANGED <<supply, asleep>>

(* funlight_sleep() holds the line low; nothing in the source says what    *)
(* the LEDs make of that, nor of the resync command sent on waking.        *)
FallAsleep ==
  /\ ~asleep /\ asleep' = TRUE
  /\ shown' \in {shown, {}}
  /\ pendingFor' = Later(pendingFor, 1)
  /\ UNCHANGED <<supply, low, pending, last>>

StayAsleep(dt) ==
  /\ asleep
  /\ pendingFor' = Later(pendingFor, dt)
  /\ UNCHANGED <<supply, low, pending, last, shown, asleep>>

(* On waking the indicator is to be re-applied. *)
LastRemembered == last                     \* mutant: not forced
LastOnWake == Dark
Wake(dt) ==
  /\ asleep /\ asleep' = FALSE
  /\ low' \in LowNow
  /\ \E kept \in {shown, {}} : Report([last |-> LastOnWake, shown |-> kept], dt)
  /\ UNCHANGED supply

Next ==
  \/ SupplyChanges \/ Restart \/ Pass \/ FallAsleep
  \/ \E dt \in 1 .. SleepTime : StayAsleep(dt) \/ Wake(dt)

Spec == Init /\ [][Next]_vars

(* The main loop keeps running. *)
FairSpec == Spec /\ WF_vars(Pass)
-----------------------------------------------------------------------------
(* Whenever the awake remote believes it shows a colour, it shows that and *)
(* nothing else, and once a state has held the colour is that state's,     *)
(* across any sleeps, plugs and unplugs.                                   *)
ShowsTheState ==
  ~asleep => /\ last # Dark => shown = {last}
             /\ pendingFor = LedHold => last = pending

(* "On battery the indicator stays dark unless the pack is actually low"   *)
(* (main.c): an awake remote on a good battery ends up with nothing lit.   *)
DarkOnBattery ==
  <>[](~asleep /\ ~charger /\ band = "above") => <>(shown = {})
=============================================================================
