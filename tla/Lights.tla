-------------------------------- MODULE Lights --------------------------------
(***************************************************************************)
(* The two halves of the main loop that show something, Backlight and      *)
(* StatusLed, in the passes they share: both sleep and wake in the same    *)
(* power_tick(), which tells the main loop to re-apply them, and a reset   *)
(* restarts both.                                                          *)
(***************************************************************************)
EXTENDS Backlight

CONSTANT LedHold                       \* LED_HOLD_MS, in passes
ASSUME LedAssumption == LedHold \in Nat \ {0}

VARIABLES charger, complete, band, low, ledPending, ledFor, last, shown

indicator == <<charger, complete, band, low, ledPending, ledFor, last, shown>>

Led == INSTANCE StatusLed WITH pending <- ledPending, pendingFor <- ledFor

LightsInit == Init /\ Led!Init

Restarts == (PowerOn \/ WarmReset) /\ Led!Restart
Boots    == (DisplayInit \/ MainStarts) /\ UNCHANGED indicator
Outside  == \/ LightChanges /\ UNCHANGED indicator
            \/ Led!SupplyChanges /\ UNCHANGED vars
Passes   == Pass /\ Led!Pass
Sleeps   == \/ FallAsleep /\ Led!FallAsleep
            \/ \E dt \in 1 .. SleepTime : StayAsleep(dt) /\ Led!StayAsleep(dt)
Wakes    == \E dt \in 1 .. SleepTime : Wake(dt) /\ Led!Wake(dt)

LightsNext == Restarts \/ Boots \/ Outside \/ Passes \/ Sleeps \/ Wakes

LightsSpec == LightsInit /\ [][LightsNext]_<<vars, indicator>>
-----------------------------------------------------------------------------
(* Whenever the awake remote believes it shows a colour, it shows that and *)
(* nothing else, and once a state has held the colour is that state's,     *)
(* across any sleeps, resets, plugs and unplugs (StatusLed).               *)
ShowsTheState == Led!ShowsTheState
=============================================================================
