------------------------------ MODULE Backlight ------------------------------
(***************************************************************************)
(* The screen's backlight (main loop of src/main.c, src/power.c and        *)
(* src/hx8347_fsmc.c).  Four parts of the firmware set it: the menu, which *)
(* wants it bright to be read; ambient light, which moves it between       *)
(* steps; going to sleep; and waking.  Its driver latches off when its     *)
(* input gets no more edges, by a static level or by a reset, and then     *)
(* only three seconds without power help (docs/BACKLIGHT.md), which the    *)
(* boot takes after what it thinks is a warm reset.  Whether the menu's    *)
(* static high latches it is left open: "Every way of stopping the PWM.    *)
(* All latch" (docs/BACKLIGHT.md), but "Driving the same pin static-high   *)
(* lit it instantly" (src/hx8347_fsmc.c).                                  *)
(*                                                                         *)
(* A light level is the row of ALS_STEPS a reading falls in, 0 the         *)
(* brightest.                                                              *)
(***************************************************************************)
EXTENDS Naturals

CONSTANTS
  Pct,          \* ALS_STEPS: the percentage of each level
  AlsHold,      \* ALS_HOLD_MS, in passes of the awake main loop
  SleepTime     \* a pass of the sleeping loop, likewise

Levels == DOMAIN Pct
NoLevel == CHOOSE l \in 0 .. 100 : l \notin Levels

ASSUME StepsAssumption ==
  /\ Levels \subseteq 0 .. 99 /\ Levels # {}
  /\ Pct \in [Levels -> 1 .. 99]
ASSUME PassesAssumption ==
  AlsHold \in Nat \ {0} /\ SleepTime \in Nat \ {0}

(* A brightness is set as 0..255 and shown as a percentage: each           *)
(* conversion rounds down.                                                 *)
Shown(brightness) == (brightness * 100) \div 255
Awake == Shown(128)                    \* BRIGHT_AWAKE
Full  == Shown(255)
Dim   == 1                             \* the lowest duty

VARIABLES
  phase,        \* the display is to be initialised, main is to start, the loop
  porrst,       \* RCC_CSR_PORRSTF
  early,        \* main has not started since power-on, or a reset came first
  latched,      \* what has latched the driver off: a low input, a high one
  recovery,     \* a key was held at power-on: the remote never sleeps
  light,        \* the level of the room
  avg,          \* the level of the smoothed reading; NoLevel: no reading yet
  menu,         \* a page of the menu is open
  menuLit,      \* menu_lit
  step,         \* als_step, the level last applied
  pending,      \* als_pending, the level seen last
  pendingFor,   \* ... and for how long, up to AlsHold
  bright,       \* the percentage the backlight is driven at
  asleep

Latches == {"none", "low", "high"}

als  == <<step, pending, pendingFor>>
boot == <<phase, porrst, early>>
vars == <<boot, latched, recovery, light, avg, menu, menuLit, als, bright,
          asleep>>

TypeOK ==
  /\ phase \in {"display", "main", "loop"}
  /\ porrst \in BOOLEAN /\ early \in BOOLEAN /\ latched \in Latches
  /\ recovery \in BOOLEAN
  /\ light \in Levels /\ avg \in Levels \cup {NoLevel}
  /\ menu \in BOOLEAN /\ menuLit \in BOOLEAN /\ asleep \in BOOLEAN
  /\ step \in Levels \cup {NoLevel} /\ pending \in Levels \cup {NoLevel}
  /\ pendingFor \in 0 .. AlsHold
  /\ bright \in 0 .. 100

Init ==
  /\ phase = "display" /\ porrst = TRUE /\ early = TRUE /\ latched = "none"
  /\ recovery = FALSE /\ light \in Levels /\ bright = 0
  /\ avg = NoLevel /\ menu = FALSE /\ menuLit = FALSE
  /\ step = NoLevel /\ pending = NoLevel /\ pendingFor = 0
  /\ asleep = FALSE
-----------------------------------------------------------------------------
(* backlight_set(): at 0 and at 100 the timer stops, and the pin is low or *)
(* high.                                                                   *)
Set(pct, was) ==
  /\ bright' = pct
  /\ latched' \in IF was # "none" THEN {was}
                 ELSE CASE pct = 0   -> {"low"}
                        [] pct = 100 -> {"none", "high"}
                        [] OTHER     -> {"none"}

(* Power returns, or the processor alone is reset: the signal stops.  The  *)
(* program starts again with its loop's state fresh.                       *)
Restart ==
  /\ phase' = "display" /\ bright' = 0 /\ recovery' = FALSE
  /\ avg' = NoLevel /\ menu' = FALSE /\ menuLit' = FALSE
  /\ step' = NoLevel /\ pending' = NoLevel /\ pendingFor' = 0
  /\ asleep' = FALSE
  /\ UNCHANGED light
PowerOn ==
  Restart /\ porrst' = TRUE /\ early' = TRUE /\ latched' = "none"
WarmReset ==
  /\ Restart /\ UNCHANGED porrst /\ latched' = "low"
  /\ early' = (early /\ phase # "loop")

(* lcd_hw_init(), before main: PC12 is dropped if this is a warm reset.    *)
DisplayInit ==
  /\ phase = "display" /\ phase' = "main"
  /\ Set(Dim, IF porrst THEN latched ELSE "none")
  /\ UNCHANGED <<porrst, early, recovery, light, avg, menu, menuLit, als,
                 asleep>>

(* main, up to its loop: the flag is cleared, the splash is shown. *)
FlagKept == TRUE                          \* mutant: no RMVF
FlagCleared == FALSE
MainStarts ==
  /\ phase = "main" /\ phase' = "loop"
  /\ porrst' = FlagCleared
  /\ recovery' \in BOOLEAN
  /\ Set(Awake, latched) /\ early' = (early /\ latched # "none")
  /\ UNCHANGED <<light, avg, menu, menuLit, als, asleep>>

LightChanges ==
  /\ light' \in Levels \ {light}
  /\ UNCHANGED <<boot, latched, recovery, avg, menu, menuLit, als, bright,
                 asleep>>

Later(t, dt) == IF t + dt < AlsHold THEN t + dt ELSE AlsHold

(* The average moves towards the light, and stays where it is when the     *)
(* conversion stalls.                                                      *)
Between(a, b) == {l \in Levels : l \in a .. b \cup b .. a}
Smoothed == IF avg = NoLevel THEN {NoLevel, light} ELSE Between(avg, light)

(* What leaving the menu makes of the level applied last. *)
StepKept == step                          \* mutant: no re-apply is forced
StepAfterMenu == NoLevel

(* The menu takes the backlight, ambient light does otherwise: a level is  *)
(* applied when it is new and has been seen for AlsHold.                   *)
Lit(base, dt) ==
  LET applied == IF ~menu' /\ menuLit THEN StepAfterMenu ELSE step
      seen    == avg' = pending
      forNow  == Later(pendingFor, dt)
      follows == ~menu' /\ avg' # NoLevel
      applies == follows /\ seen /\ avg' # applied /\ forNow = AlsHold
  IN  /\ menuLit' = menu'
      /\ pending' = IF follows THEN avg' ELSE pending
      /\ pendingFor' = IF follows /\ ~seen THEN 0 ELSE forNow
      /\ step' = IF applies THEN avg' ELSE applied
      /\ Set(IF menu' /\ ~menuLit THEN Full
             ELSE IF applies THEN Shown((Pct[avg'] * 255) \div 100)
             ELSE base, latched)

(* A pass of the awake loop; only keys change the menu. *)
Pass ==
  /\ phase = "loop" /\ ~asleep
  /\ menu' \in BOOLEAN
  /\ avg' \in Smoothed
  /\ Lit(bright, 1)
  /\ UNCHANGED <<boot, recovery, light, asleep>>

(* power_tick(): after a while without activity ... *)
FallAsleep ==
  /\ phase = "loop" /\ ~asleep /\ ~recovery
  /\ asleep' = TRUE
  /\ Set(Dim, latched)
  /\ pendingFor' = Later(pendingFor, 1)
  /\ UNCHANGED <<boot, recovery, light, avg, menu, menuLit, step, pending>>

StayAsleep(dt) ==
  /\ asleep
  /\ pendingFor' = Later(pendingFor, dt)
  /\ UNCHANGED <<boot, latched, recovery, light, avg, menu, menuLit, step,
                 pending, bright, asleep>>

(* ... and at the next activity, which always wakes to the main screen. *)
MainScreen == menu' = FALSE
WakeBrightness == Awake
Wake(dt) ==
  /\ asleep
  /\ asleep' = FALSE
  /\ MainScreen
  /\ avg' \in Smoothed
  /\ Lit(WakeBrightness, dt)
  /\ UNCHANGED <<boot, recovery, light>>

Next ==
  \/ PowerOn \/ WarmReset \/ DisplayInit \/ MainStarts
  \/ LightChanges \/ Pass \/ FallAsleep
  \/ \E dt \in 1 .. SleepTime : StayAsleep(dt) \/ Wake(dt)

Spec == Init /\ [][Next]_vars
-----------------------------------------------------------------------------
(* "How long a light level must hold before the backlight follows it"      *)
(* (ALS_HOLD_MS): once it has, with the menu closed, the backlight is at   *)
(* that level's brightness, however often the menu took it in between; a   *)
(* remote that sleeps may still be as it woke.                             *)
Settled == ~asleep /\ ~menu /\ pending = avg /\ pendingFor = AlsHold
BacklightFollows ==
  Settled /\ avg # NoLevel =>
    \/ bright = Shown((Pct[avg] * 255) \div 100)
    \/ ~recovery /\ bright = Awake

(* "The menu forces the screen bright so it is readable in the dark", the  *)
(* screen of an awake remote is never left at the sleeping duty, and its   *)
(* driver is never left latched by a low input, whatever sleeps, wakes and *)
(* resets come in between - but for a reset before main has cleared the    *)
(* flag that tells it from power-on, after which the boot leaves the       *)
(* driver as it is.                                                        *)
ScreenReadable ==
  phase = "loop" /\ ~asleep =>
    /\ menu => bright = Full
    /\ bright # Dim
    /\ early \/ latched # "low"

(* "Same rule as the LCD backlight: never stop the PWM"                    *)
(* (hx8347_fsmc.c:188), which it says of the keys' light.  A page of the   *)
(* menu does.                                                              *)
NeverStopped == phase = "loop" => bright \notin {0, 100}
=============================================================================
