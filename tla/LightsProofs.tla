----------------------------- MODULE LightsProofs -----------------------------
(***************************************************************************)
(* Proofs about what the remote shows, for every table of light levels and *)
(* every length of the holds.  Each half of the loop keeps an invariant of *)
(* its own; a step of Lights is a step of both.                            *)
(***************************************************************************)
EXTENDS Lights, TLAPS

USE StepsAssumption, PassesAssumption, LedAssumption

-----------------------------------------------------------------------------
(* The conversions of a brightness. *)
Asked(l) == Shown((Pct[l] * 255) \div 100)

LEMMA NoLevelIsNone == NoLevel \notin Levels
<1>1. 100 \in 0 .. 100 /\ 100 \notin Levels
  OBVIOUS
<1> QED  BY <1>1 DEF NoLevel

LEMMA FixedLevels == Awake = 50 /\ Full = 100 /\ Dim = 1
BY DEF Awake, Full, Dim, Shown

LEMMA AskedRange == \A l \in Levels : Asked(l) \in 0 .. 100
<1> SUFFICES ASSUME NEW p \in 1 .. 99
      PROVE  (((p * 255) \div 100) * 100) \div 255 \in 0 .. 100
  BY DEF Asked, Shown
<1> QED  OBVIOUS

(* The least percentage that is shown brighter than the sleeping duty. *)
StepsShow == \A l \in Levels : Pct[l] >= 3

LEMMA AskedShows == StepsShow => \A l \in Levels : Asked(l) > Dim
<1> SUFFICES ASSUME NEW p \in 3 .. 99
      PROVE  (((p * 255) \div 100) * 100) \div 255 > 1
  BY DEF Asked, Shown, StepsShow, Dim
<1>1. (p * 255) \div 100 >= 7
  OBVIOUS
<1> QED  BY <1>1
-----------------------------------------------------------------------------
(* The backlight: types, and what the boot and the menu keep in step.      *)
LightInv ==
  /\ TypeOK
  /\ menuLit = menu
  /\ phase # "loop" => ~menu /\ ~asleep /\ avg = NoLevel /\ step = NoLevel
  /\ asleep => ~recovery

LEMMA Zero == 0 \in 0 .. AlsHold /\ {0, Dim, Awake, Full} \subseteq 0 .. 100
BY FixedLevels

LEMMA SetLatches ==
  ASSUME NEW pct \in 0 .. 100, NEW was \in Latches, Set(pct, was)
  PROVE  /\ bright' = pct /\ latched' \in Latches
         /\ pct # 0 /\ latched' = "low" => was = "low"
BY DEF Set, Latches

LEMMA LightInit == Init => LightInv
<1> SUFFICES ASSUME Init PROVE LightInv
  OBVIOUS
<1>1. TypeOK
  BY Zero, Zenon DEF Init, TypeOK, Latches
<1> QED  BY <1>1 DEF Init, LightInv

(* What a pass that may set the backlight leaves behind.                   *)
LEMMA LitType ==
  ASSUME TypeOK, NEW base \in 0 .. 100, NEW dt \in Nat, Lit(base, dt),
         menu' \in BOOLEAN, avg' \in Levels \cup {NoLevel}
  PROVE  /\ menuLit' = menu' /\ pending' \in Levels \cup {NoLevel}
         /\ pendingFor' \in 0 .. AlsHold /\ step' \in Levels \cup {NoLevel}
         /\ bright' \in 0 .. 100 /\ latched' \in Latches
<1>1. Later(pendingFor, dt) \in 0 .. AlsHold
  BY DEF TypeOK, Later
<1>2. menuLit' = menu'
  BY DEF Lit
<1>3. /\ pending' \in Levels \cup {NoLevel} /\ pendingFor' \in 0 .. AlsHold
      /\ step' \in Levels \cup {NoLevel}
  BY <1>1 DEF Lit, TypeOK, StepAfterMenu
<1>4. bright' \in 0 .. 100 /\ latched' \in Latches
  <2>1. PICK pct \in 0 .. 100 : Set(pct, latched)
    BY AskedRange, FixedLevels, NoLevelIsNone DEF Lit, Asked
  <2> QED  BY <2>1, SetLatches DEF TypeOK
<1> QED  BY <1>2, <1>3, <1>4

LEMMA LightStep == LightInv /\ [Next]_vars => LightInv'
<1> SUFFICES ASSUME LightInv, [Next]_vars PROVE LightInv'
  OBVIOUS
<1> USE FixedLevels DEF LightInv
<1>1. CASE PowerOn \/ WarmReset
  <2>1. TypeOK'
    BY <1>1, Zero, Zenon DEF PowerOn, WarmReset, Restart, TypeOK, Latches
  <2> QED  BY <1>1, <2>1 DEF PowerOn, WarmReset, Restart
<1>2. CASE DisplayInit
  <2>1. PICK was \in Latches : Set(Dim, was)
    BY <1>2 DEF DisplayInit, TypeOK, Latches
  <2>2. bright' = Dim /\ latched' \in Latches
    BY <2>1, Zero, SetLatches
  <2> QED  BY <1>2, <2>2 DEF DisplayInit, TypeOK, als
<1>3. CASE MainStarts
  <2>0. bright' = Awake /\ latched' \in Latches
    BY <1>3, Zero, SetLatches DEF MainStarts, TypeOK
  <2>1. TypeOK'
    BY <1>3, <2>0, Zero, Zenon DEF MainStarts, TypeOK, als, FlagCleared
  <2> QED  BY <1>3, <2>1 DEF MainStarts
<1>4. CASE LightChanges
  BY <1>4 DEF LightChanges, TypeOK, als, boot
<1>5. Smoothed \subseteq Levels \cup {NoLevel}
  BY DEF TypeOK, Smoothed, Between
<1>6. CASE Pass
  <2>1. avg' \in Levels \cup {NoLevel} /\ bright \in 0 .. 100
    BY <1>5, <1>6 DEF Pass, TypeOK
  <2>2. Lit(bright, 1) /\ menu' \in BOOLEAN
    BY <1>6 DEF Pass
  <2> QED  BY <1>6, <2>1, <2>2, LitType DEF Pass, TypeOK, boot
<1>7. CASE FallAsleep
  <2>1. bright' = Dim /\ latched' \in Latches
    BY <1>7, Zero, SetLatches DEF FallAsleep, TypeOK
  <2> QED  BY <1>7, <2>1 DEF FallAsleep, Later, TypeOK, boot
<1>8. ASSUME NEW dt \in 1 .. SleepTime, StayAsleep(dt) PROVE LightInv'
  BY <1>8 DEF StayAsleep, Later, TypeOK, boot
<1>9. ASSUME NEW dt \in 1 .. SleepTime, Wake(dt) PROVE LightInv'
  <2>1. avg' \in Levels \cup {NoLevel} /\ WakeBrightness \in 0 .. 100
    BY <1>5, <1>9 DEF Wake, WakeBrightness
  <2>2. Lit(WakeBrightness, dt) /\ menu' = FALSE /\ dt \in Nat
    BY <1>9 DEF Wake, MainScreen
  <2>3. TypeOK'
    <3>1. /\ menuLit' \in BOOLEAN /\ pending' \in Levels \cup {NoLevel}
          /\ pendingFor' \in 0 .. AlsHold /\ step' \in Levels \cup {NoLevel}
          /\ bright' \in 0 .. 100 /\ latched' \in Latches
      <4>1. menu' \in BOOLEAN
        BY <2>2
      <4> QED  BY <2>1, <2>2, <4>1, LitType, Zenon
    <3> QED  BY <1>9, <2>1, <2>2, <3>1, Zenon DEF Wake, TypeOK, boot
  <2>4. menuLit' = menu'
    BY <2>2 DEF Lit
  <2> QED  BY <1>9, <2>3, <2>4 DEF Wake, boot
<1>10. CASE UNCHANGED vars
  BY <1>10 DEF vars, als, boot, TypeOK
<1> QED
  BY <1>1, <1>2, <1>3, <1>4, <1>6, <1>7, <1>8, <1>9, <1>10 DEF Next
-----------------------------------------------------------------------------
(* A step of Lights is a step of each half. *)
LEMMA LightsStep ==
  [LightsNext]_<<vars, indicator>> => [Next]_vars /\ [Led!Next]_(Led!vars)
<1> SUFFICES ASSUME [LightsNext]_<<vars, indicator>>
      PROVE  [Next]_vars /\ [Led!Next]_(Led!vars)
  OBVIOUS
<1>1. CASE Restarts
  BY <1>1 DEF Restarts, Next, Led!Next
<1>2. CASE Boots
  BY <1>2 DEF Boots, DisplayInit, MainStarts, Next, indicator, Led!vars, Led!supply
<1>3. CASE Outside
  BY <1>3 DEF Outside, LightChanges, Next, Led!Next, indicator, Led!vars, Led!supply
<1>4. CASE Passes
  BY <1>4 DEF Passes, Next, Led!Next
<1>5. CASE Sleeps \/ Wakes
  BY <1>5 DEF Sleeps, Wakes, Next, Led!Next
<1>6. CASE UNCHANGED <<vars, indicator>>
  BY <1>6 DEF vars, indicator, Led!vars, Led!supply
<1> QED
  BY <1>1, <1>2, <1>3, <1>4, <1>5, <1>6 DEF LightsNext
-----------------------------------------------------------------------------
(* The level applied last is what the screen shows, but for a remote that  *)
(* still is as it woke; and a level that has held has been applied.        *)
FollowInv ==
  /\ LightInv
  /\ ~asleep /\ ~menu /\ step # NoLevel =>
       bright = Asked(step) \/ (~recovery /\ bright = Awake)
  /\ Settled /\ avg # NoLevel => step = avg

LEMMA LitFollows ==
  ASSUME TypeOK, NEW base, NEW dt \in Nat, Lit(base, dt), avg' \in Levels \cup {NoLevel}
  PROVE  /\ ~menu' /\ step' # NoLevel =>
              bright' = Asked(step') \/ (step' = step /\ ~menuLit /\ bright' = base)
         /\ ~menu' /\ avg' # NoLevel /\ pending' = avg' /\ pendingFor' = AlsHold =>
              step' = avg'
<1> USE DEF Lit, Set, Asked, StepAfterMenu
<1>1. ASSUME ~menu', step' # NoLevel
      PROVE  bright' = Asked(step') \/ (step' = step /\ ~menuLit /\ bright' = base)
  BY <1>1
<1>2. ASSUME ~menu', avg' # NoLevel, pendingFor' = AlsHold PROVE step' = avg'
  BY <1>2
<1> QED  BY <1>1, <1>2

LEMMA FollowStep == FollowInv /\ [Next]_vars => FollowInv'
<1> SUFFICES ASSUME FollowInv, [Next]_vars PROVE FollowInv'
  OBVIOUS
<1>0. LightInv /\ LightInv' /\ TypeOK
  BY LightStep DEF FollowInv, LightInv
<1> USE DEF FollowInv, Settled
<1>1. CASE PowerOn \/ WarmReset
  BY <1>0, <1>1 DEF PowerOn, WarmReset, Restart
<1>2. CASE DisplayInit \/ MainStarts
  BY <1>0, <1>2 DEF DisplayInit, MainStarts, als, LightInv
<1>3. CASE LightChanges \/ UNCHANGED vars
  BY <1>0, <1>3 DEF LightChanges, vars, als, boot
<1>4. Smoothed \subseteq Levels \cup {NoLevel}
  BY <1>0 DEF TypeOK, Smoothed, Between
<1>5. CASE Pass
  <2>1. Lit(bright, 1) /\ avg' \in Levels \cup {NoLevel} /\ UNCHANGED <<recovery, asleep>>
    BY <1>4, <1>5 DEF Pass
  <2>2. menuLit = menu /\ ~asleep
    BY <1>0, <1>5 DEF LightInv, Pass
  <2> QED  BY <1>0, <2>1, <2>2, LitFollows
<1>6. CASE FallAsleep
  BY <1>0, <1>6 DEF FallAsleep
<1>7. ASSUME NEW dt \in 1 .. SleepTime, StayAsleep(dt) PROVE FollowInv'
  BY <1>0, <1>7 DEF StayAsleep
<1>8. ASSUME NEW dt \in 1 .. SleepTime, Wake(dt) PROVE FollowInv'
  <2>1. /\ Lit(Awake, dt) /\ avg' \in Levels \cup {NoLevel} /\ UNCHANGED recovery
        /\ dt \in Nat
    BY <1>4, <1>8 DEF Wake, WakeBrightness
  <2>2. ~recovery
    BY <1>0, <1>8 DEF Wake, LightInv
  <2> QED  BY <1>0, <2>1, <2>2, LitFollows
<1> QED
  BY <1>1, <1>2, <1>3, <1>5, <1>6, <1>7, <1>8 DEF Next

(* A level that has held is on the screen, however often the menu, a sleep *)
(* or a reset took the backlight in between (ALS_HOLD_MS in main.c).       *)
THEOREM TheLightIsFollowed == LightsSpec => []BacklightFollows
<1>1. LightsInit => FollowInv
  BY LightInit DEF LightsInit, Init, FollowInv
<1>2. FollowInv /\ [LightsNext]_<<vars, indicator>> => FollowInv'
  BY LightsStep, FollowStep
<1>3. FollowInv => BacklightFollows
  BY DEF FollowInv, BacklightFollows, Settled, Asked
<1> QED  BY <1>1, <1>2, <1>3, PTL DEF LightsSpec
-----------------------------------------------------------------------------
(* The screen.  A driver latched low that nobody has given three seconds   *)
(* without power to goes with a flag that still says power-on, so with a   *)
(* reset that came before main had cleared it.                             *)
ScreenInv ==
  /\ LightInv
  /\ phase = "loop" => ~porrst
  /\ phase # "loop" /\ porrst => early
  /\ phase # "display" /\ latched = "low" => early
  /\ phase = "loop" /\ ~asleep => bright > Dim /\ (menu => bright = Full)

LEMMA LitShows ==
  ASSUME StepsShow, TypeOK, menuLit = menu, NEW base \in 0 .. 100, NEW dt \in Nat,
         Lit(base, dt), base > Dim, menu => base = Full \/ ~menu',
         avg' \in Levels \cup {NoLevel}
  PROVE  /\ bright' > Dim /\ (menu' => bright' = Full)
         /\ latched' = "low" => latched = "low"
<1>1. \A l \in Levels : Asked(l) > Dim /\ Asked(l) \in 0 .. 100
  BY AskedRange, AskedShows
<1>2. bright' > Dim /\ (menu' => bright' = Full)
  BY <1>1, FixedLevels DEF Lit, Set, Asked
<1>3. PICK pct \in 0 .. 100 : Set(pct, latched)
  BY <1>1, FixedLevels DEF Lit, Asked
<1>4. bright' = pct /\ (pct # 0 /\ latched' = "low" => latched = "low")
  BY <1>3, SetLatches DEF TypeOK
<1> QED  BY <1>2, <1>4, FixedLevels

LEMMA ScreenStep == StepsShow /\ ScreenInv /\ [Next]_vars => ScreenInv'
<1> SUFFICES ASSUME StepsShow, ScreenInv, [Next]_vars PROVE ScreenInv'
  OBVIOUS
<1>0. LightInv /\ LightInv' /\ TypeOK
  BY LightStep DEF ScreenInv, LightInv
<1> USE DEF ScreenInv
<1>1. CASE PowerOn \/ WarmReset
  <2>1. phase' = "display" /\ ~asleep'
    BY <1>1 DEF PowerOn, WarmReset, Restart
  <2>2. porrst' => early'
    BY <1>0, <1>1 DEF PowerOn, WarmReset, TypeOK
  <2> QED  BY <1>0, <2>1, <2>2
<1>2. CASE DisplayInit
  <2>1. latched' = "low" => latched = "low" /\ porrst
    BY <1>0, <1>2, FixedLevels DEF DisplayInit, Set, TypeOK, Latches
  <2> QED  BY <1>0, <1>2, <2>1 DEF DisplayInit
<1>3. CASE MainStarts
  <2>1. (latched' = "low" => latched = "low") /\ bright' = Awake /\ ~menu'
    BY <1>0, <1>3, FixedLevels DEF MainStarts, Set, LightInv, TypeOK
  <2>2. phase' = "loop" /\ ~porrst'
    BY <1>3 DEF MainStarts, FlagCleared
  <2>3. latched' = "low" => early'
    BY <1>0, <1>3, <2>1 DEF MainStarts, TypeOK
  <2>4. bright' > Dim
    BY <2>1, FixedLevels
  <2> QED  BY <1>0, <2>1, <2>2, <2>3, <2>4
<1>4. CASE LightChanges \/ UNCHANGED vars
  BY <1>0, <1>4 DEF LightChanges, vars, als, boot
<1>5. Smoothed \subseteq Levels \cup {NoLevel}
  BY <1>0 DEF TypeOK, Smoothed, Between
<1>6. CASE Pass
  <2>1. /\ Lit(bright, 1) /\ avg' \in Levels \cup {NoLevel} /\ UNCHANGED <<boot, asleep>>
        /\ phase = "loop" /\ ~asleep /\ bright \in 0 .. 100 /\ menuLit = menu
    BY <1>0, <1>5, <1>6 DEF Pass, TypeOK, LightInv
  <2>2. bright' > Dim /\ (menu' => bright' = Full) /\ (latched' = "low" => latched = "low")
    BY <1>0, <2>1, LitShows
  <2> QED  BY <1>0, <2>1, <2>2 DEF boot
<1>7. CASE FallAsleep
  <2>1. latched' = "low" => latched = "low"
    BY <1>0, <1>7, FixedLevels DEF FallAsleep, Set, TypeOK
  <2> QED  BY <1>0, <1>7, <2>1 DEF FallAsleep, boot
<1>8. ASSUME NEW dt \in 1 .. SleepTime, StayAsleep(dt) PROVE ScreenInv'
  BY <1>0, <1>8 DEF StayAsleep, boot
<1>9. ASSUME NEW dt \in 1 .. SleepTime, Wake(dt) PROVE ScreenInv'
  <2>1. /\ Lit(Awake, dt) /\ avg' \in Levels \cup {NoLevel} /\ UNCHANGED boot
        /\ ~menu' /\ menuLit = menu /\ dt \in Nat
    BY <1>0, <1>5, <1>9 DEF Wake, WakeBrightness, MainScreen, LightInv
  <2>2. Awake \in 0 .. 100 /\ Awake > Dim
    BY FixedLevels
  <2>3. bright' > Dim /\ (menu' => bright' = Full) /\ (latched' = "low" => latched = "low")
    BY <1>0, <2>1, <2>2, LitShows
  <2> QED  BY <1>0, <2>1, <2>3 DEF boot
<1> QED
  BY <1>1, <1>2, <1>3, <1>4, <1>6, <1>7, <1>8, <1>9 DEF Next

(* If every level is shown brighter than a sleeping screen, an awake one   *)
(* can be read, bright for the menu and its driver never latched by a low  *)
(* input, but after a reset that came before main (docs/BACKLIGHT.md).     *)
THEOREM TheScreenIsReadable == StepsShow => (LightsSpec => []ScreenReadable)
<1> SUFFICES ASSUME StepsShow PROVE LightsSpec => []ScreenReadable
  OBVIOUS
<1>1. LightsInit => ScreenInv
  BY LightInit DEF LightsInit, Init, ScreenInv
<1>2. ScreenInv /\ [LightsNext]_<<vars, indicator>> => ScreenInv'
  BY LightsStep, ScreenStep
<1>3. ScreenInv => ScreenReadable
  BY FixedLevels DEF ScreenInv, ScreenReadable, LightInv, TypeOK
<1> QED  BY <1>1, <1>2, <1>3, PTL DEF LightsSpec
-----------------------------------------------------------------------------
(* The indicator. *)
LedInv == Led!TypeOK /\ ShowsTheState

LEMMA LedFacts ==
  LedHold \in 0 .. LedHold /\ Led!Dark \notin Led!Colours
BY DEF Led!Dark, Led!Colours

LEMMA LedInit == Led!Init => LedInv
<1> SUFFICES ASSUME Led!Init PROVE LedInv
  OBVIOUS
<1>1. Led!TypeOK
  BY LedFacts, Zenon DEF Led!Init, Led!TypeOK
<1>2. ShowsTheState
  BY LedFacts DEF Led!Init, ShowsTheState, Led!ShowsTheState
<1> QED  BY <1>1, <1>2 DEF LedInv

(* What a report leaves behind: a colour or none, and after the hold the   *)
(* colour of the state.                                                    *)
LEMMA ReportShows ==
  ASSUME Led!TypeOK, NEW l \in Led!Colours \cup {Led!Dark},
         NEW c \in SUBSET Led!Colours, NEW dt \in Nat,
         l # Led!Dark => c = {l},
         Led!Report([last |-> l, shown |-> c], dt)
  PROVE  /\ ledPending' \in Led!Colours \cup {Led!Dark}
         /\ last' \in Led!Colours \cup {Led!Dark}
         /\ ledFor' \in 0 .. LedHold /\ shown' \subseteq Led!Colours
         /\ last' # Led!Dark => shown' = {last'}
         /\ ledFor' = LedHold => last' = ledPending'
<1>1. Led!Wanted \in Led!Colours \cup {Led!Dark}
  BY DEF Led!Wanted, Led!Colours, Led!Dark
<1> QED
  BY <1>1 DEF Led!Report, Led!Later, Led!TypeOK, Led!Colours, Led!Dark

LEMMA LedStep == LedInv /\ [Led!Next]_(Led!vars) => LedInv'
<1> SUFFICES ASSUME LedInv, [Led!Next]_(Led!vars) PROVE LedInv'
  OBVIOUS
<1> USE DEF LedInv, ShowsTheState, Led!ShowsTheState, Led!supply
<1>1. CASE Led!SupplyChanges
  BY <1>1 DEF Led!SupplyChanges, Led!TypeOK
<1>2. CASE Led!Restart
  <2>1. Led!TypeOK'
    BY <1>2, LedFacts, Zenon DEF Led!Restart, Led!TypeOK
  <2> QED  BY <1>2, <2>1, LedFacts DEF Led!Restart
<1>3. Led!LowNow \subseteq BOOLEAN
  BY DEF Led!LowNow, Led!TypeOK
<1>4. CASE Led!Pass
  <2>1. /\ Led!Report([last |-> last, shown |-> shown], 1) /\ low' \in BOOLEAN
        /\ UNCHANGED <<charger, complete, band, asleep>>
    BY <1>3, <1>4 DEF Led!Pass
  <2>2. last # Led!Dark => shown = {last}
    BY <1>4 DEF Led!Pass
  <2> QED  BY <2>1, <2>2, ReportShows DEF Led!TypeOK
<1>5. CASE Led!FallAsleep
  BY <1>5 DEF Led!FallAsleep, Led!Later, Led!TypeOK
<1>6. ASSUME NEW dt \in 1 .. SleepTime, Led!StayAsleep(dt) PROVE LedInv'
  BY <1>6 DEF Led!StayAsleep, Led!Later, Led!TypeOK
<1>7. ASSUME NEW dt \in 1 .. SleepTime, Led!Wake(dt) PROVE LedInv'
  <2>1. PICK kept \in {shown, {}} :
          Led!Report([last |-> Led!Dark, shown |-> kept], dt)
    BY <1>7 DEF Led!Wake, Led!LastOnWake
  <2>2. /\ low' \in BOOLEAN /\ UNCHANGED <<charger, complete, band>> /\ asleep' = FALSE
        /\ dt \in Nat /\ kept \in SUBSET Led!Colours
    BY <1>3, <1>7 DEF Led!Wake, Led!TypeOK
  <2> QED  BY <2>1, <2>2, ReportShows DEF Led!TypeOK
<1>8. CASE UNCHANGED Led!vars
  BY <1>8 DEF Led!vars, Led!TypeOK
<1> QED
  BY <1>1, <1>2, <1>4, <1>5, <1>6, <1>7, <1>8 DEF Led!Next

(* The indicator shows the state that has held and nothing else, across    *)
(* any sleeps, resets, plugs and unplugs (LED_HOLD_MS in main.c).          *)
THEOREM TheStateIsShown == LightsSpec => []ShowsTheState
<1>1. LightsInit => LedInv
  BY LedInit DEF LightsInit
<1>2. LedInv /\ [LightsNext]_<<vars, indicator>> => LedInv'
  BY LightsStep, LedStep
<1>3. LedInv => ShowsTheState
  BY DEF LedInv
<1> QED  BY <1>1, <1>2, <1>3, PTL DEF LightsSpec
=============================================================================
