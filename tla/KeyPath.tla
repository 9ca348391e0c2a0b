------------------------------- MODULE KeyPath -------------------------------
(***************************************************************************)
(* A key press on its way to a room: the scan and its debounce             *)
(* (src/keypad.c), the key part of the main loop (src/main.c), the line on *)
(* the USB port and the Juno driver (juno-driver/src/lib.rs).  What the    *)
(* main loop hands to the radio (zbnet_send_key) is not followed here.     *)
(***************************************************************************)
EXTENDS Naturals

CONSTANTS
  Keys,          \* the keys of the handset
  NoKey,         \* KEY_NONE
  Local,         \* the key that belongs to the handset (Backlight)
  Rank,          \* the order in which scan_once() looks at the keys
  Nav,           \* what a key does in the menu: "down", "up", "exit", "other"
  DebounceTime,  \* KEY_DEBOUNCE_MS, in passes of the awake main loop
  HoldTime,      \* KEY_HOLD_MS, likewise
  SleepTime,     \* a pass of the sleeping loop (wake_wait), likewise
  MaxMisreads,   \* passes in a row that may fail to see a held key
  Rollover       \* a key may go down before the last one's UP is delivered

ASSUME KeysAssumption ==
  /\ Local \in Keys /\ NoKey \notin Keys
  /\ Rank \in [Keys -> Nat]
  /\ \A k, l \in Keys : Rank[k] = Rank[l] => k = l
  /\ Nav \in [Keys -> {"down", "up", "exit", "other"}]
ASSUME TimesAssumption ==
  /\ DebounceTime \in Nat \ {0} /\ HoldTime \in Nat \ {0}
  /\ SleepTime \in Nat \ {0} /\ MaxMisreads \in Nat
  /\ Rollover \in BOOLEAN

Code == Keys \cup {NoKey}
Edges == {"DOWN", "HELD", "UP"}
Pages == 3
NoLine == [edge |-> "NONE", key |-> NoKey]

VARIABLES
  lossy,        \* lines are lost, transfers begin, the driver restarts
  held,         \* keys physically down
  misreads,     \* passes in a row that failed to see them
  pending,      \* what the last pass read
  pendingFor,   \* ... and for how long, up to DebounceTime
  stable,       \* the debounced key, as the main loop last reported it
  downFor,      \* time since the last report, up to HoldTime
  heldSent,     \* key_held_sent
  backFor,      \* time on Backlight, up to HoldTime; Unset: not on it
  menu,         \* the page of the menu, 0 when closed
  asleep,       \* the display is off and the loop blocks in wake_wait()
  active,       \* a transfer is in progress: nothing is emitted
  line,         \* the line on its way to the driver
  drvDown,      \* the driver's DOWN
  drvHolding,   \* the driver's HOLDING
  ramping,      \* keys a consumer was told are held and not released
  note,         \* the latest note to the room, numbered modulo 2
  owed          \* history: keys whose press has not been noted yet

Unset == HoldTime + 1

scan    == <<pending, pendingFor>>
report  == <<stable, downFor, heldSent>>
display == <<backFor, menu, asleep>>
driver  == <<drvDown, drvHolding, ramping, note>>
port == <<lossy, active, line>>
vars == <<port, held, misreads, scan, report, display, driver, owed>>

TypeOK ==
  /\ lossy \in BOOLEAN
  /\ held \subseteq Keys /\ misreads \in 0 .. MaxMisreads
  /\ pending \in Code /\ pendingFor \in 0 .. DebounceTime
  /\ stable \in Code /\ downFor \in 0 .. HoldTime /\ heldSent \in BOOLEAN
  /\ backFor \in 0 .. Unset /\ menu \in 0 .. Pages /\ asleep \in BOOLEAN
  /\ active \in BOOLEAN
  /\ line \in [edge : Edges, key : Keys] \cup {NoLine}
  /\ drvDown \in Code /\ drvHolding \in BOOLEAN
  /\ ramping \subseteq Keys /\ owed \subseteq Keys
  /\ note \in [key : Code, action : {"click", "hold", "release"}, n : {0, 1}]

Init ==
  /\ lossy \in BOOLEAN
  /\ held = {} /\ misreads = 0
  /\ pending = NoKey /\ pendingFor = 0
  /\ stable = NoKey /\ downFor = 0 /\ heldSent = FALSE
  /\ backFor = Unset /\ menu = 0 /\ asleep = FALSE
  /\ active = FALSE /\ line = NoLine
  /\ drvDown = NoKey /\ drvHolding = FALSE
  /\ ramping = {} /\ note = [key |-> NoKey, action |-> "release", n |-> 0]
  /\ owed = {}
-----------------------------------------------------------------------------
(***************************************************************************)
(* The user.                                                               *)
(***************************************************************************)
Press(k) ==
  /\ k \notin held
  /\ Rollover \/ (held = {} /\ stable = NoKey /\ line = NoLine)
  /\ held' = held \cup {k}
  /\ owed' = IF k = Local THEN owed ELSE owed \cup {k}
  /\ UNCHANGED <<port, misreads, scan, report, display, driver>>

LetGo(k) ==
  /\ k \in held
  /\ held' = held \ {k}
  /\ UNCHANGED <<port, misreads, scan, report, display, driver, owed>>
-----------------------------------------------------------------------------
(***************************************************************************)
(* One pass of the main loop.                                              *)
(***************************************************************************)

(* scan_once(): the first key that is down, or none; a pass may misread.   *)
FirstDown == CHOOSE k \in held : \A l \in held : Rank[k] <= Rank[l]
Reads(code) ==
  \/ held # {} /\ code = FirstDown /\ misreads' = 0
  \/ held = {} /\ code = NoKey /\ misreads' = 0
  \/ held # {} /\ code = NoKey /\ misreads < MaxMisreads
     /\ misreads' = misreads + 1

Later(t, dt, limit) == IF t + dt < limit THEN t + dt ELSE limit

(* keypad_scan(): a reading is believed once it has lasted. *)
BelievedAtOnce(code) == code = pending                 \* mutant: no debounce
Believed(code) ==
  code = pending /\ pendingFor' >= DebounceTime

KeypadScan(code, dt) ==
  /\ pending' = code
  /\ pendingFor' = IF code = pending THEN Later(pendingFor, dt, DebounceTime)
                                     ELSE 0
  /\ stable' = IF Believed(code) THEN code ELSE stable

(* updater_emit(): nothing leaves while a transfer is in progress. *)
Emit(edge, k) ==
  line' = IF active THEN NoLine ELSE [edge |-> edge, key |-> k]

(* What a new key does to an open menu. *)
MenuAfter(k) ==
  CASE menu # 0 /\ Nav[k] = "down" /\ menu < Pages -> menu + 1
    [] menu # 0 /\ Nav[k] = "up" /\ menu > 1       -> menu - 1
    [] Nav[k] = "exit"                             -> 0
    [] OTHER                                       -> menu

(* A key held since the last report crosses the threshold, once. *)
HeldDue(dt) == stable # NoKey /\ ~heldSent /\ downFor + dt >= HoldTime

(* The report of a key transition, or of a hold. *)
Report(dt) ==
  \/ /\ stable' # stable
     /\ downFor' = 0 /\ heldSent' = FALSE
     /\ IF stable' = NoKey THEN Emit("UP", stable) ELSE Emit("DOWN", stable')
  \/ /\ stable' = stable
     /\ downFor' = Later(downFor, dt, HoldTime)
     /\ IF HeldDue(dt) THEN heldSent' = TRUE /\ Emit("HELD", stable)
                       ELSE UNCHANGED <<heldSent, line>>

(* Time on Backlight; a menu opens when it has been held. *)
BackKept(dt) ==                          \* mutant: the timer is never reset
  IF stable' # Local THEN backFor
  ELSE IF backFor = Unset THEN 0 ELSE Later(backFor, dt, HoldTime)
Back(dt) ==
  IF stable' # Local THEN Unset
  ELSE IF backFor = Unset THEN 0 ELSE Later(backFor, dt, HoldTime)

MenuOpens == stable' = Local /\ backFor # Unset /\ backFor' >= HoldTime

MenuNow ==
  LET m == IF stable' # stable /\ stable' # NoKey THEN MenuAfter(stable')
                                                 ELSE menu
  IN  IF m = 0 /\ MenuOpens THEN 1 ELSE m

(* power_tick(): a key, a touch or motion wakes the remote, on the main    *)
(* screen; it may sleep when there is none of them.                        *)
PowerTick(touched) ==
  \/ /\ asleep /\ (touched \/ stable' # NoKey)
     /\ asleep' = FALSE /\ menu' = 0
  \/ /\ asleep /\ ~touched /\ stable' = NoKey
     /\ asleep' = TRUE /\ menu' = MenuNow
  \/ /\ ~asleep
     /\ asleep' \in IF touched \/ stable' # NoKey THEN {FALSE} ELSE BOOLEAN
     /\ menu' = MenuNow

Pass(code, dt, touched) ==
  /\ line = NoLine
  /\ Reads(code)
  /\ KeypadScan(code, dt)
  /\ Report(dt)
  /\ backFor' = Back(dt)
  /\ PowerTick(touched)
  /\ UNCHANGED <<lossy, held, active, driver, owed>>

MainLoop ==
  \E code \in Code, touched \in BOOLEAN :
    IF asleep THEN \E dt \in 1 .. SleepTime : Pass(code, dt, touched)
              ELSE Pass(code, 1, touched)
-----------------------------------------------------------------------------
(***************************************************************************)
(* The driver: on_event().                                                 *)
(***************************************************************************)
Notify(k, action) == note' = [key |-> k, action |-> action, n |-> 1 - note.n]

LocalLine ==
  /\ line # NoLine /\ line.key = Local
  /\ line' = NoLine
  /\ UNCHANGED <<lossy, active, held, misreads, scan, report, display, driver,
                 owed>>

Down ==
  /\ line.edge = "DOWN" /\ line.key # Local
  /\ drvDown' = line.key /\ drvHolding' = FALSE
  /\ line' = NoLine
  /\ UNCHANGED <<lossy, held, misreads, scan, report, display, active, ramping,
                 note, owed>>

Held ==
  /\ line.edge = "HELD" /\ line.key # Local
  /\ drvHolding' = TRUE
  /\ ramping' = ramping \cup {line.key}
  /\ Notify(line.key, "hold")
  /\ owed' = owed \ {line.key}
  /\ line' = NoLine
  /\ UNCHANGED <<lossy, active, held, misreads, scan, report, display,
                 drvDown>>

(* An UP closes the key the driver remembers, and no other. *)
Closes == drvDown = line.key
(* ... with a release if it was held. *)
HoldingForgotten == FALSE                 \* mutant: read after it is removed
WasHolding == drvHolding

Up ==
  /\ line.edge = "UP" /\ line.key # Local
  /\ drvDown' = NoKey /\ drvHolding' = FALSE
  /\ line' = NoLine
  /\ IF ~Closes THEN UNCHANGED <<ramping, note, owed>>
     ELSE IF WasHolding
     THEN /\ ramping' = ramping \ {line.key}
          /\ Notify(line.key, "release")
          /\ UNCHANGED owed
     ELSE /\ Notify(line.key, "click")
          /\ owed' = owed \ {line.key}
          /\ UNCHANGED ramping
  /\ UNCHANGED <<lossy, held, misreads, scan, report, display, active>>

Driver == LocalLine \/ Down \/ Held \/ Up
-----------------------------------------------------------------------------
(***************************************************************************)
(* What goes wrong between the two.                                        *)
(***************************************************************************)
LoseLine ==
  /\ lossy /\ line # NoLine
  /\ line' = NoLine
  /\ UNCHANGED <<lossy, active, held, misreads, scan, report, display, driver,
                 owed>>

Transfer ==
  /\ lossy
  /\ active' = ~active
  /\ UNCHANGED <<lossy, line, held, misreads, scan, report, display, driver,
                 owed>>

DriverRestarts ==
  /\ lossy
  /\ drvDown' = NoKey /\ drvHolding' = FALSE
  /\ UNCHANGED <<port, held, misreads, scan, report, display, ramping, note,
                 owed>>
-----------------------------------------------------------------------------
User == \E k \in Keys : Press(k) \/ LetGo(k)
Trouble == LoseLine \/ Transfer \/ DriverRestarts

Next == User \/ MainLoop \/ Driver \/ Trouble

(* The main loop keeps running and the driver keeps reading the port. *)
Fairness == WF_vars(MainLoop) /\ WF_vars(Driver)

Spec == Init /\ [][Next]_vars
FairSpec == Spec /\ Fairness
=============================================================================
