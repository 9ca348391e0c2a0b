---------------------------- MODULE KeyPathProofs -----------------------------
(***************************************************************************)
(* Proofs about the way of a key press: the menu opens by a hold only, and *)
(* the scan, the line and the driver together keep the promise of          *)
(* RemoteNotes, for every set of keys and all the times.                   *)
(***************************************************************************)
EXTENDS KeyPathProps, TLAPS

USE KeysAssumption, TimesAssumption

(* The time on Backlight is the time since it was reported.                *)
MenuInv ==
  /\ downFor \in 0 .. HoldTime
  /\ IF stable = Local THEN backFor = downFor ELSE backFor = Unset

LEMMA LaterCounts ==
  ASSUME NEW limit \in Nat, NEW t \in 0 .. limit, NEW dt \in Nat
  PROVE  /\ Later(t, dt, limit) \in 0 .. limit /\ Later(t, dt, limit) <= t + dt
         /\ Later(t, dt, limit) >= limit => Later(t, dt, limit) = limit
BY DEF Later

LEMMA Edgeless == NoLine.edge = "NONE" /\ NoLine.edge \notin Edges
BY DEF NoLine, Edges

(* All that is not the main loop leaves its state alone. *)
LEMMA OutsideTheLoop ==
  ASSUME [Next]_vars, ~MainLoop
  PROVE  UNCHANGED <<scan, report, display>>
<1> USE DEF scan, report, display
<1>1. CASE User
  BY <1>1 DEF User, Press, LetGo
<1>2. CASE Driver
  BY <1>2 DEF Driver, LocalLine, Down, Held, Up
<1>3. CASE Trouble
  BY <1>3 DEF Trouble, LoseLine, Transfer, DriverRestarts
<1>4. CASE UNCHANGED vars
  BY <1>4 DEF vars
<1> QED  BY <1>1, <1>2, <1>3, <1>4 DEF Next

LEMMA MenuStep ==
  ASSUME MenuInv, [Next]_vars
  PROVE  MenuInv' /\ (menu = 0 /\ menu' # 0 => stable = Local /\ downFor' = HoldTime)
<1>1. CASE ~MainLoop
  BY <1>1, OutsideTheLoop DEF MenuInv, report, display
<1>2. ASSUME NEW code, NEW touched, NEW dt \in Nat, Pass(code, dt, touched)
      PROVE  MenuInv' /\ (menu = 0 /\ menu' # 0 => stable = Local /\ downFor' = HoldTime)
  <2>1. /\ Later(downFor, dt, HoldTime) \in 0 .. HoldTime
        /\ Later(downFor, dt, HoldTime) >= HoldTime => Later(downFor, dt, HoldTime) = HoldTime
    BY LaterCounts, TimesAssumption DEF MenuInv
  <2>2. downFor' = IF stable' # stable THEN 0 ELSE Later(downFor, dt, HoldTime)
    BY <1>2 DEF Pass, Report
  <2>3. /\ stable = Local => backFor = downFor /\ backFor # Unset
        /\ stable # Local => backFor = Unset
    BY DEF MenuInv, Unset
  <2>4. backFor' = IF stable' # Local THEN Unset
                   ELSE IF backFor = Unset THEN 0 ELSE Later(backFor, dt, HoldTime)
    BY <1>2 DEF Pass, Back
  <2>5. MenuInv'
    BY <2>1, <2>2, <2>3, <2>4 DEF MenuInv
  <2>6. ASSUME menu = 0, menu' # 0 PROVE MenuOpens
    <3>1. menu' = MenuNow
      BY <1>2, <2>6 DEF Pass, PowerTick
    <3>2. MenuAfter(stable') = 0
      BY <2>6 DEF MenuAfter
    <3> QED  BY <2>6, <3>1, <3>2 DEF MenuNow
  <2>7. MenuOpens => stable = Local /\ downFor' = HoldTime
    BY <2>1, <2>2, <2>3, <2>4 DEF MenuOpens
  <2> QED  BY <2>5, <2>6, <2>7
<1>3. CASE MainLoop
  <2>1. 1 \in Nat /\ \A dt \in 1 .. SleepTime : dt \in Nat
    OBVIOUS
  <2> QED  BY <1>2, <1>3, <2>1 DEF MainLoop
<1> QED  BY <1>1, <1>3

(* The menu opens only by a hold of Backlight that has lasted since its    *)
(* press was reported (backlight_held_since in main.c).                    *)
THEOREM TheMenuNeedsAHold == Spec => MenuOpensByHold
<1>1. Init => MenuInv
  BY DEF Init, MenuInv
<1>2. MenuInv /\ [Next]_vars =>
        MenuInv' /\ [menu = 0 /\ menu' # 0 => stable = Local /\ downFor' = HoldTime]_vars
  BY MenuStep
<1> QED  BY <1>1, <1>2, PTL DEF Spec, MenuOpensByHold
-----------------------------------------------------------------------------
(* No more passes in a row misread a held key than the debounce has: one   *)
(* more, and keypad_scan() would believe it released.                      *)
ReadsThrough == MaxMisreads <= DebounceTime

Remote == Keys \ {Local}

(* One key at a time, which stays the one until its UP is delivered; a     *)
(* held key that has been reported is not seen up.                         *)
OneKey ==
  /\ \A k, l \in held : k = l
  /\ stable # NoKey => held \subseteq {stable}
  /\ stable # NoKey /\ held # {} /\ pending = NoKey => pendingFor < misreads
  /\ asleep => stable = NoKey

(* The line is about what was reported last. *)
OnTheLine ==
  /\ line.edge = "DOWN" => stable = line.key /\ ~heldSent
  /\ line.edge = "HELD" => stable = line.key /\ heldSent
  /\ line.edge = "UP" => stable = NoKey /\ held = {}

(* A press is owed a note until its click or its hold. *)
Owed ==
  /\ stable = NoKey => held \cap Remote \subseteq owed
  /\ stable \in Remote /\ ~heldSent => stable \in owed
  /\ line.edge = "HELD" /\ line.key # Local => line.key \in owed
  /\ drvDown # NoKey /\ ~drvHolding => drvDown \in owed

(* Without loss the driver lags behind the reports by the line only. *)
InStep ==
  ~lossy =>
    /\ ~active
    /\ ramping = IF drvHolding THEN {drvDown} ELSE {}
    /\ drvDown = IF line.edge = "DOWN" THEN NoKey
                 ELSE IF line.edge = "UP" /\ line.key # Local THEN line.key
                 ELSE IF stable \in Remote THEN stable ELSE NoKey
    /\ line.edge # "UP" =>
         (drvHolding <=> stable \in Remote /\ heldSent /\ line.edge # "HELD")
    /\ drvHolding => drvDown # NoKey

PathInv == TypeOK /\ OneKey /\ OnTheLine /\ Owed /\ InStep
-----------------------------------------------------------------------------
(* A pass: what it reads, what it believes, and what it puts on the line.  *)
LEMMA PassReads ==
  ASSUME TypeOK, NEW code, NEW dt \in Nat, Reads(code), KeypadScan(code, dt)
  PROVE  /\ code \in Code /\ pending' = code /\ pendingFor' \in 0 .. DebounceTime
         /\ stable' \in Code /\ misreads' \in 0 .. MaxMisreads
         /\ stable' # stable => stable' = code /\ pending = code /\ pendingFor' = DebounceTime
<1>1. /\ Later(pendingFor, dt, DebounceTime) \in 0 .. DebounceTime
      /\ 0 \in 0 .. DebounceTime /\ 0 \in 0 .. MaxMisreads
  <2>1. DebounceTime \in Nat /\ 0 \in 0 .. DebounceTime /\ 0 \in 0 .. MaxMisreads
    OBVIOUS
  <2> QED  BY <2>1, LaterCounts, Zenon DEF TypeOK
<1>2. code \in Code
  <2>1. CASE code = NoKey
    BY <2>1 DEF Code
  <2>2. CASE held # {} /\ code = FirstDown
    BY <2>2 DEF Code, TypeOK, FirstDown
  <2> QED  BY <2>1, <2>2 DEF Reads
<1>3. misreads' \in 0 .. MaxMisreads
  BY <1>1 DEF Reads, TypeOK
<1>4. pending' = code /\ pendingFor' \in 0 .. DebounceTime
  BY <1>1 DEF KeypadScan
<1> QED  BY <1>1, <1>2, <1>3, <1>4 DEF KeypadScan, Believed, TypeOK

LEMMA PassReports ==
  ASSUME TypeOK, NEW dt \in Nat, line = NoLine, stable' \in Code, Report(dt)
  PROVE  /\ downFor' \in 0 .. HoldTime /\ heldSent' \in BOOLEAN
         /\ line' \in [edge : Edges, key : Keys] \cup {NoLine}
<1>1. Later(downFor, dt, HoldTime) \in 0 .. HoldTime /\ 0 \in 0 .. HoldTime
  <2>1. HoldTime \in Nat /\ 0 \in 0 .. HoldTime
    OBVIOUS
  <2> QED  BY <2>1, LaterCounts, Zenon DEF TypeOK
<1>2. downFor' \in 0 .. HoldTime
  BY <1>1 DEF Report
<1>3. heldSent' \in BOOLEAN
  BY DEF Report, TypeOK
<1>4. \A e \in Edges, k \in Keys : Emit(e, k) => line' \in [edge : Edges, key : Keys] \cup {NoLine}
  BY DEF Emit
<1>5. /\ {"DOWN", "HELD", "UP"} \subseteq Edges
      /\ stable # NoKey => stable \in Keys
      /\ stable' # NoKey => stable' \in Keys
  BY DEF Edges, Code, TypeOK
<1>6. line' \in [edge : Edges, key : Keys] \cup {NoLine}
  <2>1. CASE stable' # stable
    BY <1>4, <1>5, <2>1 DEF Report
  <2>2. CASE stable' = stable /\ HeldDue(dt)
    BY <1>4, <1>5, <2>2 DEF Report, HeldDue
  <2>3. CASE stable' = stable /\ ~HeldDue(dt)
    BY <2>3 DEF Report
  <2> QED  BY <2>1, <2>2, <2>3
<1> QED  BY <1>2, <1>3, <1>6

LEMMA PassShows ==
  ASSUME TypeOK, NEW dt \in Nat, NEW touched, backFor' = Back(dt), PowerTick(touched)
  PROVE  backFor' \in 0 .. Unset /\ menu' \in 0 .. Pages /\ asleep' \in BOOLEAN
<1>1. backFor # Unset => backFor \in 0 .. HoldTime
  BY DEF TypeOK, Unset
<1>2. backFor # Unset => Later(backFor, dt, HoldTime) \in 0 .. HoldTime
  BY <1>1, LaterCounts
<1>3. backFor' \in 0 .. Unset
  BY <1>2 DEF Back, Unset
<1>4. MenuAfter(stable') \in 0 .. Pages
  BY DEF MenuAfter, Pages, TypeOK
<1>5. MenuNow \in 0 .. Pages /\ 0 \in 0 .. Pages
  BY <1>4 DEF MenuNow, Pages, TypeOK
<1>6. menu' \in 0 .. Pages
  BY <1>5 DEF PowerTick
<1>7. asleep' \in BOOLEAN
  BY DEF PowerTick
<1> QED  BY <1>3, <1>6, <1>7

LEMMA TypeStep == TypeOK /\ [Next]_vars => TypeOK'
<1> SUFFICES ASSUME TypeOK, [Next]_vars PROVE TypeOK'
  OBVIOUS
<1> USE DEF port, scan, report, display, driver
<1>1. ASSUME NEW code, NEW touched, NEW dt \in Nat, Pass(code, dt, touched)
      PROVE  TypeOK'
  <2>1. /\ Reads(code) /\ KeypadScan(code, dt) /\ line = NoLine /\ Report(dt)
        /\ backFor' = Back(dt) /\ PowerTick(touched)
        /\ UNCHANGED <<lossy, held, active, drvDown, drvHolding, ramping, note, owed>>
    BY <1>1 DEF Pass
  <2>2. /\ pending' \in Code /\ pendingFor' \in 0 .. DebounceTime
        /\ stable' \in Code /\ misreads' \in 0 .. MaxMisreads
    BY <2>1, PassReads
  <2>3. /\ downFor' \in 0 .. HoldTime /\ heldSent' \in BOOLEAN
        /\ line' \in [edge : Edges, key : Keys] \cup {NoLine}
    BY <2>1, <2>2, PassReports
  <2>4. backFor' \in 0 .. Unset /\ menu' \in 0 .. Pages /\ asleep' \in BOOLEAN
    BY <2>1, PassShows
  <2> QED  BY <2>1, <2>2, <2>3, <2>4 DEF TypeOK
<1>2. CASE MainLoop
  <2>1. 1 \in Nat /\ \A dt \in 1 .. SleepTime : dt \in Nat
    OBVIOUS
  <2> QED  BY <1>1, <1>2, <2>1 DEF MainLoop
<1>3. CASE User
  BY <1>3 DEF User, Press, LetGo, TypeOK
<1>4. line.edge \in Edges => line \in [edge : Edges, key : Keys]
  BY Edgeless DEF TypeOK
<1>5. 1 - note.n \in {0, 1}
  BY DEF TypeOK
<1>6. CASE Driver
  <2> USE DEF Code, Edges
  <2>1. CASE LocalLine
    BY <2>1 DEF LocalLine, TypeOK
  <2>2. CASE Down
    BY <1>4, <2>2 DEF Down, TypeOK
  <2>3. CASE Held
    <3>1. line.key \in Keys
      BY <1>4, <2>3 DEF Held
    <3>2. note' \in [key : Code, action : {"click", "hold", "release"}, n : {0, 1}]
      BY <1>5, <2>3, <3>1 DEF Held, Notify
    <3> QED  BY <2>3, <3>1, <3>2 DEF Held, TypeOK
  <2>4. CASE Up
    <3>1. line.key \in Keys
      BY <1>4, <2>4 DEF Up
    <3>2. note' \in [key : Code, action : {"click", "hold", "release"}, n : {0, 1}]
      BY <1>5, <2>4, <3>1 DEF Up, Notify, TypeOK
    <3>3. ramping' \subseteq Keys /\ owed' \subseteq Keys
      BY <2>4 DEF Up, TypeOK
    <3>4. drvDown' \in Code /\ drvHolding' \in BOOLEAN /\ line' = NoLine
      BY <2>4 DEF Up
    <3> QED  BY <2>4, <3>2, <3>3, <3>4 DEF Up, TypeOK
  <2> QED  BY <1>6, <2>1, <2>2, <2>3, <2>4 DEF Driver
<1>7. CASE Trouble
  BY <1>7 DEF Trouble, LoseLine, Transfer, DriverRestarts, TypeOK, Code
<1>8. CASE UNCHANGED vars
  BY <1>8 DEF vars, TypeOK
<1> QED  BY <1>2, <1>3, <1>6, <1>7, <1>8 DEF Next

LEMMA TypeInit == Init => TypeOK
<1>1. /\ 0 \in 0 .. MaxMisreads /\ 0 \in 0 .. DebounceTime /\ 0 \in 0 .. HoldTime
      /\ Unset \in 0 .. Unset /\ 0 \in 0 .. Pages
  BY DEF Unset, Pages
<1>2. NoKey \in Code
  BY DEF Code
<1>3. [key |-> NoKey, action |-> "release", n |-> 0]
        \in [key : Code, action : {"click", "hold", "release"}, n : {0, 1}]
  BY <1>2
<1> QED  BY <1>1, <1>2, <1>3, Zenon DEF Init, TypeOK
-----------------------------------------------------------------------------
(* What a pass puts on the line. *)
LEMMA PassEmits ==
  ASSUME TypeOK, NEW dt \in Nat, line = NoLine, Report(dt)
  PROVE  \/ stable' = stable /\ heldSent' = heldSent /\ line' = NoLine
         \/ /\ stable' = stable /\ stable # NoKey /\ ~heldSent /\ heldSent' = TRUE
            /\ Emit("HELD", stable)
         \/ stable' # stable /\ heldSent' = FALSE /\ stable' = NoKey /\ Emit("UP", stable)
         \/ stable' # stable /\ heldSent' = FALSE /\ stable' # NoKey /\ Emit("DOWN", stable')
BY DEF Report, HeldDue

(* A pass, with one key held at most: it reports the key that is held, or  *)
(* that none is, and a key it has reported only as up when it is.          *)
LEMMA PassChanges ==
  ASSUME TypeOK, OneKey, ReadsThrough, NEW code, NEW dt \in Nat, ~asleep => dt = 1,
         Reads(code), KeypadScan(code, dt), UNCHANGED held
  PROVE  /\ stable' # stable /\ stable' = NoKey => held = {}
         /\ stable' # stable /\ stable' # NoKey => held = {stable'} /\ stable = NoKey
         /\ stable' # NoKey /\ held' # {} /\ pending' = NoKey => pendingFor' < misreads'
<1>1. /\ code \in Code /\ pending' = code /\ pendingFor' \in 0 .. DebounceTime
      /\ stable' \in Code /\ misreads' \in 0 .. MaxMisreads
      /\ stable' # stable => stable' = code /\ pending = code /\ pendingFor' = DebounceTime
  BY PassReads
<1>2. code # NoKey => held = {code}
  <2> SUFFICES ASSUME code # NoKey PROVE held = {code}
    OBVIOUS
  <2>1. held # {} /\ code = FirstDown
    BY DEF Reads
  <2>2. PICK k \in held : held = {k}
    BY <2>1 DEF OneKey
  <2>3. \A l \in held : Rank[k] <= Rank[l]
    BY <2>2 DEF TypeOK
  <2>4. FirstDown \in held
    BY <2>2, <2>3 DEF FirstDown
  <2> QED  BY <2>1, <2>2, <2>4
<1>3. code = NoKey /\ held # {} => misreads < MaxMisreads /\ misreads' = misreads + 1
  BY DEF Reads, FirstDown, TypeOK, OneKey
<1>4. ASSUME stable # NoKey, held # {}, code = NoKey PROVE pendingFor' < misreads'
  <2>1. dt = 1
    BY <1>4 DEF OneKey
  <2>2. pendingFor' = IF pending = NoKey THEN Later(pendingFor, 1, DebounceTime) ELSE 0
    BY <1>4, <2>1 DEF KeypadScan
  <2>3. Later(pendingFor, 1, DebounceTime) <= pendingFor + 1
    BY DEF TypeOK, Later
  <2>4. pending = NoKey => pendingFor < misreads
    BY <1>4 DEF OneKey
  <2>5. pendingFor \in Nat /\ misreads \in Nat
    BY DEF TypeOK
  <2>6. CASE pending = NoKey
    BY <1>3, <1>4, <2>2, <2>3, <2>4, <2>5, <2>6, <1>1
  <2>7. CASE pending # NoKey
    BY <1>3, <1>4, <2>2, <2>5, <2>7
  <2> QED  BY <2>6, <2>7
<1>5. ASSUME stable' # stable, stable' = NoKey PROVE held = {}
  BY <1>1, <1>4, <1>5 DEF ReadsThrough
<1>6. ASSUME stable' # stable, stable' # NoKey PROVE held = {stable'} /\ stable = NoKey
  BY <1>1, <1>2, <1>6 DEF OneKey
<1>7. ASSUME stable' # NoKey, held # {}, pending' = NoKey PROVE pendingFor' < misreads'
  BY <1>1, <1>4, <1>7
<1> QED  BY <1>5, <1>6, <1>7

LEMMA NoLineIs == ASSUME TypeOK PROVE line = NoLine <=> line.edge \notin Edges
BY Edgeless DEF TypeOK

PassStates ==
  /\ OneKey /\ OnTheLine /\ Owed /\ InStep
LEMMA PassStep ==
  ASSUME PathInv, ReadsThrough, NEW code, NEW touched, NEW dt \in Nat, ~asleep => dt = 1,
         Pass(code, dt, touched)
  PROVE  PassStates'
<1>1. /\ Reads(code) /\ KeypadScan(code, dt) /\ line = NoLine /\ Report(dt)
      /\ PowerTick(touched)
      /\ UNCHANGED <<lossy, held, active, drvDown, drvHolding, ramping, owed>>
  BY DEF Pass, driver
<1>2. TypeOK /\ OneKey /\ OnTheLine /\ Owed /\ InStep
  BY DEF PathInv
<1>3. stable' \in Code
  BY <1>1, <1>2, PassReads
<1>4. /\ stable' # stable /\ stable' = NoKey => held = {}
      /\ stable' # stable /\ stable' # NoKey => held = {stable'} /\ stable = NoKey
      /\ stable' # NoKey /\ held' # {} /\ pending' = NoKey => pendingFor' < misreads'
  BY <1>1, <1>2, PassChanges
<1>5. OneKey'
  <2>1. asleep' => stable' = NoKey
    BY <1>1 DEF PowerTick
  <2> QED  BY <1>1, <1>2, <1>4, <2>1 DEF OneKey
<1>7. /\ stable # NoKey => stable \in Keys
      /\ stable' # NoKey => stable' \in Keys
      /\ NoLine.edge = "NONE"
  BY <1>2, <1>3 DEF TypeOK, Code, NoLine
<1> USE DEF OnTheLine, Owed, InStep, Remote
<1>8. CASE stable' = stable /\ heldSent' = heldSent /\ line' = NoLine
  BY <1>1, <1>2, <1>5, <1>8 DEF PassStates
<1>9. CASE /\ stable' = stable /\ stable # NoKey /\ ~heldSent /\ heldSent' = TRUE
           /\ Emit("HELD", stable)
  <2>1. /\ active => line'.edge = "NONE"
        /\ ~active => line'.edge = "HELD" /\ line'.key = stable
    BY <1>7, <1>9 DEF Emit
  <2>2. OnTheLine'
    BY <1>1, <1>2, <1>4, <1>9, <2>1
  <2>3. Owed'
    BY <1>1, <1>2, <1>4, <1>7, <1>9, <2>1
  <2>4. InStep'
    BY <1>1, <1>2, <1>4, <1>7, <1>9, <2>1
  <2> QED  BY <1>5, <2>2, <2>3, <2>4 DEF PassStates
<1>10. CASE stable' # stable /\ heldSent' = FALSE /\ stable' = NoKey /\ Emit("UP", stable)
  <2>1. /\ active => line'.edge = "NONE"
        /\ ~active => line'.edge = "UP" /\ line'.key = stable
    BY <1>7, <1>10 DEF Emit
  <2>2. OnTheLine'
    BY <1>1, <1>2, <1>4, <1>10, <2>1
  <2>3. Owed'
    BY <1>1, <1>2, <1>4, <1>7, <1>10, <2>1
  <2>4. InStep'
    BY <1>1, <1>2, <1>4, <1>7, <1>10, <2>1
  <2> QED  BY <1>5, <2>2, <2>3, <2>4 DEF PassStates
<1>11. CASE stable' # stable /\ heldSent' = FALSE /\ stable' # NoKey /\ Emit("DOWN", stable')
  <2>1. /\ active => line'.edge = "NONE"
        /\ ~active => line'.edge = "DOWN" /\ line'.key = stable'
    BY <1>7, <1>11 DEF Emit
  <2>2. OnTheLine'
    BY <1>1, <1>2, <1>4, <1>11, <2>1
  <2>3. Owed'
    BY <1>1, <1>2, <1>4, <1>7, <1>11, <2>1
  <2>4. InStep'
    BY <1>1, <1>2, <1>4, <1>7, <1>11, <2>1
  <2> QED  BY <1>5, <2>2, <2>3, <2>4 DEF PassStates
<1> QED  BY <1>1, <1>2, <1>8, <1>9, <1>10, <1>11, PassEmits

(* Everything else. *)
LEMMA OtherStep ==
  ASSUME PathInv, ~Rollover, User \/ Driver \/ Trouble \/ UNCHANGED vars
  PROVE  PassStates'
<1>1. TypeOK /\ OneKey /\ OnTheLine /\ Owed /\ InStep
  BY DEF PathInv
<1>2. line = NoLine <=> line.edge \notin Edges
  BY <1>1, NoLineIs
<1>3. /\ stable # NoKey => stable \in Keys
      /\ line.edge \in Edges => line.key \in Keys /\ line.key # NoKey
      /\ NoLine.edge = "NONE"
  BY <1>1, Edgeless DEF TypeOK, Code
<1> USE DEF PassStates, OneKey, OnTheLine, Owed, InStep, Remote, port, scan, report,
            display, driver
<1>4. ASSUME NEW k \in Keys, Press(k) PROVE PassStates'
  <2>1. /\ held = {} /\ stable = NoKey /\ line = NoLine /\ held' = {k}
        /\ owed' = IF k = Local THEN owed ELSE owed \cup {k}
    BY <1>4 DEF Press
  <2>2. UNCHANGED <<port, misreads, scan, report, display, driver>>
    BY <1>4 DEF Press
  <2>3. OneKey' /\ OnTheLine' /\ InStep'
    BY <1>1, <1>3, <2>1, <2>2
  <2>4. Owed'
    BY <1>1, <1>3, <2>1, <2>2
  <2> QED  BY <2>3, <2>4
<1>5. ASSUME NEW k \in Keys, LetGo(k) PROVE PassStates'
  <2>1. held' = held \ {k} /\ k \in held
    BY <1>5 DEF LetGo
  <2>2. UNCHANGED <<port, misreads, scan, report, display, driver, owed>>
    BY <1>5 DEF LetGo
  <2> QED  BY <1>1, <2>1, <2>2
<1>6. CASE LocalLine
  BY <1>1, <1>2, <1>3, <1>6 DEF LocalLine, Edges
<1>7. CASE Down
  <2>1. line.edge = "DOWN" /\ line.key # Local /\ line.key \in Keys
    BY <1>3, <1>7 DEF Down, Edges
  <2>2. /\ drvDown' = line.key /\ drvHolding' = FALSE /\ line' = NoLine
        /\ UNCHANGED <<lossy, held, misreads, scan, report, display, active, ramping,
                       note, owed>>
    BY <1>7 DEF Down
  <2> QED  BY <1>1, <1>3, <2>1, <2>2
<1>8. CASE Held
  <2>1. line.edge = "HELD" /\ line.key # Local /\ line.key \in Keys
    BY <1>3, <1>8 DEF Held, Edges
  <2>2. /\ drvHolding' = TRUE /\ ramping' = ramping \cup {line.key}
        /\ owed' = owed \ {line.key} /\ line' = NoLine
        /\ UNCHANGED <<lossy, active, held, misreads, scan, report, display, drvDown>>
    BY <1>8 DEF Held
  <2>3. InStep'
    BY <1>1, <1>3, <2>1, <2>2
  <2>4. OneKey' /\ OnTheLine' /\ Owed'
    BY <1>1, <1>3, <2>1, <2>2
  <2> QED  BY <2>3, <2>4
<1>9. CASE Up
  <2>1. line.edge = "UP" /\ line.key # Local /\ line.key \in Keys
    BY <1>3, <1>9 DEF Up, Edges
  <2>2. /\ drvDown' = NoKey /\ drvHolding' = FALSE /\ line' = NoLine
        /\ UNCHANGED <<lossy, held, misreads, scan, report, display, active>>
    BY <1>9 DEF Up
  <2>3. drvDown = line.key /\ drvHolding => ramping' = ramping \ {line.key}
    BY <1>9 DEF Up, Closes, WasHolding
  <2>4. ~(drvDown = line.key /\ drvHolding) => ramping' = ramping
    BY <1>9 DEF Up, Closes, WasHolding
  <2>5. InStep'
    BY <1>1, <1>3, <2>1, <2>2, <2>3, <2>4
  <2>6. OneKey' /\ OnTheLine' /\ Owed'
    BY <1>1, <1>3, <2>1, <2>2
  <2> QED  BY <2>5, <2>6
<1>10. CASE LoseLine
  BY <1>1, <1>3, <1>10 DEF LoseLine
<1>11. CASE Transfer
  BY <1>1, <1>11 DEF Transfer
<1>12. CASE DriverRestarts
  BY <1>1, <1>3, <1>12 DEF DriverRestarts
<1>13. CASE UNCHANGED vars
  BY <1>1, <1>13 DEF vars
<1> QED
  BY <1>4, <1>5, <1>6, <1>7, <1>8, <1>9, <1>10, <1>11, <1>12, <1>13
     DEF User, Driver, Trouble

LEMMA PathStep == ~Rollover /\ ReadsThrough /\ PathInv /\ [Next]_vars => PathInv'
<1> SUFFICES ASSUME ~Rollover, ReadsThrough, PathInv, [Next]_vars PROVE PathInv'
  OBVIOUS
<1>1. TypeOK'
  BY TypeStep DEF PathInv
<1>2. PassStates'
  <2>1. CASE MainLoop
    <3>1. 1 \in Nat /\ \A dt \in 1 .. SleepTime : dt \in Nat
      OBVIOUS
    <3>2. PICK code \in Code, touched \in BOOLEAN :
            IF asleep THEN \E dt \in 1 .. SleepTime : Pass(code, dt, touched)
                      ELSE Pass(code, 1, touched)
      BY <2>1 DEF MainLoop
    <3>3. PICK dt \in Nat : Pass(code, dt, touched) /\ (~asleep => dt = 1)
      BY <3>1, <3>2
    <3> QED  BY <3>3, PassStep
  <2>2. CASE ~MainLoop
    BY <2>2, OtherStep DEF Next
  <2> QED  BY <2>1, <2>2
<1> QED  BY <1>1, <1>2 DEF PathInv, PassStates
-----------------------------------------------------------------------------
(* A step of the key path is a step of the promise. *)
LEMMA PromiseStep ==
  ASSUME PathInv, ~Rollover, [Next]_vars
  PROVE  [Promise!Next]_(Promise!vars)
<1>1. TypeOK /\ OneKey /\ OnTheLine /\ Owed /\ InStep
  BY DEF PathInv
<1> USE DEF Promise!vars, port, scan, report, display, driver
<1>2. ASSUME NEW k \in Keys, Press(k) PROVE [Promise!Next]_(Promise!vars)
  <2>1. CASE k = Local
    BY <1>2, <2>1 DEF Press
  <2>2. CASE k # Local
    <3>1. Promise!Press(k)
      BY <1>2, <2>2 DEF Press, Promise!Press
    <3> QED  BY <2>2, <3>1 DEF Promise!Next
  <2> QED  BY <2>1, <2>2
<1>3. CASE (\E k \in Keys : LetGo(k)) \/ MainLoop \/ Trouble \/ UNCHANGED vars
  BY <1>3 DEF LetGo, MainLoop, Pass, Trouble, LoseLine, Transfer, DriverRestarts, vars
<1>4. line.edge \in Edges => line.key \in Keys
  BY <1>1, Edgeless DEF TypeOK
<1>5. CASE LocalLine \/ Down
  BY <1>5 DEF LocalLine, Down
<1>6. CASE Held
  <2>1. line.edge = "HELD" /\ line.key \in Keys \ {Local}
    BY <1>4, <1>6 DEF Held, Edges
  <2>2. line.key \in owed /\ (lossy \/ ramping = {})
    BY <1>1, <2>1 DEF Owed, InStep
  <2>3. Promise!Hold(line.key)
    BY <1>6, <2>2 DEF Held, Notify, Promise!Hold, Promise!Note
  <2> QED  BY <2>1, <2>3 DEF Promise!Next
<1>7. CASE Up
  <2>1. line.edge = "UP" /\ line.key \in Keys \ {Local} /\ line.key # NoKey
    BY <1>4, <1>7 DEF Up, Edges
  <2>2. CASE drvDown # line.key
    BY <1>7, <2>2 DEF Up, Closes
  <2>3. CASE drvDown = line.key /\ drvHolding
    <3>1. lossy \/ line.key \in ramping
      BY <1>1, <2>3 DEF InStep
    <3>2. Promise!Release(line.key)
      BY <1>7, <2>3, <3>1
         DEF Up, Closes, WasHolding, Notify, Promise!Release, Promise!Note
    <3> QED  BY <2>1, <3>2 DEF Promise!Next
  <2>4. CASE drvDown = line.key /\ ~drvHolding
    <3>1. line.key \in owed /\ (lossy \/ ramping = {})
      BY <1>1, <2>1, <2>4 DEF Owed, InStep
    <3>2. Promise!Click(line.key)
      BY <1>7, <2>4, <3>1
         DEF Up, Closes, WasHolding, Notify, Promise!Click, Promise!Note
    <3> QED  BY <2>1, <3>2 DEF Promise!Next
  <2> QED  BY <2>2, <2>3, <2>4
<1> QED
  BY <1>2, <1>3, <1>5, <1>6, <1>7 DEF Next, User, Driver

(* The safety half of "a tap must be exactly one click" (on_event() in     *)
(* lib.rs), never more than one: if keys go down one at a time and no more *)
(* passes in a row misread the matrix than the debounce takes, every       *)
(* behaviour keeps the promise of RemoteNotes, on a port that loses lines  *)
(* too.                                                                    *)
THEOREM ThePromiseIsKept == ~Rollover /\ ReadsThrough => (Spec => OnePressOneNote)
<1> SUFFICES ASSUME ~Rollover, ReadsThrough PROVE Spec => OnePressOneNote
  OBVIOUS
<1>1. Init => PathInv
  <2> SUFFICES ASSUME Init PROVE PathInv
    OBVIOUS
  <2>1. TypeOK
    BY TypeInit
  <2>2. line.edge = "NONE"
    BY DEF Init, NoLine
  <2> QED
    BY <2>1, <2>2 DEF Init, PathInv, OneKey, OnTheLine, Owed, InStep, Remote
<1>2. PathInv /\ [Next]_vars => PathInv'
  BY PathStep
<1>3. Init => Promise!Init
  BY DEF Init, Promise!Init
<1>4. PathInv /\ [Next]_vars => [Promise!Next]_(Promise!vars)
  BY PromiseStep
<1> QED  BY <1>1, <1>2, <1>3, <1>4, PTL DEF Spec, OnePressOneNote, Promise!Spec
=============================================================================
