---------------------------- MODULE WakePathProofs ----------------------------
(***************************************************************************)
(* Proofs about how a sleeping remote notices its user, for every debounce *)
(* and wait time.  What they rest on is that a wait is entered with the    *)
(* inputs just looked at, or with the panel just blanked since they were,  *)
(* so that what has come since is no older than the part of the two that   *)
(* has passed, and that whatever gives the semaphore has not let any of    *)
(* the wait pass.  What is older when the loop falls asleep has been there *)
(* for a reading of the key or of LVGL at most: the loop has been awake    *)
(* for longer than either.                                                 *)
(***************************************************************************)
EXTENDS WakePath, TLAPS

USE TimesAssumption

Down == key # "none"

WakeTypes ==
  /\ recovery \in BOOLEAN /\ finger \in BOOLEAN /\ int1 \in BOOLEAN
  /\ down \in BOOLEAN /\ misread \in BOOLEAN
  /\ sem \in BOOLEAN /\ asleep \in BOOLEAN
  /\ key \in Codes /\ pending \in Codes /\ stable \in Codes
  /\ keyFor \in 0 .. Long /\ fingerFor \in 0 .. Long /\ int1For \in 0 .. Long
  /\ pendingFor \in 0 .. DebounceTime
  /\ idleFor \in 0 .. SleepAfter + 1 /\ unread \in 0 .. ReadEvery
  /\ pc \in {"scan", "look", "blank", "wait", "nap"} /\ left \in Nat

(* Only a sleeping remote waits or blanks, and only an awake one naps. *)
Turns == /\ pc = "wait" => asleep /\ left <= WaitTime
         /\ pc = "blank" => asleep /\ left <= BlankTime
         /\ pc = "nap" => ~asleep

(* A movement is the end of a wait; one that was misread need not be. *)
MotionSeen ==
  asleep /\ int1 /\ ~misread =>
    CASE pc = "blank" -> sem /\ int1For + left <= BlankTime
      [] pc = "wait"  -> sem /\ int1For <= BlankTime
      [] pc = "scan"  -> int1For <= BlankTime
      [] OTHER        -> int1For <= BlankTime + 1
MisreadSeen ==
  asleep /\ int1 =>
    CASE pc = "blank" -> int1For + left <= BlankTime
      [] pc = "wait"  -> int1For + left <= BlankTime + WaitTime
      [] pc = "scan"  -> int1For <= BlankTime + WaitTime
      [] OTHER        -> int1For <= BlankTime + WaitTime + 1

(* A time t is no longer than LVGL has not read the panel. *)
Within(t) ==
  \/ t <= unread
  \/ unread = ReadEvery /\ pc \in {"look", "nap"} /\ t <= ReadEvery + 1

(* A finger that LVGL has not seen is new, or woke the remote just now. *)
FingerNew == ~asleep /\ finger /\ ~down => Within(fingerFor) \/ Within(idleFor)

(* A finger has been there for the blanking and a wait at most. *)
Before == ReadEvery + BlankTime + 1
FingerSeen ==
  asleep /\ finger => CASE pc = "blank" -> fingerFor + left <= Before
                        [] pc = "wait"  -> fingerFor + left <= Before + WaitTime
                        [] pc = "scan"  -> fingerFor <= Before + WaitTime
                        [] OTHER        -> fingerFor <= Before + WaitTime + 1

(* A key the scan has not seen is new, and its edge has been noted ...     *)
Unseen ==
  Down /\ pending # key =>
    CASE pc = "scan"  -> keyFor <= (IF asleep THEN BlankTime ELSE 1)
      [] pc = "blank" -> sem /\ keyFor + left <= BlankTime
      [] pc = "wait"  -> sem /\ keyFor <= BlankTime
      [] OTHER        -> sem /\ keyFor = 0
(* ... one it sees has not been there much longer than its reading, but    *)
(* for the blanking and until the loop has been awake for as long; ...     *)
Reading ==
  Down /\ pending = key /\ pendingFor < DebounceTime =>
    \/ keyFor <= pendingFor + 2
    \/ keyFor <= pendingFor + 2 + BlankTime /\ (asleep \/ idleFor <= pendingFor)
(* ... and a reading that has lasted is believed by the scan.              *)
Lasted == pc = "look" /\ pending # "none" /\ pendingFor = DebounceTime =>
            stable = pending

(* The scan makes edges for a key that is not in the first column.         *)
EdgesCome == key = "other" /\ pc # "scan" => sem

KeySeen ==
  asleep /\ Down =>
    /\ key = "other" =>
         CASE pc = "blank" -> keyFor + left <= BlankTime + DebounceTime + 1
           [] pc = "look"  -> keyFor <= BlankTime + DebounceTime + 2
           [] OTHER        -> keyFor <= BlankTime + DebounceTime + 1
    /\ CASE pc = "blank" -> keyFor + left <= BlankTime + DebounceTime + 1
         [] pc = "wait" -> keyFor + left <= BlankTime + WaitTime + DebounceTime + 1
         [] pc = "scan" -> keyFor <= BlankTime + WaitTime + DebounceTime + 1
         [] OTHER       -> keyFor <= BlankTime + WaitTime + DebounceTime + 2

UserInv  == WakeTypes /\ Turns /\ MotionSeen /\ MisreadSeen /\ FingerNew /\ FingerSeen
PressInv == WakeTypes /\ Turns /\ Unseen /\ Reading /\ Lasted /\ EdgesCome /\ KeySeen
-----------------------------------------------------------------------------
(* Time that passes is counted, up to a limit. *)
LEMMA LaterCounts ==
  ASSUME NEW limit \in Nat, NEW t \in 0 .. limit, NEW dt \in {0, 1}
  PROVE  /\ Later(t, dt, limit) \in 0 .. limit /\ Later(t, dt, limit) <= t + dt
         /\ Later(t, dt, limit) < limit => Later(t, dt, limit) = t + dt
         /\ Later(t, dt, limit) >= t
BY DEF Later

LEMMA ElapseCounts ==
  ASSUME WakeTypes, NEW dt \in {0, 1}, Elapse(dt)
  PROVE  /\ keyFor' \in 0 .. Long /\ fingerFor' \in 0 .. Long /\ int1For' \in 0 .. Long
         /\ Down => keyFor' <= keyFor + dt
         /\ finger => fingerFor' <= fingerFor + dt
         /\ int1 => int1For' <= int1For + dt
         /\ UNCHANGED <<recovery, key, finger, int1, misread>>
<1>1. Long \in Nat
  BY DEF Long
<1>2. \A t \in 0 .. Long : /\ Later(t, dt, Long) \in 0 .. Long
                           /\ Later(t, dt, Long) <= t + dt
  BY <1>1, LaterCounts, Zenon
<1>3. 0 \in 0 .. Long
  BY <1>1
<1> QED  BY <1>2, <1>3 DEF Elapse, LaterIf, WakeTypes, Down

(* A pass of the scan, and a unit of a nap or of a wait. *)
LEMMA ScanCounts ==
  ASSUME WakeTypes, Scan
  PROVE  \E dt \in {0, 1} :
           /\ Elapse(dt)
           /\ idleFor' \in 0 .. SleepAfter + 1 /\ idleFor' <= idleFor + dt
           /\ pendingFor' \in 0 .. DebounceTime
           /\ key # pending => pendingFor' = 0
           /\ key = pending /\ pendingFor' < DebounceTime => pendingFor' = pendingFor + dt
           /\ unread' \in 0 .. ReadEvery /\ unread' >= unread
           /\ unread' < ReadEvery => unread' = unread + dt
<1>1. PICK dt \in {0, 1} :
        /\ Elapse(dt)
        /\ unread' = Later(unread, dt, ReadEvery)
        /\ idleFor' = Later(idleFor, dt, SleepAfter + 1)
        /\ pendingFor' = IF key # pending THEN 0
                         ELSE Later(pendingFor, dt, DebounceTime)
  BY DEF Scan
<1>2. /\ SleepAfter + 1 \in Nat /\ DebounceTime \in Nat /\ ReadEvery \in Nat
      /\ 0 \in 0 .. DebounceTime
  OBVIOUS
<1>3. idleFor' \in 0 .. SleepAfter + 1 /\ idleFor' <= idleFor + dt
  BY <1>1, <1>2, LaterCounts, Zenon DEF WakeTypes
<1>4. /\ Later(pendingFor, dt, DebounceTime) \in 0 .. DebounceTime
      /\ Later(pendingFor, dt, DebounceTime) < DebounceTime =>
           Later(pendingFor, dt, DebounceTime) = pendingFor + dt
  BY <1>2, LaterCounts, Zenon DEF WakeTypes
<1>5. /\ unread' \in 0 .. ReadEvery /\ unread' >= unread
      /\ unread' < ReadEvery => unread' = unread + dt
  BY <1>1, <1>2, LaterCounts, Zenon DEF WakeTypes
<1> QED  BY <1>1, <1>2, <1>3, <1>4, <1>5

LEMMA TickCounts ==
  ASSUME WakeTypes, Tick
  PROVE  /\ Elapse(1)
         /\ idleFor' \in 0 .. SleepAfter + 1 /\ idleFor' <= idleFor + 1
         /\ pendingFor' \in 0 .. DebounceTime
         /\ pendingFor' < DebounceTime => pendingFor' = pendingFor + 1
         /\ unread' \in 0 .. ReadEvery /\ down' \in BOOLEAN
<1>1. /\ SleepAfter + 1 \in Nat /\ DebounceTime \in Nat /\ ReadEvery \in Nat
      /\ 1 \in {0, 1} /\ 0 \in 0 .. ReadEvery
  OBVIOUS
<1>2. idleFor' \in 0 .. SleepAfter + 1 /\ idleFor' <= idleFor + 1
  BY <1>1, LaterCounts, Zenon DEF WakeTypes, Tick
<1>3. /\ pendingFor' \in 0 .. DebounceTime
      /\ pendingFor' < DebounceTime => pendingFor' = pendingFor + 1
  BY <1>1, LaterCounts, Zenon DEF WakeTypes, Tick
<1>4. /\ Later(unread, 1, ReadEvery) \in 0 .. ReadEvery
      /\ Later(0, 1, ReadEvery) \in 0 .. ReadEvery
  BY <1>1, LaterCounts, Zenon DEF WakeTypes
<1>5. unread' \in 0 .. ReadEvery /\ down' \in BOOLEAN
  BY <1>1, <1>4 DEF WakeTypes, Tick, Render
<1> QED  BY <1>2, <1>3, <1>5 DEF Tick
-----------------------------------------------------------------------------
TypesTurns == WakeTypes /\ Turns

LEMMA Zeros ==
  /\ 0 \in 0 .. Long /\ 0 \in 0 .. DebounceTime /\ 0 \in 0 .. SleepAfter + 1
  /\ 0 \in Nat /\ WaitTime \in Nat /\ BlankTime \in Nat /\ "none" \in Codes
BY DEF Long, Codes

LEMMA TypesInit == Init => TypesTurns
<1> SUFFICES ASSUME Init PROVE TypesTurns
  OBVIOUS
<1>1. WakeTypes
  BY Zeros, Zenon DEF Init, WakeTypes
<1> QED  BY <1>1 DEF Init, Turns, TypesTurns

LEMMA TypesStep == TypesTurns /\ [Next]_vars => TypesTurns'
<1> SUFFICES ASSUME TypesTurns, [Next]_vars PROVE TypesTurns'
  OBVIOUS
<1>0. WakeTypes /\ Turns
  BY DEF TypesTurns
<1> USE DEF user, lvgl, scan, power
<1>1. ASSUME NEW k \in Codes, Presses(k) PROVE TypesTurns'
  <2>1. WakeTypes'
    BY <1>0, <1>1, Zeros, Zenon DEF Presses, WakeTypes
  <2> QED  BY <1>0, <1>1, <2>1 DEF Presses, Turns, TypesTurns
<1>2. CASE Releases
  <2>1. WakeTypes'
    BY <1>0, <1>2, Zeros DEF Releases, WakeTypes
  <2> QED  BY <1>0, <1>2, <2>1 DEF Releases, Turns, TypesTurns
<1>3. CASE Touches
  <2>1. WakeTypes'
    BY <1>0, <1>3, Zeros DEF Touches, WakeTypes
  <2> QED  BY <1>0, <1>3, <2>1 DEF Touches, Turns, TypesTurns
<1>4. CASE Moves
  <2>1. WakeTypes'
    BY <1>0, <1>4, Zeros, Zenon DEF Moves, Given, WakeTypes
  <2> QED  BY <1>0, <1>4, <2>1 DEF Moves, Turns, TypesTurns
<1>5. CASE Scan
  <2>1. PICK dt \in {0, 1} :
          /\ Elapse(dt) /\ idleFor' \in 0 .. SleepAfter + 1
          /\ pendingFor' \in 0 .. DebounceTime /\ unread' \in 0 .. ReadEvery
    BY <1>0, <1>5, ScanCounts
  <2>2. /\ keyFor' \in 0 .. Long /\ fingerFor' \in 0 .. Long /\ int1For' \in 0 .. Long
        /\ UNCHANGED <<recovery, key, finger, int1, misread>>
    BY <1>0, <2>1, ElapseCounts
  <2>3. sem' \in BOOLEAN /\ stable' \in Codes
    BY <1>0, <1>5 DEF Scan, Edge, WakeTypes
  <2>4. WakeTypes'
    BY <1>0, <1>5, <2>1, <2>2, <2>3 DEF Scan, WakeTypes
  <2> QED  BY <1>0, <1>5, <2>4 DEF Scan, Turns, TypesTurns
<1>6. CASE Look
  <2>0. PICK fails \in BOOLEAN :
          /\ int1' = (int1 /\ fails) /\ int1For' = 0 /\ misread' = (int1 /\ fails)
          /\ idleFor' \in {0, idleFor}
          /\ asleep' \in BOOLEAN
    BY <1>6 DEF Look
  <2>1. /\ pc' \in {"wait", "blank", "nap"} /\ left' \in Nat
        /\ pc' = "wait" => asleep' /\ left' = WaitTime
        /\ pc' = "blank" => asleep' /\ left' = BlankTime
        /\ pc' = "nap" => ~asleep'
    BY <1>0, <1>6, Zeros DEF Look
  <2>2. idleFor' \in 0 .. SleepAfter + 1
    BY <1>0, <2>0, Zeros DEF WakeTypes
  <2>3. /\ UNCHANGED <<recovery, key, keyFor, finger, fingerFor, down, unread, sem,
                       pending, pendingFor, stable>>
    BY <1>6 DEF Look
  <2>4. WakeTypes'
    BY <1>0, <2>0, <2>1, <2>2, <2>3, Zeros DEF WakeTypes
  <2> QED  BY <2>1, <2>4 DEF Turns, TypesTurns
<1>7. CASE Blanked
  <2>1. WakeTypes'
    BY <1>0, <1>7, Zeros DEF Blanked, WakeTypes
  <2> QED  BY <1>0, <1>7, <2>1 DEF Blanked, Turns, TypesTurns
<1>8. CASE Wakes
  <2>1. WakeTypes'
    BY <1>0, <1>8, Zeros DEF Wakes, WakeTypes
  <2> QED  BY <1>8, <2>1 DEF Wakes, Turns, TypesTurns
<1>9. CASE Tick
  <2>1. /\ Elapse(1) /\ idleFor' \in 0 .. SleepAfter + 1
        /\ pendingFor' \in 0 .. DebounceTime
        /\ unread' \in 0 .. ReadEvery /\ down' \in BOOLEAN
    BY <1>0, <1>9, TickCounts
  <2>2. /\ keyFor' \in 0 .. Long /\ fingerFor' \in 0 .. Long /\ int1For' \in 0 .. Long
        /\ UNCHANGED <<recovery, key, finger, int1, misread>>
    BY <1>0, <2>1, ElapseCounts
  <2>3. /\ left' \in Nat /\ left' <= left
        /\ \/ pc = "nap" /\ pc' = "scan"
           \/ pc' = pc /\ pc \in {"blank", "wait"}
        /\ UNCHANGED <<sem, pending, stable, asleep>>
    BY <1>0, <1>9 DEF Tick, WakeTypes
  <2>4. WakeTypes'
    BY <1>0, <2>1, <2>2, <2>3 DEF WakeTypes
  <2> QED  BY <1>0, <2>3, <2>4 DEF Turns, TypesTurns, WakeTypes
<1>10. CASE UNCHANGED vars
  BY <1>0, <1>10 DEF vars, WakeTypes, Turns, TypesTurns
<1> QED
  BY <1>1, <1>2, <1>3, <1>4, <1>5, <1>6, <1>7, <1>8, <1>9, <1>10 DEF Next
-----------------------------------------------------------------------------
LEMMA UserStep == UserInv /\ [Next]_vars => UserInv'
<1> SUFFICES ASSUME UserInv, [Next]_vars PROVE UserInv'
  OBVIOUS
<1>0. WakeTypes /\ Turns /\ WakeTypes' /\ Turns'
  BY TypesStep DEF UserInv, TypesTurns
<1> DEFINE Rest == MotionSeen /\ MisreadSeen /\ FingerNew /\ FingerSeen
<1> SUFFICES Rest'
  BY <1>0 DEF UserInv
<1>r. Rest
  BY DEF UserInv
<1> USE DEF MotionSeen, MisreadSeen, FingerNew, Within, FingerSeen, Before,
            user, lvgl, scan, power
<1>1. ASSUME NEW k \in Codes, Presses(k) PROVE Rest'
  BY <1>0, <1>r, <1>1 DEF Presses
<1>2. CASE Releases
  <2>1. sem => sem'
    BY <1>2, Zenon DEF Releases
  <2> QED  BY <1>0, <1>r, <1>2, <2>1 DEF Releases
<1>3. CASE Touches
  <2>1. /\ finger' = ~finger /\ fingerFor' = 0
        /\ UNCHANGED <<int1, misread, int1For, down, unread, sem, idleFor, asleep, pc, left>>
    BY <1>3 DEF Touches
  <2> QED  BY <1>0, <1>r, <2>1 DEF WakeTypes, Turns
<1>4. CASE Moves
  BY <1>0, <1>r, <1>4 DEF Moves, Given, WakeTypes, Turns
<1>5. CASE Scan
  <2>1. PICK dt \in {0, 1} :
          /\ Elapse(dt) /\ idleFor' <= idleFor + dt
          /\ unread' >= unread /\ unread' \in 0 .. ReadEvery
          /\ unread' < ReadEvery => unread' = unread + dt
    BY <1>0, <1>5, ScanCounts
  <2>2. /\ finger => fingerFor' <= fingerFor + dt
        /\ int1 => int1For' <= int1For + dt
        /\ UNCHANGED <<finger, int1, misread>>
    BY <1>0, <2>1, ElapseCounts
  <2>3. pc = "scan" /\ pc' = "look" /\ UNCHANGED <<asleep, down>>
    BY <1>5 DEF Scan
  <2>4. MotionSeen' /\ MisreadSeen' /\ FingerSeen'
    BY <1>0, <1>r, <2>1, <2>2, <2>3 DEF WakeTypes
  <2>5. FingerNew'
    BY <1>0, <1>r, <2>1, <2>2, <2>3 DEF WakeTypes
  <2> QED  BY <2>4, <2>5
<1>6. CASE Look
  <2>1. PICK fails \in BOOLEAN :
          /\ int1' = (int1 /\ fails) /\ int1For' = 0 /\ misread' = (int1 /\ fails)
          /\ (asleep /\ finger) => ~asleep' /\ idleFor' = 0
          /\ (~asleep /\ asleep') => ~down /\ idleFor > SleepAfter
          /\ (asleep /\ ~asleep') => idleFor' = 0
          /\ idleFor' \in {0, idleFor}
    BY <1>6 DEF Look, Touched
  <2>2. /\ pc = "look"
        /\ \/ ~asleep' /\ pc' = "nap"
           \/ asleep' /\ ~asleep /\ pc' = "blank" /\ left' = BlankTime
           \/ asleep' /\ asleep /\ pc' = "wait" /\ left' = WaitTime
        /\ UNCHANGED <<finger, fingerFor, down, unread, sem>>
    BY <1>6 DEF Look
  <2>3. MotionSeen' /\ MisreadSeen'
    BY <1>0, <2>1, <2>2 DEF WakeTypes
  <2>4. FingerSeen'
    BY <1>0, <1>r, <2>1, <2>2 DEF WakeTypes
  <2>5. FingerNew'
    BY <1>0, <1>r, <2>1, <2>2 DEF WakeTypes
  <2> QED  BY <2>3, <2>4, <2>5
<1>7. CASE Blanked
  BY <1>0, <1>r, <1>7 DEF Blanked, WakeTypes, Turns
<1>8. CASE Wakes
  BY <1>0, <1>r, <1>8 DEF Wakes, WakeTypes, Turns
<1>9. CASE Tick
  <2>1. Elapse(1) /\ idleFor' <= idleFor + 1
    BY <1>0, <1>9, TickCounts
  <2>2. /\ finger => fingerFor' <= fingerFor + 1
        /\ int1 => int1For' <= int1For + 1
        /\ UNCHANGED <<finger, int1, misread>>
    BY <1>0, <2>1, ElapseCounts
  <2>3. CASE pc = "nap"
    <3>1. ~asleep /\ ~asleep' /\ pc' = "scan" /\ Render
      BY <1>0, <1>9, <2>3 DEF Tick, Turns
    <3>2. finger /\ ~down' => unread < ReadEvery /\ unread' = unread + 1 /\ down' = down
      <4>1. CASE unread = ReadEvery
        BY <3>1, <4>1, Zenon DEF Render
      <4>2. CASE unread # ReadEvery
        <5>1. unread < ReadEvery
          BY <1>0, <4>2 DEF WakeTypes
        <5>2. down' = down /\ unread' = unread + 1
          BY <3>1, <4>2 DEF Render
        <5> QED  BY <5>1, <5>2
      <4> QED  BY <4>1, <4>2
    <3> QED  BY <1>0, <1>r, <2>1, <2>2, <2>3, <3>1, <3>2 DEF WakeTypes
  <2>4. CASE pc # "nap"
    <3>1. /\ left > 0 /\ left' = left - 1 /\ pc' = pc /\ UNCHANGED <<sem, asleep>>
          /\ pc \in {"blank", "wait"} /\ (pc = "wait" => ~sem)
      BY <1>9, <2>4 DEF Tick
    <3> QED  BY <1>0, <1>r, <2>2, <3>1 DEF WakeTypes, Turns
  <2> QED  BY <2>3, <2>4
<1>10. CASE UNCHANGED vars
  BY <1>r, <1>10 DEF vars
<1> QED
  BY <1>1, <1>2, <1>3, <1>4, <1>5, <1>6, <1>7, <1>8, <1>9, <1>10 DEF Next

(* A movement wakes the remote at once or when the panel has been blanked, *)
(* a finger, or a movement whose reading failed, at the end of a wait      *)
(* (power_tick(), accel_motion(), ui_touch_down()).                        *)
THEOREM UserIsNoticed == Spec => []UserWakes
<1>1. Init => UserInv
  BY TypesInit DEF Init, UserInv, TypesTurns, MotionSeen, MisreadSeen, FingerNew, FingerSeen
<1>2. UserInv /\ [Next]_vars => UserInv'
  BY UserStep
<1>3. UserInv => UserWakes
  <2> SUFFICES ASSUME UserInv PROVE UserWakes
    OBVIOUS
  <2>1. WakeTypes /\ Turns /\ MotionSeen /\ MisreadSeen /\ FingerSeen
    BY DEF UserInv
  <2> QED  BY <2>1 DEF UserWakes, MotionSeen, MisreadSeen, FingerSeen, Before, WakeTypes, Turns
<1> QED  BY <1>1, <1>2, <1>3, PTL DEF Spec
-----------------------------------------------------------------------------
LEMMA PressStep == PressInv /\ [Next]_vars => PressInv'
<1> SUFFICES ASSUME PressInv, [Next]_vars PROVE PressInv'
  OBVIOUS
<1>0. WakeTypes /\ Turns /\ WakeTypes' /\ Turns'
  BY TypesStep DEF PressInv, TypesTurns
<1> DEFINE Rest == Unseen /\ Reading /\ Lasted /\ EdgesCome /\ KeySeen
<1> SUFFICES Rest'
  BY <1>0 DEF PressInv
<1>r. Rest
  BY DEF PressInv
<1> USE DEF Unseen, Reading, Lasted, EdgesCome, KeySeen, Down, user, lvgl, scan, power
<1>1. ASSUME NEW k \in Codes, Presses(k) PROVE Rest'
  BY <1>0, <1>r, <1>1 DEF Presses, WakeTypes, Turns
<1>2. CASE Releases
  <2>1. ~Down' /\ key' # "other"
    BY <1>2 DEF Releases
  <2>2. Lasted'
    BY <1>r, <1>2 DEF Releases
  <2> QED  BY <2>1, <2>2
<1>3. CASE Touches
  BY <1>0, <1>r, <1>3 DEF Touches
<1>4. CASE Moves
  BY <1>0, <1>r, <1>4 DEF Moves, Given
<1>5. CASE Scan
  <2>1. PICK dt \in {0, 1} :
          /\ Elapse(dt) /\ pendingFor' \in 0 .. DebounceTime
          /\ idleFor' <= idleFor + dt
          /\ key # pending => pendingFor' = 0
          /\ key = pending /\ pendingFor' < DebounceTime => pendingFor' = pendingFor + dt
    BY <1>0, <1>5, ScanCounts
  <2>2. (Down => keyFor' <= keyFor + dt) /\ key' = key /\ keyFor' \in 0 .. Long
    BY <1>0, <2>1, ElapseCounts
  <2>3. /\ pc = "scan" /\ pc' = "look" /\ pending' = key /\ asleep' = asleep
        /\ key = "other" => sem'
    BY <1>5 DEF Scan, Edge
  <2>4. key = pending /\ pendingFor' = DebounceTime => stable' = key
    BY <1>5 DEF Scan
  <2>5. Unseen' /\ Lasted' /\ EdgesCome'
    BY <2>1, <2>2, <2>3, <2>4
  <2>6. Reading'
    BY <1>0, <1>r, <2>1, <2>2, <2>3 DEF WakeTypes
  <2>7. KeySeen'
    BY <1>0, <1>r, <2>1, <2>2, <2>3 DEF WakeTypes
  <2> QED  BY <2>5, <2>6, <2>7
<1>6. CASE Look
  <2>1. /\ pc = "look"
        /\ \/ ~asleep' /\ pc' = "nap"
           \/ asleep' /\ ~asleep /\ pc' = "blank" /\ left' = BlankTime
           \/ asleep' /\ asleep /\ pc' = "wait" /\ left' = WaitTime
        /\ UNCHANGED <<key, keyFor, sem, pending, pendingFor, stable>>
    BY <1>6 DEF Look
  <2>2. /\ asleep' => stable = "none"
        /\ (~asleep /\ asleep') => idleFor > SleepAfter
        /\ (asleep /\ ~asleep') => idleFor' = 0
        /\ idleFor' \in {0, idleFor}
    BY <1>6 DEF Look
  <2>3. Lasted' /\ EdgesCome'
    BY <1>r, <2>1
  <2>4. Down /\ pending # key => sem /\ keyFor = 0
    BY <1>0, <1>r, <2>1 DEF Turns
  <2>5. Unseen'
    BY <1>0, <2>1, <2>4
  <2>6. Reading'
    BY <1>0, <1>r, <2>1, <2>2 DEF WakeTypes
  <2>7. asleep' /\ Down => keyFor <= (IF asleep THEN BlankTime ELSE 0) + DebounceTime + 1
    <3>1. asleep' /\ pending # "none" => pendingFor < DebounceTime
      BY <1>0, <1>r, <2>1, <2>2 DEF WakeTypes
    <3> QED  BY <1>0, <1>r, <2>2, <2>4, <3>1 DEF WakeTypes
  <2>8. KeySeen'
    BY <1>0, <2>1, <2>7 DEF WakeTypes
  <2> QED  BY <2>3, <2>5, <2>6, <2>8
<1>7. CASE Blanked
  BY <1>0, <1>r, <1>7 DEF Blanked, WakeTypes, Turns
<1>8. CASE Wakes
  BY <1>0, <1>r, <1>8 DEF Wakes, WakeTypes, Turns
<1>9. CASE Tick
  <2>1. /\ Elapse(1) /\ pendingFor' \in 0 .. DebounceTime /\ idleFor' <= idleFor + 1
        /\ pendingFor' < DebounceTime => pendingFor' = pendingFor + 1
    BY <1>0, <1>9, TickCounts
  <2>2. (Down => keyFor' <= keyFor + 1) /\ key' = key /\ keyFor' \in 0 .. Long
    BY <1>0, <2>1, ElapseCounts
  <2>3. /\ \/ pc = "nap" /\ pc' = "scan"
           \/ pc = "blank" /\ pc' = "blank" /\ left > 0 /\ left' = left - 1
           \/ pc = "wait" /\ pc' = "wait" /\ ~sem /\ left > 0 /\ left' = left - 1
        /\ UNCHANGED <<sem, pending, asleep>>
    BY <1>9 DEF Tick
  <2>4. Unseen' /\ Lasted' /\ EdgesCome'
    BY <1>0, <1>r, <2>2, <2>3 DEF WakeTypes, Turns
  <2>5. Reading'
    BY <1>0, <1>r, <2>1, <2>2, <2>3 DEF WakeTypes, Turns
  <2>6. KeySeen'
    BY <1>0, <1>r, <2>2, <2>3 DEF WakeTypes, Turns
  <2> QED  BY <2>4, <2>5, <2>6
<1>10. CASE UNCHANGED vars
  BY <1>r, <1>10 DEF vars
<1> QED
  BY <1>1, <1>2, <1>3, <1>4, <1>5, <1>6, <1>7, <1>8, <1>9, <1>10 DEF Next

(* A held key wakes the remote: at once, or when the panel has been        *)
(* blanked, by the edges its own scans make, or, in the first column, at   *)
(* the latest at the end of the wait in which its reading has lasted       *)
(* (keypad_scan(), wake_wait()).                                           *)
THEOREM KeysAreNoticed == Spec => []PressWakes
<1>1. Init => PressInv
  BY TypesInit DEF Init, PressInv, TypesTurns, Unseen, Reading, Lasted, EdgesCome, KeySeen, Down
<1>2. PressInv /\ [Next]_vars => PressInv'
  BY PressStep
<1>3. PressInv => PressWakes
  BY DEF PressInv, PressWakes, KeySeen, Down, WakeTypes, Turns
<1> QED  BY <1>1, <1>2, <1>3, PTL DEF Spec
=============================================================================
