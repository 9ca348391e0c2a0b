--------------------------- MODULE BootSafetyProofs ---------------------------
(***************************************************************************)
(* Proofs about the boot counter, for every value of the constants.        *)
(***************************************************************************)
EXTENDS BootSafetyProps, TLAPS

(* The sizes the counters depend on.                                       *)
LEMMA Sizes ==
  /\ MaxBootAttempts \in Nat /\ WatchdogPeriod \in Nat /\ UploadTicks \in Nat
  /\ UploadTicks > 1 /\ MaxAge \in Nat /\ FaultAges \subseteq 0 .. MaxAge
BY ConstantsAssumption

(* The flags, which no step sets to anything but TRUE or FALSE.            *)
LEMMA FlagsInv ==
  /\ Init => FlagsOK
  /\ FlagsOK /\ [Next]_vars => FlagsOK'
<1> USE DEF FlagsOK, vars, ram, main, dog, usb, unit
<1>1. Init => FlagsOK
  BY Zenon DEF Init
<1>2. ASSUME FlagsOK, BootCheck \/ Arm \/ DisplayMissing \/ InitDone
      PROVE  FlagsOK'
  BY <1>2, Zenon DEF BootCheck, Arm, DisplayMissing, InitDone
<1>3. ASSUME FlagsOK, Tick PROVE FlagsOK'
  BY <1>3, Zenon DEF Tick, InitTick, LoopTick, OtherTick, TimePasses
<1>4. ASSUME FlagsOK, InitFeed \/ SomeFault \/ SelfTest PROVE FlagsOK'
  BY <1>4, Zenon DEF InitFeed, SomeFault, Fault, SelfTest
<1>5. ASSUME FlagsOK, HostStarts \/ HostStops \/ SpiSticks PROVE FlagsOK'
  BY <1>5, Zenon DEF HostStarts, HostStops, SpiSticks
<1>6. ASSUME FlagsOK, WatchdogReset \/ Commit \/ ExternalReset \/ PowerOn
      PROVE  FlagsOK'
  BY <1>6, Zenon DEF WatchdogReset, Commit, ExternalReset, PowerOn, CpuReset,
                     Retained
<1>7. ASSUME FlagsOK, UNCHANGED vars PROVE FlagsOK'
  BY <1>7, Zenon
<1> QED
  BY <1>1, <1>2, <1>3, <1>4, <1>5, <1>6, <1>7, Zenon DEF Next, Booting

(* A remote that is powered on for the first time has counted nothing.     *)
LEMMA InitInv == Init => BootInv
<1> SUFFICES ASSUME Init PROVE BootInv
  OBVIOUS
<1>1. CountersOK
  BY Sizes DEF Init, CountersOK, Garbage
<1>2. CounterCountsFailures /\ RetriesBounded /\ HistoryStarts
  BY DEF Init, CounterCountsFailures, RetriesBounded, HistoryStarts, Full, Hung
<1> QED  BY <1>1, <1>2, FlagsInv DEF BootInv, TypeOK

(* The steps in which time passes.                                         *)
LEMMA TickInv == BootInv /\ Tick =>
  CountersOK' /\ CounterCountsFailures' /\ RetriesBounded' /\ HistoryStarts'
<1> SUFFICES ASSUME BootInv, Tick
      PROVE  CountersOK' /\ CounterCountsFailures' /\ RetriesBounded' /\ HistoryStarts'
  OBVIOUS
<1>1. TimePasses
  BY DEF Tick, InitTick, LoopTick, OtherTick
<1>2. CountersOK
  BY DEF BootInv, TypeOK
<1>3. wd' \in 0 .. WatchdogPeriod
  BY <1>1, <1>2, Sizes DEF TimePasses, CountersOK
<1>4. upload' \in 0 .. UploadTicks
  BY <1>1, <1>2, Sizes DEF TimePasses, CountersOK
<1>5. UNCHANGED <<magic, phase, faultAge>>
  BY <1>1 DEF TimePasses, unit
<1>6. age' \in 0 .. MaxAge
  BY <1>2, Sizes DEF Tick, InitTick, LoopTick, OtherTick, CountersOK
<1>7. \/ UNCHANGED <<attempts, unproven>>
      \/ attempts' = 0 /\ unproven' = 0
  BY DEF Tick, InitTick, LoopTick, OtherTick, CounterCleared
<1>8. CountersOK'
  BY <1>2, <1>3, <1>4, <1>5, <1>6, <1>7 DEF CountersOK
<1>9. CounterCountsFailures'
  BY <1>5, <1>7 DEF BootInv, CounterCountsFailures
<1>10. RetriesBounded'
  BY <1>5, <1>7, Sizes DEF BootInv, RetriesBounded
<1>11. HistoryStarts'
  BY <1>5, <1>7 DEF BootInv, HistoryStarts
<1> QED  BY <1>8, <1>9, <1>10, <1>11

(* Every step preserves the invariant.                                     *)
LEMMA StepInv == BootInv /\ [Next]_vars => BootInv'
<1> SUFFICES ASSUME BootInv, [Next]_vars PROVE BootInv'
  OBVIOUS
<1> DEFINE Goal == CountersOK' /\ CounterCountsFailures' /\ RetriesBounded' /\ HistoryStarts'
<1>0. CountersOK /\ CounterCountsFailures /\ RetriesBounded /\ HistoryStarts
  BY DEF BootInv, TypeOK
<1> USE <1>0, Sizes
     DEF CountersOK, CounterCountsFailures, RetriesBounded, HistoryStarts,
         Powered, Full, Hung, ram, main, dog, usb, unit
<1>1. BootCheck => Goal
  BY DEF BootCheck, Counted
<1>2. Arm => Goal
  BY DEF Arm, Unsafe, CounterCleared
<1>3. DisplayMissing => Goal
  BY DEF DisplayMissing, CounterCleared
<1>4. InitDone => Goal
  BY DEF InitDone
<1>5. Tick => Goal
  BY TickInv, Zenon
<1>6. (InitFeed \/ SelfTest) => Goal
  BY DEF InitFeed, SelfTest
<1>7. SomeFault => Goal
  BY DEF SomeFault, Fault, FaultDue
<1>8. (HostStarts \/ HostStops \/ SpiSticks) => Goal
  BY DEF HostStarts, HostStops, SpiSticks
<1>9. (WatchdogReset \/ Commit \/ ExternalReset) => Goal
  BY DEF WatchdogReset, Commit, ExternalReset, CpuReset, Retained
<1>10. PowerOn => Goal
  BY DEF PowerOn, CpuReset, Garbage
<1>11. UNCHANGED vars => Goal
  BY DEF vars
<1>12. Goal
  BY <1>1, <1>2, <1>3, <1>4, <1>5, <1>6, <1>7, <1>8, <1>9, <1>10, <1>11, Zenon
  DEF Next, Booting
<1> QED  BY <1>12, FlagsInv, Zenon DEF BootInv, TypeOK

(* The invariant holds throughout every run.                               *)
THEOREM Invariance == Spec => []BootInv
<1>1. Init => BootInv
  BY InitInv
<1>2. BootInv /\ [Next]_vars => BootInv'
  BY StepInv
<1> QED  BY <1>1, <1>2, PTL DEF Spec

(* The counter in RAM is the number of boots begun since one last proved   *)
(* itself: safety_boot_attempts() tells the truth after any sequence of    *)
(* faults, resets, updates and power cuts.                                 *)
THEOREM CounterIsTrue == Spec => []CounterCountsFailures
<1>1. BootInv => CounterCountsFailures
  BY DEF BootInv
<1> QED  BY <1>1, Invariance, PTL

(* At most MAX_BOOT_ATTEMPTS boots in a row run the full firmware without  *)
(* proving themselves; the next one stops at safe mode.                    *)
THEOREM RetriesAreBounded == Spec => []RetriesBounded
<1>1. BootInv => RetriesBounded
  BY DEF BootInv
<1> QED  BY <1>1, Invariance, PTL

(* main() branches to safe mode only after that many failures: a remote    *)
(* that leaves safe mode tries the full firmware again.                    *)
THEOREM SafeModeIsEarned == Spec => SafeModeEarned
<1> DEFINE Earned == phase = "checked" /\ phase' = "safe" =>
                       unproven > MaxBootAttempts
<1>1. BootInv /\ [Next]_vars => [Earned]_vars
  <2> SUFFICES ASSUME BootInv, Next, phase = "checked", phase' = "safe"
               PROVE  unproven > MaxBootAttempts
    BY DEF vars
  <2> USE DEF BootInv, TypeOK, CountersOK, CounterCountsFailures
  <2>1. CASE Arm
    BY <2>1 DEF Arm, Unsafe
  <2>2. CASE BootCheck \/ DisplayMissing \/ InitDone
    BY <2>2 DEF BootCheck, DisplayMissing, InitDone
  <2>3. CASE Tick \/ InitFeed \/ SelfTest
    BY <2>3 DEF Tick, InitTick, LoopTick, OtherTick, InitFeed, SelfTest, Hung
  <2>4. CASE SomeFault
    BY <2>4 DEF SomeFault, Fault, FaultDue
  <2>5. CASE HostStarts \/ HostStops \/ SpiSticks
    BY <2>5 DEF HostStarts, HostStops, SpiSticks, ReceiverRuns, main
  <2>6. CASE WatchdogReset \/ Commit \/ ExternalReset \/ PowerOn
    BY <2>6 DEF WatchdogReset, Commit, ExternalReset, PowerOn, CpuReset
  <2> QED  BY <2>1, <2>2, <2>3, <2>4, <2>5, <2>6 DEF Next, Booting
<1> QED  BY <1>1, Invariance, PTL DEF Spec, SafeModeEarned
=============================================================================
