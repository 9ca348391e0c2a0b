----------------------------- MODULE BootSafety -----------------------------
(***************************************************************************)
(* The anti-brick machinery (src/safety.c and the boot path of src/main.c): *)
(* the boot counter in retained RAM, the watchdog, safe mode, and the      *)
(* update path they protect.  The firmware may be broken, so that a fault  *)
(* strikes every boot at the same age until an update replaces it.         *)
(*                                                                         *)
(* Threads: main has the higher priority, so when it spins the receiver    *)
(* starves; when it blocks the receiver still runs; a CPU fault halts both. *)
(***************************************************************************)
EXTENDS Naturals

CONSTANTS
  MaxBootAttempts,  \* MAX_BOOT_ATTEMPTS
  HealthyAfter,     \* HEALTHY_AFTER_MS, in ticks
  WatchdogPeriod,   \* ticks without a feed before the watchdog bites
  InitGap,          \* longest time initialisation goes without a feed
  UploadTicks,      \* ticks of the receiver an update takes
  FaultAges,        \* ages at which a broken firmware may fault; 0: in init
  SpiMayStick,      \* whether the serial flash may stay busy for ever
  MaxAge,           \* bound: the age of the loop is not counted beyond it
  MaxCount          \* bound: no reset strikes before the watchdog is armed
                    \* once the counter is this high

ASSUME ConstantsAssumption ==
  /\ MaxBootAttempts \in Nat \ {0} /\ HealthyAfter \in Nat
  /\ InitGap \in Nat /\ WatchdogPeriod \in Nat /\ InitGap < WatchdogPeriod
  /\ UploadTicks \in Nat \ {0, 1} /\ SpiMayStick \in BOOLEAN
  /\ MaxAge \in Nat /\ HealthyAfter < MaxAge
  /\ FaultAges \subseteq 0 .. MaxAge /\ MaxCount \in Nat

Hung == {"blocked", "spinning", "halted"}
Full == {"init", "loop"} \cup Hung          \* booted past the branch
Powered == Full \cup {"safe"}               \* the watchdog is armed

VARIABLES
  magic,        \* the retained RAM holds SAFE_MAGIC
  attempts,     \* boots counted since the last healthy mark
  phase,        \* where main is
  age,          \* ticks spent in the main loop
  healthy,      \* this boot was marked healthy
  wd,           \* ticks since the watchdog was fed
  starve,       \* feeding is suppressed (starve_watchdog)
  upload,       \* ticks the update in progress has had; 0: none
  stuck,        \* the receiver spins in spi_wait()
  display,      \* the display is ready
  broken,       \* the installed firmware has a fault
  faultAge,     \* when it strikes
  unproven      \* history: boots begun since the last healthy mark, safe
                \* mode or power-on

ram     == <<magic, attempts>>
main    == <<phase, age, healthy>>
dog     == <<wd, starve>>
usb     == <<upload, stuck>>
unit    == <<display, broken, faultAge>>
vars    == <<ram, main, dog, usb, unit, unproven>>

FlagsOK ==
  /\ magic \in BOOLEAN /\ healthy \in BOOLEAN /\ starve \in BOOLEAN
  /\ stuck \in BOOLEAN /\ display \in BOOLEAN /\ broken \in BOOLEAN
CountersOK ==
  /\ attempts \in Nat /\ unproven \in Nat
  /\ phase \in {"reset", "checked"} \cup Powered
  /\ age \in 0 .. MaxAge /\ faultAge \in FaultAges
  /\ wd \in 0 .. WatchdogPeriod /\ upload \in 0 .. UploadTicks
TypeOK == FlagsOK /\ CountersOK

(* A power-on leaves anything in the retained RAM but the magic word. *)
Garbage == 0 .. MaxBootAttempts + 1

Init ==
  /\ magic = FALSE /\ attempts \in Garbage
  /\ phase = "reset" /\ age = 0 /\ healthy = FALSE
  /\ wd = 0 /\ starve = FALSE
  /\ upload = 0 /\ stuck = FALSE
  /\ display \in BOOLEAN /\ broken \in BOOLEAN /\ faultAge \in FaultAges
  /\ unproven = 0
-----------------------------------------------------------------------------
(***************************************************************************)
(* Booting.                                                                *)
(***************************************************************************)

(* safety_boot_check(): the counter this boot starts from ... *)
CountedCold == attempts + 1                \* mutant: garbage taken as a count
Counted == IF magic THEN attempts + 1 ELSE 1

(* ... and its verdict. *)
UnsafeLate(n) == n > MaxBootAttempts + 1   \* mutant: one attempt too many
Unsafe(n) == n > MaxBootAttempts

BootCheck ==
  /\ phase = "reset"
  /\ magic' = TRUE /\ attempts' = Counted
  /\ unproven' = unproven + 1
  /\ phase' = "checked"
  /\ UNCHANGED <<age, healthy, dog, usb, unit>>

(* What safe_mode() and the healthy mark do to the counter. *)
CounterKept == UNCHANGED attempts          \* mutant: safe mode is latched
CounterCleared == attempts' = 0

(* The receiver is started, the watchdog armed, and an unsafe boot goes no *)
(* further than safe mode.                                                 *)
Arm ==
  /\ phase = "checked"
  /\ wd' = 0
  /\ IF Unsafe(attempts)
       THEN phase' = "safe" /\ CounterCleared /\ unproven' = 0
       ELSE phase' = "init" /\ UNCHANGED <<attempts, unproven>>
  /\ UNCHANGED <<magic, age, healthy, starve, usb, unit>>

(* The display is not ready: safe mode after all. *)
DisplayMissing ==
  /\ phase = "init" /\ ~display
  /\ phase' = "safe" /\ CounterCleared /\ unproven' = 0
  /\ UNCHANGED <<magic, age, healthy, dog, usb, unit>>

FaultDue ==
  /\ broken
  /\ \/ phase = "init" /\ display /\ faultAge = 0
     \/ phase = "loop" /\ age = faultAge

(* Initialisation is over; the loop feeds first of all. *)
InitDone ==
  /\ phase = "init" /\ display /\ ~FaultDue
  /\ phase' = "loop" /\ age' = 0 /\ wd' = 0
  /\ UNCHANGED <<ram, healthy, starve, usb, unit, unproven>>
-----------------------------------------------------------------------------
(***************************************************************************)
(* Time.  Every flash operation of an update feeds the watchdog, spi_wait() *)
(* on a flash that stays busy included; the self-test suppresses them all. *)
(***************************************************************************)
ReceiverRuns == phase \in {"init", "loop", "safe", "blocked"}
ReceiverFeeds == ReceiverRuns /\ upload > 0

MainFeeds == phase \in {"loop", "safe"}
FedByTimer == ~starve                      \* mutant: fed from a timer interrupt
Fed == ~starve /\ (MainFeeds \/ ReceiverFeeds)

TimePasses ==
  /\ wd < WatchdogPeriod
  /\ ReceiverRuns => upload < UploadTicks
  /\ wd' = IF Fed THEN 0 ELSE wd + 1
  /\ upload' = IF upload > 0 /\ ReceiverRuns /\ ~stuck THEN upload + 1
                                                       ELSE upload
  /\ UNCHANGED <<magic, phase, starve, stuck, unit>>

(* Initialisation feeds at least once in InitGap ticks. *)
InitTick ==
  /\ phase = "init" /\ wd < InitGap
  /\ TimePasses
  /\ UNCHANGED <<attempts, age, healthy, unproven>>

InitFeed ==
  /\ phase = "init" /\ wd > 0
  /\ wd' = 0
  /\ UNCHANGED <<ram, main, starve, usb, unit, unproven>>

(* The main loop: past HealthyAfter the boot is marked healthy, once. *)
MarkFirst == ~healthy                      \* mutant: by the first iteration
MarkDue == ~healthy /\ age + 1 > HealthyAfter
LoopTick ==
  /\ phase = "loop" /\ ~FaultDue
  /\ TimePasses
  /\ age' = IF age < MaxAge THEN age + 1 ELSE age
  /\ IF MarkDue THEN healthy' = TRUE /\ CounterCleared /\ unproven' = 0
                ELSE UNCHANGED <<healthy, attempts, unproven>>

OtherTick ==
  /\ phase \in Hung \cup {"safe"}
  /\ TimePasses
  /\ UNCHANGED <<attempts, age, healthy, unproven>>

(* The fault of a broken firmware. *)
Fault(kind) ==
  /\ FaultDue
  /\ phase' = kind
  /\ UNCHANGED <<ram, age, healthy, dog, usb, unit, unproven>>

(* The debug page's self-test: feeding is suppressed for good. *)
SelfTest ==
  /\ phase = "loop" /\ ~starve
  /\ starve' = TRUE
  /\ UNCHANGED <<ram, main, wd, usb, unit, unproven>>
-----------------------------------------------------------------------------
(***************************************************************************)
(* The host.                                                               *)
(***************************************************************************)
HostStarts ==
  /\ ReceiverRuns /\ upload = 0
  /\ upload' = 1
  /\ UNCHANGED <<ram, main, dog, stuck, unit, unproven>>

HostStops ==
  /\ upload \in 1 .. UploadTicks - 1 /\ ~stuck
  /\ upload' = 0
  /\ UNCHANGED <<ram, main, dog, stuck, unit, unproven>>

(* The flash never reports the end of an operation. *)
SpiSticks ==
  /\ SpiMayStick /\ ReceiverRuns
  /\ upload \in 1 .. UploadTicks - 1 /\ ~stuck
  /\ stuck' = TRUE
  /\ UNCHANGED <<ram, main, dog, upload, unit, unproven>>
-----------------------------------------------------------------------------
(***************************************************************************)
(* Resets.  All of them but a power-on keep the retained RAM.              *)
(***************************************************************************)
CpuReset ==
  /\ phase' = "reset"
  /\ age' = 0 /\ healthy' = FALSE
  /\ wd' = 0 /\ starve' = FALSE
  /\ upload' = 0 /\ stuck' = FALSE

Retained == UNCHANGED ram

WatchdogReset ==
  /\ phase \in Powered /\ wd = WatchdogPeriod
  /\ CpuReset /\ Retained
  /\ UNCHANGED <<unit, unproven>>

(* The update is staged: safety_force_reset(), and the bootloader installs *)
(* it, here a firmware without a fault.                                    *)
Commit ==
  /\ ReceiverRuns /\ upload = UploadTicks
  /\ CpuReset /\ Retained
  /\ broken' = FALSE
  /\ UNCHANGED <<display, faultAge, unproven>>

(* The reset pin, a brown-out, a debugger: not what WatchdogReset and     *)
(* Commit would do by themselves.                                          *)
ExternalReset ==
  /\ phase = "checked" => attempts < MaxCount
  /\ phase # "reset" /\ wd < WatchdogPeriod
  /\ ReceiverRuns => upload < UploadTicks
  /\ CpuReset /\ Retained
  /\ UNCHANGED <<unit, unproven>>

PowerOn ==
  /\ CpuReset
  /\ magic' = FALSE /\ attempts' \in Garbage
  /\ unproven' = 0
  /\ UNCHANGED unit
-----------------------------------------------------------------------------
Booting == BootCheck \/ Arm \/ DisplayMissing \/ InitDone
Tick == InitTick \/ LoopTick \/ OtherTick
SomeFault == \E kind \in Hung : Fault(kind)

Next ==
  \/ Booting \/ Tick \/ InitFeed \/ SomeFault \/ SelfTest
  \/ HostStarts \/ HostStops \/ SpiSticks
  \/ WatchdogReset \/ Commit \/ ExternalReset \/ PowerOn

Spec == Init /\ [][Next]_vars

(* Time passes, main gets on with its work and a due fault strikes, the    *)
(* watchdog bites, and a host with an update goes on offering it.          *)
Fairness ==
  /\ WF_vars(Booting) /\ WF_vars(Tick) /\ WF_vars(SomeFault)
  /\ WF_vars(WatchdogReset) /\ WF_vars(Commit) /\ WF_vars(HostStarts)
FairSpec == Spec /\ Fairness
=============================================================================
