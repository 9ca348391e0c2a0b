# t2i-zephyr: a verification project

TLA+ models of the open firmware for the RTI T2i handset (`src/`), of the USB
update path that keeps it recoverable, and of the host pieces that talk to it
(`tools/`, `juno-driver/`). Every definition is translated from the source; the
`map` of `PROJECT.json` names the lines. The paths below are relative to the
repository: `updater.c` is `src/updater.c`, and so on.

## 1. The system

A sealed remote whose only way in is USB. The bootloader is RTI's and cannot be
replaced: it chain-loads the program in internal flash when the marker
`0xCDAB3412` is at its end, and otherwise copies an image staged in the serial
flash, if *that* one ends in the marker. Everything else is the firmware's job.

| component | source | state | operations | interacts through |
|---|---|---|---|---|
| update receiver | `updater.c` | `declared`, `recv_cnt`, `stage_addr`, `cksum`, `page`, `active`; the serial flash and its protection; internal flash | frames 0x82 start, 0x80 data, finalize, forced reset; diagnostics 0x90-0x92 | USB frames in, `updater_emit` lines out, the flashes, the watchdog |
| USB port | `updater.c` 208-412 | ring buffer, RX interrupt enable, bytes of the frame, emit lock, `active` | `cdc_isr`, `cdc_read`, `updater_emit`, SPI read and search | USB, every thread |
| safety | `safety.c`, `main.c` boot path | retained RAM (`magic`, `attempts`), IWDG, `starve_watchdog` | boot check, healthy mark, feed, self-test, forced reset, safe mode | main, the receiver |
| main loop | `main.c` | last key, hold timers, menu page, `als_step`, `last_led` | one pass every 10 ms | all drivers, `updater_emit`, `zbnet_send_key` |
| keypad | `keypad.c` | `pending`, `stable` | scan, debounce | main loop |
| power and wake | `power.c`, `wake.c`, `lowpower.c` | `asleep`, `last_active`, wake semaphore, INT1 of the accelerometer | `power_tick`, `on_wake`, `wake_wait`, STOP entry | main loop, interrupts |
| radio frames | `zbx.c` 35-210, 360-410 | `struct zbx_rx`, frame ring | encode, `zbx_rx_byte`, `zbx_send`, `zbx_poll` | USART interrupt, main |
| radio ring and AT | `zbx.c` 280-350, `em250.c` 93-121 | raw ring, speed, raw capture | interrupt, `zbx_getc`, `em250_at` | radio thread, receiver thread |
| radio network | `zbnet.c` | `key_q`, `joined_flag`, `miss` | join, unicast, rejoin | radio, main loop |
| EM250 loader | `em250.c`, `main.c` 361-395 | block number, tries, attempts | entry and its verification, XMODEM upload, run | radio UART, raw capture |
| indicators | `main.c` 544-618, `funlight.c`, `battery.c` | average, step, holds, low latch, LED | auto-brightness, LED | sensors, display |
| display, touch, accelerometer, IR, beep, UI | `hx8347_fsmc.c`, `touch.c`, `accel.c`, `ir.c`, `ui.c` | registers | driver calls | main loop |
| Juno driver | `juno-driver/src/lib.rs` | `PARTIAL`, `DOWN`, `HOLDING` | `on_event` | lines of the USB port |
| host tools | `tools/` | position in the stream | upload, flash, bridges | USB |

Three threads share the firmware: `main`; the update receiver (preemptible,
priority 5); and the radio thread (priority 7). `main` has the highest priority,
so a `main` that spins starves the receiver and one that sleeps does not.
Interrupts feed the CDC ring and the radio rings.

What is hard here, and hard to test on a unit without a debugger: power cut between
any two flash operations; frames the port drops, whole or in part, starts that are
never heard and sessions that are abandoned; a firmware that crashes at any age; a key
matrix that misreads; a ring shared with an interrupt and no lock; one port for the
radio thread and a reflash; a radio whose answers come late. `PROJECT.json` lists each
of these hazards at its line with the properties aimed at it, or says why none is.

What makes each component correct:

- the receiver leaves a whole program to boot, but for two accidents (section 5):
  a start that goes unheard during a transfer, and an erase of the installed
  program that is cut short; and it commits nothing but the whole payload of the
  session that is open, unless it missed that session's start;
- the boot counter is what `safety.h` says it is, safe mode is reached when and
  only when it is earned, and a hang becomes a reset;
- frames stay in step with the host's, a masked interrupt comes back, lines stay
  whole, a transfer is quiet but for what was already past its test;
- a press is at most one click, or one hold with its release, and nothing is
  reported that nobody pressed;
- a sleeping remote notices a key, a finger or a movement whenever it comes;
- an indicator shows the state that has held; the screen can be read, its
  backlight driver not latched off by a low input;
- the radio's bytes come out of their ring once and in order; an exchange ends; an
  undamaged frame is decoded as it was encoded, a damaged one is not delivered;
- a reflash of the radio ends; with the port to itself it talks only to a
  bootloader that has shown itself, and an upload it calls OK is complete;
- a lost network is rejoined, a joined radio is left alone, and a key reaches
  the coordinator at most once and in order.

## 2. Modules

| module | models | role |
|---|---|---|
| `Updater` | `updater.c`, the two flashes, RTI's bootloader, the uploader | component |
| `UpdaterProps` | | its properties, its inductive invariant, the refinement |
| `AtomicUpdate` | | what an update promises: the program changes in one step |
| `UpdaterProofs` | | theorems |
| `CdcPort` | the USB port of `updater.c`: packets, framing by counting, `updater_emit`, the diagnostic frames | component |
| `CdcPortProofs` | | theorems |
| `BootSafety`, `BootSafetyProps`, `BootSafetyProofs` | `safety.c`, the boot path of `main.c` | component, properties, theorems |
| `KeyPath`, `KeyPathProps` | `keypad.c`, the key half of `main.c`, `power.c`, `on_event` of the Juno driver: four parts composed along the way of a key | component, properties |
| `RemoteNotes` | | what a room may rely on |
| `KeyPathProofs` | | theorems |
| `WakePath` | the sleeping loop, the wake interrupt, the debounce across two waits | component |
| `WakePathProofs` | | theorems |
| `Backlight` | the menu, ambient light, sleep, wake and boot on one backlight; the driver's latch | component |
| `StatusLed` | the indicator, `battery_low`, `funlight_sleep` | component |
| `Lights` | `Backlight` and `StatusLed` in the passes they share | composition |
| `LightsProofs` | | theorems |
| `AtLink` | the raw ring of `zbx.c`, `em250_at`, frame 0x90 | component |
| `ByteFifo` | | what the reader of a ring may rely on |
| `ZbxFrames` | encoder, decoder and frame ring of `zbx.c` | component |
| `Zbnet` | `zbnet.c` over AT exchanges taken as single steps | component |
| `ZigbeeProofs` | | theorems about `ZbxFrames` and `Zbnet` |
| `Loader` | `em250.c` and the reflash of `main.c`, against an XMODEM receiver behind a menu | component |
| `Em250Proofs` | | theorems about `AtLink` and `Loader`, the two modules of `em250.c` |
| `MC*` | | instances for TLC |

A definition written just before another of the same idea and marked
`\* mutant` is what that code would be with a plausible bug in it; `PROJECT.json`
pairs each with the property that notices.

### How state and actions correspond to the code

**Updater.** `pc` is where the receiver thread is: waiting in `cdc_read()`
(`idle`), in the erase loop of `start()`, in the byte loop of `data()`, in
`stage_flush()`, in `do_finalize()`, in `safety_force_reset()`. The other
variables are the statics of `updater.c` by name, the two flashes, and the
uploader (`img`, its payload; `at`, how far it has sent). Every action is one
loop iteration or one flash operation, so that `Restart` - power lost or the
watchdog biting - can fall between any two; it may also fall *inside* a flash
operation, which then has happened to any subset of its units (`TornSpi`,
`TornApp`). A reset keeps the serial flash's volatile protection bits, a
power-on does not; both are allowed.
The port loses what the uploader has sent: a data frame (`LoseFrame`) or a start
(`StartUnheard`), at any time the receiver is between frames or the remote boots,
whole or in part. A start that is lost while an earlier transfer is open leaves
that transfer to count on with the new session's bytes. After a part is lost
`framed` is FALSE: `cdc_read()` cuts the stream at the wrong places, and what it
takes for a frame is a choice from `StrayFrames` and `StraySizes` (`OutOfStep`)
until another loss, or a reset, puts it right. Frames queue and are handled in
order, so a frame is sent, in the model, when its handler begins or would.
`mixed` and `spoiled` are history: the transfer counts what is not of its session;
what the next boot runs is damaged. The bootloader's three actions are external: they
follow `docs/USB-FLASHING.md`, which decodes it.

**BootSafety.** `magic` and `attempts` are the retained words, `phase` the
place of `main` (reset, checked, init, loop, safe mode, or hung in one of three
ways, which differ in whether the receiver still runs), `wd` the time since the
watchdog was fed, `upload` how far an update is. Time is a tick; `TimePasses` is
not enabled when something is due (the watchdog, a commit), which is how
deadlines are kept. A broken firmware faults at the same age on every boot
until an update replaces it. `unproven` is history: what the counter claims to
count.

**KeyPath.** One action is one pass of the main loop, with everything the pass
does to keys in its order: scan, debounce, report or hold, menu, power. Times
are counted in passes and saturate at the value they are compared with. `line`
is the line on its way to the driver, whose four actions are the arms of
`on_event`. `lossy` says whether the port loses lines in this behaviour.

**Backlight**, **StatusLed** and **Lights.** Again one action per pass of the loop;
the levels are the rows of `ALS_STEPS`, and `Shown` is the two conversions by which a
brightness loses precision. What the room, the charger and the battery do is free, and
so are the keys: a pass may open or close the menu. `PowerOn`, `WarmReset`,
`DisplayInit` and `MainStarts` are the boot: the backlight's driver latches off at a
reset, `lcd_hw_init()` drops its power for as long as that takes when `PORRSTF` says
that this was no power-on, and `main` clears the flag later. `latched` says by which
level: at 0 % `backlight_set()` leaves the pin low, which latches; at 100 % it leaves
it high, and whether that latches is left open, because the sources disagree ("Every
way of stopping the PWM. All latch", `docs/BACKLIGHT.md:50`; "Driving the same pin
static-high lit it instantly", `hx8347_fsmc.c:168`). `Lights` conjoins the two
components' actions: one `power_tick()` puts both to sleep and wakes both, one reset
restarts both. Supply and room change alone.

**CdcPort.** A byte of the stream is its place in the frame that the host built,
so that a frame is in step when its bytes are 0, 1, 2 and so on. `CdcIsr` is one
run of the interrupt: mask itself, or move a packet. `Fetch` and `Arm` are the two
accesses of `cdc_read()`, between which the interrupt may come. A thread in
`updater_emit()` is at its test, at the lock, waiting for it, writing, at the end
of the line or unlocking; any other thread may run in between, and a mutex let go
of passes to the waiting thread of the highest priority. `line` is who wrote since
the last end of line, `late` how many lines each thread has begun since a transfer
began. `cmd` is the frame in hand: the receiver's loops over lines and windows go
through it one line at a time. The last window of a search reaches past the end of
the flash, where the part goes on at address 0 (`Seen`).

**WakePath.** Time is in the model, one unit a pass: `Tick` is the pause of an
awake pass, a unit of a wait or of `display_blanking_on()`, which the pass that
falls asleep goes through before its wait (`Blanked`), and `Scan` takes none or one.
Awake the loop knows of a finger what LVGL last read (`down`, `Render`), asleep it
reads the panel (`Touched`). A reading of the accelerometer may fail, which leaves
INT1 high and counts as no movement (`misread`). `Presses`, `Releases`,
`Touches` and `Moves` may come between any two steps of the loop (scan, look,
decide, wait). The edges that a scan makes on the row of a held key are in `Scan`,
the clearing of INT1 in `Look`. `keyFor`, `fingerFor` and `int1For` are history:
how long the input has been there.

**ZbxFrames.** `Fed` is `zbx_rx_byte()`, `Found` what it delivers; `Encode` is
`zbx_encode()`. The line is an environment: noise between frames, a frame that
breaks off, an ordinary byte that becomes another, a restart of the UART in the
middle, a sender that opens with the burst and one that does not. The ring of
decoded frames is its indices, as the code copies whole slots.

**Loader.** `at` follows `main`'s reflash: call, prompt, look (`em250_bl_enter`),
start, ask, send, answer, end (`em250_flash_ebl`), and again up to `em250_bl_run`.
A block is its place in the image, its number is that modulo `NumMod`. What the
radio says travels through `air` into the receive ring, so that it may arrive after
the wait for it; it may be lost or garbled, and a radio may give up. `late` and
`broken` say which of the two misfortunes has befallen this upload. `main` reflashes
in its loop, after `zbnet_start()` (`main.c:310`), so the radio thread has the same
port: `AtCommand` is one of its AT exchanges, which may come at any time, empties the
ring and puts its text, or what is left of it at the wrong speed, into the menu or
the upload; `shared` remembers it. `EM250_FLASH` is 0 (`main.c:103`): the build as
it is leaves all of this out.

**AtLink.** A thread is interleaved at each of its accesses to `rq_head` and
`rq_tail`: the load and the store of the flush, the test, the fetch, the load
and the store of `zbx_getc()`. The interrupt may come between any two. A thread
runs only while those of higher priority wait.

**Zbnet.** One action is one command of `join_once()` with the decision its
reply leads to, or one unicast. A reply is the set of words the thread looks
for; `late` is what the radio will still say, which a later reply may contain.
A NACK is a word that the thread takes for an ACK, as the code does.

## 3. Runs

| run | expects | checks | bounds |
|---|---|---|---|
| `updater` | pass | `AlwaysBootable`, `CommitsWhatWasSent`, `StagesWhatIsReceived`, the refinement `UpdateIsAtomic`, `CommitCompletes`, `TransferEnds`, `TypeOK` | region 4 units, pages of 3, frames of 2, 2 sectors, bytes modulo 4, two payloads; out of step one frame of data and one of start |
| `updater_short` | violation | `MarkerStagedBeforeInvalidate` | a second payload of a smaller size |
| `usb_port` | pass | `InStep`, `LinesWhole`, `TransferQuiet`, `SearchComplete`, `PacketTaken`, `MainEmits` | frames of 3, packets of up to 2, ring of 4; flash of 8, window of 5, signature of 2 at 1, 4 and 6, that at 1 come round to once more |
| `boot` | pass | `CounterCountsFailures`, `RetriesBounded`, `SafeModeEarned`, `Recoverable`, `HangBecomesReset` | 3 attempts as in the code; healthy after 2 ticks, watchdog of 2, update of 6; ages to 4 |
| `keys` | pass | the refinement `OnePressOneNote`, `HoldsClose`, `MenuOpensByHold` | 3 keys, debounce, hold and sleeping pass of 2, 2 misreads in a row |
| `sleep` | pass | `PressWakes`, `UserWakes` | debounce of 3, wait of 10, blanking of 5, LVGL's period 4, sleep after 6 |
| `lights` | pass | `BacklightFollows`, `ScreenReadable`, `ShowsTheState` | 3 levels, holds of 2 (the light) and 1 (the indicator), sleeping pass of up to 2 |
| `at_link` | pass | the refinement `IsFifo`, `ExchangeEnds`, `SpeedHeld`, `TypeOK` | ring of 4, 2 byte values, waits of 2 and 1 polls, buffer of 3 |
| `frames` | pass | `RoundTrip`, `AlteredRejected`, `HeldFrameKept` | bytes modulo 5, 3 of them control bytes; payloads of up to 3; 4 slots |
| `zbnet` | pass | `SetupOnlyWhenOff`, `KeysOnceInOrder`, `KeysGoOut`, `LossRejoined` | queue of 2, 3 misses as in the code, 3 presses |
| `zbnet_stale` | violation | `StaleRejoined` | 1 press |
| `loader` | pass | `EntryVerified`, `UploadComplete`, `ReflashEnds` | 4 blocks, numbers modulo 3, 2 tries of a block and of the end, 2 attempts of 2 rounds |

Why these bounds show the interesting cases:

- *updater*: the region ends inside a page and the payload inside a frame, so the
  three limits of the byte loop fall in different places; the two sectors differ in
  size; the units of internal sector 7 are more than the marker, so a torn
  invalidation leaves code damaged and the marker either way; two payloads let one
  session follow another, and a mixture of the two may sum to 0. The frame read out of
  step has other bytes than either payload. The programming of a unit that was not
  erased is a bitwise AND. The theorems carry the results over to every size.
- *usb_port*: neither the packet nor the ring divides the frame or is divided by
  it, so a frame starts anywhere in a packet and a packet may find room for a part
  of it only, which is what the interrupt's test must prevent. The signature lies
  inside a window, across the end of one, and at the seam of two. All three
  threads write, at any time.
- *boot*: the watchdog is as long as initialisation may go without a feed plus
  one, an update outlasts the healthy mark, and a fault may come before, at and
  after the mark. `MaxCount` bounds the counter by refusing resets that strike
  before the watchdog is armed once it is high; it is above the limit by two.
  `MaxAge` saturates the age past everything it is compared with.
- *keys*: a hold takes longer than one report, a sleeping pass is as long as the
  debounce, and two misreads are the most that a debounce of two can absorb;
  three keys are Backlight, one that moves the menu and one that leaves it.
- *sleep*: the times have the order they have in the code, with 10 ms a pass: the wait
  (250 ms) is longer than the blanking (50 ms), and that longer than the debounce and
  the period at which LVGL reads the panel (both about 30 ms; the period is LVGL's
  default). The debounce is longer than the few passes in which its two looks could
  coincide. `SleepAfter` need only be longer than the debounce and the period. Times
  are counted up to `Long`, past every bound that is stated.
- *lights*: a hold may end awake, asleep or in the pass that wakes. The middle
  level is as bright as a waking screen, the case that hides a missing update. The
  indicator has a hold of its own, so the two do not elapse together.
- *at_link*: the ring holds three, so it fills, wraps and overflows within one
  exchange; the buffer fills before the ring is empty.
- *frames*: two ordinary values besides the three controls, so one byte may become
  another and a checksum may itself need an escape; a payload one shorter than the
  decoder's buffer and one as long as it. The decoder's state is finite, so noise
  of every length is covered.
- *zbnet*: one press more than the queue holds; the misses reach their limit.
- *loader*: the block numbers wrap within the image, and the block sent again after
  a late answer has the number of one already taken. The upload is stopped by a
  CAN, by the tries, or by the end.

`lights` (1.7 million states), `updater` (510 000) and `keys` (420 000) take a
minute or two each, the others less. `loader` alone runs without the deadlock
check: a reflash that is over stays over.

### Fairness

`Updater` assumes that the bootloader and the receiver, once started, run
(nothing else has their processor for ever: `main` sleeps 10 ms in every pass),
and that a host in a session goes on sending; both liveness properties say in
their premise that restarts and disturbances end. `BootSafety` assumes that time
passes, that the watchdog bites, that a fault that is due strikes and that a
host offers an update; resets from outside and hosts that give up are excluded
by the premise `Calm`. `CdcPort` assumes that the interrupt is taken while it is
pending and enabled, and that each thread in `updater_emit()` and the receiver
get to run: the threads ahead of each sleep in every pass. `KeyPath` and
`StatusLed` assume that the main loop and the driver keep running, `AtLink` that
a ready thread runs once those ahead of it wait. `Loader` assumes only that
`main` goes on: each of its waits has a limit, and nothing is asked of the
radio. `Zbnet` assumes that the thread runs and, strongly, that a coordinator
asked again and again admits the radio at some time: without it no retry policy
could promise anything. `WakePath`, `Lights` and `ZbxFrames` assume none: what a
sleeping remote owes its user is stated as a bound on time. No fairness is
assumed of the user, the room, the host's port or of what goes wrong.

## 4. What is proved

TLAPS checks these for every value of the constants that satisfies the named
assumptions of the modules.

- `UpdaterProofs`, assuming `FullSizeImages` (every payload declares at least the
  region and has the marker at its end, which is what `build_payload()` makes
  with its default size): `TypeCorrect`, `NeverBricked`, `CommitIsTheSession`,
  `StagingIsExact` and `UpdateRefines`, the refinement of `AtomicUpdate`, whatever a
  frame read out of step holds. All rest on the inductive invariant `IInv`.
  `AlwaysBootable` alone is not inductive: that the marker is given up only over a
  whole staged payload needs to know that the count reached at finalize is the
  payload's own, hence that no frame was lost. `SessionInv` has the argument: while
  the transfer counts its own session's frames, a lost one leaves the count at least a
  frame behind the position, and a payload is one byte longer than it declares, so the
  count cannot reach it. `StagingInv` says what flash and page hold meanwhile, and
  `FlashInv` what bootloader and receiver may assume of each other. A transfer that
  counts anything else is `mixed`, and the theorems say of it that it is typed,
  programs no unit twice, and that its commit is one of the two accidents
  (`Accident` of `AtomicUpdate`) or no commit at all.
- `BootSafetyProofs`: `CounterIsTrue`, `RetriesAreBounded`, `SafeModeIsEarned`
  from `BootInv`, which adds that a RAM without the magic word has no history.
- `KeyPathProofs`, for every set of keys, table of navigation and all times:
  `TheMenuNeedsAHold` from `MenuInv`, that the time on Backlight is the time since
  its report. `ThePromiseIsKept` is the refinement of `RemoteNotes`, port with loss
  included, under two hypotheses: keys go down one at a time (`~Rollover`; with two
  the code breaks the promise, section 5), and `ReadsThrough`, that no more passes in
  a row misread a held key than the debounce has - one more would be believed as a
  release. `PathInv` has a part for each place a press can be: `OneKey`
  (the matrix and the scan), `OnTheLine`, `Owed` (what has been reported and not
  delivered is owed a note) and `InStep` (without loss the driver is behind the
  reports by the line in flight and no more). None of them is inductive alone: a
  note may be sent only if it is owed, which is known of the key that the driver
  believes down, which is known from the reports.
- `WakePathProofs`, for every debounce shorter than the wait, and debounce and LVGL's
  period shorter than the time to fall asleep: `UserIsNoticed` from `UserInv`,
  `KeysAreNoticed` from `PressInv`. The bounds that are promised are those at the end
  of a wait; the invariants say how much of the bound is left at each place of the
  loop (`FingerSeen`, `MotionSeen`, `MisreadSeen`, `KeySeen`: the time so far plus
  what is `left` of the blanking and the wait). A finger that LVGL has not read is
  new, or the remote is not about to sleep (`FingerNew`). `PressInv` also needs that
  no look comes too early: a press the scan has not seen is new and has left an edge
  (`Unseen`), one that it sees is no older than its reading (`Reading`), and a reading
  that lasted is believed (`Lasted`).
- `LightsProofs`, for every table of levels and all holds: `TheLightIsFollowed`
  (`FollowInv`: the level applied last is what is shown, but for a remote still as it
  woke, and a level that has held has been applied), `TheStateIsShown`, and
  `TheScreenIsReadable` under `StepsShow`: every percentage is 3 or more, the least
  that the two conversions leave above the sleeping duty. `ALS_STEPS` has 15 to 90.
  `ScreenInv` ties the driver's latch to the flag that decides how long the display's
  power is off, in each phase of the boot. It is about a low input; nothing is proved
  of the high one.
- `Em250Proofs`, about `AtLink`: `TypeCorrect` for any set of readers, from the types
  and the bound on the poll counter. Assuming `SoleReader`, `ReadsTheOldest` and
  `RingIsFifo`, the refinement of `ByteFifo` for a ring of any size: what makes it
  inductive is `Reading`, that between its test and its store the byte a reader is
  after stays the oldest one, because the interrupt writes only the free slot.
  `SpeedIsHeld` assumes a sole reader that sets the speed back, as `em250_at()` does
  and frame 0x90 does not: the speed an exchange finds, and puts back, is the frames'.
  About `Loader`, for every length of image, count of tries and modulus of the block
  numbers above 2, of a port that nobody else has used since the call (`~shared`):
  `EntryIsVerified`, since a banner in the capture was printed after
  the capture was emptied; and `UploadIsComplete` from `UploadInv`. "Blocks are
  complete" is true for two different reasons, and the invariant carries both until
  the end: when nothing was late, an `ACK` answers the block sent last (`Acked`); when
  nothing was lost or damaged, a block was taken because it was sent, whatever is
  read as its answer (`SentAndTaken`). A modulus above 2 is what tells a block from
  its two neighbours (`Neighbours`).
- `ZigbeeProofs`, about `ZbxFrames`, for every modulus, any three distinct control
  bytes, every payload and every size of buffer: `FramesComeThrough` and
  `AlteredIsRejected`, from `WireInv`: until something spoils it, the decoder is at a
  known place of the frame on the wire (`Course`: between two bytes of the payload,
  its buffer holding those before, or behind an escape). That needs to know where a
  byte lies in the encoded frame (`Layout`, `EncodeLaysOut`), that the checksum makes
  the sum zero (`ChecksumSums`), and that one other byte makes it another sum
  (`SumDiffers`). Encoder and sum are folds. What a fold computes for every sequence
  is proved by the principle of the least number (`LeastNumber`, `UpTo`): a fold over
  a sequence exists as a function of sets of places (`FoldExists`), its value at the
  first k places follows from that at the first k - 1 (`SumRuns`, `CodeRuns`).
  `TheHeldFrameIsKept`, for a ring of two slots or more, from `FramesInv`: the slot
  handed out last is the one before the oldest, which a full ring keeps empty.
  About `Zbnet`: `KeysComeOnceInOrder` (`KeysInv`: the queue is strictly increasing
  and above what was delivered) and `SetupIsHarmless` (`WalkInv`: past its first step
  the walk has heard that there is no network, and nothing but its own `AT+JN` ends
  that).
- `CdcPortProofs`, for every size of frame, packet, ring, flash, window and
  signature: `LinesAreWhole` from `LineInv` (a thread is between the lock and the
  end of its unlock exactly when it owns the lock, one thread does, and the open
  line is its own); `TransfersAreQuiet` from `QuietInv`, which adds how many lines a
  thread past its test may still begin, by the place it is at; and `FramesInStep`
  from `StreamInv`: frame, ring, packet and the host's place are one run of
  consecutive places modulo the frame. It needs that what the interrupt keeps free
  holds a packet (`PortAssumption`) - a dropped byte is what would break the run.
  `SearchIsComplete` from `SearchInv`: with the search at an address, the places
  counted are those before it, each once, and those at a seam once more; the same
  counting covers the places past the end.

The stronger invariants were first checked by TLC on the instances of section 3
(`WireInv` with the places of the bytes computed instead of assumed to exist).
With these every invariant, every action property and every refinement of the passing
runs is a theorem.

Model-checked only:

- Liveness - `CommitCompletes`, `TransferEnds`, `Recoverable`, `HangBecomesReset`,
  `HoldsClose`, `ExchangeEnds`, `KeysGoOut`, `LossRejoined`, `PacketTaken`,
  `MainEmits`, `ReflashEnds`: what follows from fairness needs ENABLED, which is
  beyond these provers.
- The findings, and the cases the theorems' hypotheses leave out: two readers, two
  keys at once, payloads smaller than the region, a start that goes unheard, an erase
  cut short, a port shared with the radio thread. There the code does not keep the
  promise, and section 5 says how.

## 5. Where the code and its text part

Two runs expect a violation; the findings in `PROJECT.json` quote the lines.

1. `updater_short`: `do_finalize()` trusts the sum. A payload built with a
   smaller `--size` sums to zero, the installed program is given up, and no marker
   is where the bootloader looks: a remote with nothing to boot.
2. `zbnet_stale`: after a run of misses the walk asks the radio, which is still on
   its old network, and is content.

Seven more have a configuration beside the runs, for whoever changes that code
(`tlc -config MCKeyPathRollover.cfg MCKeyPath`, and likewise). The first takes
about a minute to find its counterexample, the others seconds.

3. `MCKeyPathRollover.cfg`, `HoldsClose`: the second key's DOWN makes the driver
   forget the hold of the first, whose release never comes.
4. `MCStatusLedDark.cfg` (module `StatusLed`), `DarkOnBattery`: the boot sweep leaves
   the LEDs lit and `last_led` says dark, so on a good battery nothing turns them off.
5. `MCAtLinkTwo.cfg` (module `MCAtLink`), `ReadersOnlyTake`: frame 0x90 is a second
   reader of the ring that `zbnet.c` says has one. Its flush can bring back bytes
   that were dropped.
6. `MCUpdaterTorn.cfg` (module `MCUpdater`), `WholeProgram`: power is cut while
   `invalidate_internal_marker()` erases internal sector 7; the marker may survive over
   a damaged program, and the bootloader, which looks at the marker only, runs that
   and ignores the whole payload that is staged.
7. `MCUpdaterMixed.cfg` (module `MCUpdater`), `MarkerStagedBeforeInvalidate`: the start
   of a second session goes unheard while the first is open. The bytes of both are
   counted as one payload; when its sum happens to be 0 - once in 256 - the installed
   program is given up over a mixture that may have no marker.
8. `MCLightsMenu.cfg` (module `MCLights`), `NeverStopped`: the menu's brightness of 255
   becomes 100 %, which stops the backlight's timer, against "never stop the PWM"
   (`hx8347_fsmc.c:188`).
9. `MCLoaderShared.cfg` (module `Loader`), `NobodyElse`: "main never touches USART3
   again" (`main.c:310`), but the reflash in `main`'s loop does. An AT exchange of the
   radio thread between the banner and the look at it starts the application, and the
   loader believes it is in the bootloader. It takes `EM250_FLASH` 1.

Others met on the way have no run of their own; each is an assumption or an
exception of a property that is checked, at the place named:

- A fault that comes after `HEALTHY_AFTER_MS` and before an upload can end is
  retried for ever, since every boot counts as healthy. `Recoverable` excludes it
  (`faultAge <= HealthyAfter`).
- `spi_wait()` has no bound and feeds the watchdog, so a flash that stays busy
  hangs the receiver for good. `Recoverable` and `HangBecomesReset` exclude it
  (`[]~stuck`).
- Waking sets a fixed brightness and leaves `als_step`: a remote that wakes in the
  light it fell asleep in stays at 50%. `BacklightFollows` allows it
  (`bright = Awake`).
- An answer to `AT+N` that comes after the wait counts as "no network", and the
  setup then takes a joined radio off the mesh. `SetupOnlyWhenOff` excludes it
  (`~poor`).
- `ucast()` looks for `ACK`, which `NACK` contains, so a radio that says NACK hides
  its misses. `LossRejoined` excludes it (`~poor`).
- With two readers the exchange that ends first takes the USART's speed back.
  `SpeedHeld` holds for one.
- A reset between power-on and `main`'s clearing of `PORRSTF` finds the flag still
  set, and `lcd_hw_init()` takes the reset for a power-on: the backlight's driver
  stays latched. `ScreenReadable` excludes it (`early`).
- The windows of frame 0x92's search overlap by the length of the signature, a byte
  more than a signature across a seam needs: one exactly at a seam is reported, and
  counted, twice. The last window reads 6 bytes past the end, where the part goes on
  at address 0, and reports what begins there again as a place past the end.
  `SearchComplete` says both.
- `updater_emit()` says its lines never interleave with a transfer. A line past the
  test of `active` is still written: at most one of `main` and one of the radio
  thread (`TransferQuiet`). The reply to frame 0x83 takes no lock and may land inside
  a line; `LinesWhole` is about the others.
- A payload of `ZBX_MAX_PAYLOAD` bytes is encoded and never decoded: its checksum
  has no room in the decoder's buffer (`RoundTrip`). Nothing sends one today.
- `zbx_selftest()` says that a single corrupted byte must be rejected. So is one that
  was an ordinary byte and still is (`AlteredRejected`); one altered into a control
  byte, or out of one, moves the frame's limits and may leave a shorter frame whose
  sum is right.
- An escape left over from a broken frame swallows the SOF of the next, unless its
  sender opens with the burst of two, as `zbx_send()` does (`clean`).
- `zbx_poll()` gives its slot back before the caller has read it. This is harmless
  (`HeldFrameKept`): the slot that a full ring keeps empty is that one.
- A key of the first column makes no edges while it is scanned, so its second look
  comes at the end of a wait: a press shorter than about 250 ms may go unseen by a
  sleeping remote. Other keys are seen within their debounce, and both as much later
  as the blanking takes if it has just begun (`PressWakes`).
- A reading of the accelerometer that fails leaves INT1 high, and a line that is high
  gives no edge: the movement is noticed a wait later (`UserWakes`).
- The key that wakes a remote whose menu was open when it fell asleep goes to that
  page, and its press is reported to nobody. `RemoteNotes` allows it.
- `em250_flash_ebl()` does not flush between blocks. A late answer is read as the
  answer to the next block and the two stay a block apart; if then a block is lost,
  "upload OK" comes with blocks missing. `UploadComplete` excludes the two together.
- The waits of `em250_bl_enter()` and of a block's tries add up to more than the
  watchdog's 8 s without a feed. The model has no clock; such a reset starts the
  reflash again.

## 6. Not modelled

- Errors of the serial flash: the code does not read them back, and a model that
  let them happen could promise nothing.
- STOP mode (`lowpower.c`) is compiled out by `USE_STOP_MODE 0`. Its entry has the
  race its comment (66-69) says it has not, for an edge between the last look and
  the clearing of the pending bits, and the watchdog counts on in STOP; whoever
  turns it on should extend `WakePath` first.
- `zbx_build_send()`: fields put together, no state; only the bench uses it. The UART
  diagnostics of `zbx.c` likewise.
- The display's registers, the touch panel's calibration and thresholds, the
  accelerometer's set-up, the beeper, the screens: register sequences or layout with
  no decision others depend on. What they contribute to others is where it counts:
  the display's part in the backlight's latch in `Backlight`, a touch and a movement
  as signs of activity in `WakePath`. IR sending is compiled out (`IR_ENABLE_TEST 0`).
- Of the Juno driver, the splitting of bytes into lines and the key table; of the
  uploaders, port handling and progress output.
- The bridges and bench tools: they forward lines or drive a coordinator by hand.
- `Updater` takes frames one at a time and `CdcPort` takes the update by its effect on
  `active`; `InStep`, with `FramesInStep`, is the fact that joins them as long as the
  host's bytes all arrive. They are not composed in one run: the product would show
  nothing that this fact does not. What is read out of step after a loss is in
  `Updater` a choice from small sets, not computed from the bytes; the theorems
  allow any.
- Who owns the radio's port is not a component: `AtLink` has the AT exchanges byte by
  byte, and `Loader` takes one of them as a single step with every outcome.
- An accelerometer that was not found at boot: it wakes nothing, and `UserWakes` is
  about one that was.

## 7. Plan

The components that decide anything others depend on are modelled, and what the
provers can reach of their properties is proved. What would add to it:

1. The two refinements with more in the abstract side: `AtomicUpdate` could promise
   the receiver's progress, `RemoteNotes` the order of notes of different keys.
2. The uploaders' own retries and the touch calibration could have small modules;
   neither decides anything the properties above depend on.
3. `WakePath` with STOP mode, if that is turned on.

The number of runs is kept small on purpose: a new component joins an existing run,
or takes the place of a violation run whose finding is settled.
