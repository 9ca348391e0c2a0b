------------------------------- MODULE Updater -------------------------------
(***************************************************************************)
(* The USB update receiver (src/updater.c), the serial flash it stages an  *)
(* image in, the program region of the internal flash, the bootloader that *)
(* commits a staged image, and the host that sends one.  The remote may    *)
(* lose power or be reset by its watchdog at any point, and the port may   *)
(* lose any frame, or a part of one.                                       *)
(*                                                                         *)
(* A unit stands for a run of bytes.  The marker 0xCDAB3412 is one unit,   *)
(* the last one of the program region.                                     *)
(***************************************************************************)
EXTENDS Naturals, Sequences

CONSTANTS
  CkMod,        \* the checksum is a sum modulo CkMod (256 in the code)
  Erased,       \* the value of an erased unit
  Marker,       \* the unit that makes an image bootable
  Overlay(_, _), \* what programming a unit that was not erased leaves
  Region,       \* units in the program region (APP_REGION_SIZE)
  PageLen,      \* units the flash programs at once (256 bytes)
  FrameLen,     \* units in a data frame (63 bytes)
  NumSectors,   \* 64 KB sectors of the staging window
  SectorOf,     \* the sector of the window that holds each staged unit
  TopSector,    \* units of the program region in internal sector 7
  Images,       \* payloads a host may send, each a sequence of units
  StrayFrames,  \* what a data frame read out of step may hold
  StraySizes    \* what a start frame read out of step may declare

Byte == 0 .. CkMod - 1
Unit == 0 .. Region - 1
Last == Region - 1
FrameBytes == 1 .. FrameLen

ASSUME SizesAssumption ==
  /\ CkMod \in Nat \ {0} /\ Region \in Nat \ {0} /\ PageLen \in Nat \ {0}
  /\ FrameLen \in Nat \ {0, 1} /\ NumSectors \in Nat \ {0}
ASSUME FlashAssumption ==
  /\ Erased \in Byte /\ Marker \in Byte /\ Erased # Marker
  /\ \A a, b \in Byte : Overlay(a, b) \in Byte
  /\ \A b \in Byte : Overlay(Erased, b) = b
ASSUME LayoutAssumption ==
  /\ SectorOf \in [Unit -> 0 .. NumSectors - 1]
  /\ TopSector \subseteq Unit /\ Last \in TopSector
ASSUME ImagesAssumption ==
  /\ Images # {}
  /\ \A f \in Images : f \in Seq(Byte) /\ Len(f) > 1
ASSUME StrayAssumption ==
  StrayFrames \subseteq [FrameBytes -> Byte] /\ StraySizes \subseteq Nat

(* The bytes the start frame declares: all but the trailing one. *)
DeclaredMisread(f) == CkMod * (Len(f) - 1)   \* mutant: read one byte too far
Declared(f) == Len(f) - 1

(* The last sector the loop of start() erases. *)
LastSectorShort == NumSectors - 2            \* mutant: stops one sector early
LastSector == NumSectors - 1

(* The 8-bit running sum. *)
SumWide(sum, b) == sum + b                   \* mutant: does not wrap
Sum(sum, b) == (sum + b) % CkMod

(* A byte with n staged before it belongs to the program region. *)
InRegionWide(n) == n <= Region               \* mutant: one byte too many
InRegion(n) == n < Region

VARIABLES
  spi,          \* the staging area of the serial flash
  protected,    \* its block protection, set at power-on
  app,          \* the program region of the internal flash
  pc,           \* what the remote is doing
  sector,       \* the sector start() erases next
  cp,           \* the unit the bootloader copies next
  active,       \* a transfer is in progress
  declared,     \* units the host announced
  recvCnt,      \* units received
  stageAddr,    \* units staged, as an offset from SPI_IMAGE_BASE
  page,         \* units waiting for a page to fill
  cksum,        \* running sum
  d, done,      \* the frame data() is given, and the bytes of it handled
  framed,       \* cdc_read() cuts the stream where the host's frames end
  img,          \* the payload of the host's session
  at,           \* units the host has sent
  mixed,        \* history: the transfer in progress counts what is not of its session
  spoiled       \* history: what was committed is a mixture, or an erase of the
                \* installed program was cut short

flash    == <<spi, protected, app, spoiled>>
receiver == <<active, declared, recvCnt, stageAddr, page, cksum>>
frame    == <<d, done>>
link     == <<framed, mixed>>
host     == <<img, at>>
vars     == <<flash, pc, sector, cp, receiver, frame, link, host>>

Booting == {"boot", "copy"}
Running == {"idle", "erase", "data", "program", "final", "invalidate", "reset"}

TypeOK ==
  /\ spi \in [Unit -> Byte] /\ app \in [Unit -> Byte]
  /\ protected \in BOOLEAN /\ active \in BOOLEAN
  /\ pc \in Booting \cup Running
  /\ sector \in 0 .. NumSectors - 1 /\ cp \in Unit
  /\ declared \in Nat /\ recvCnt \in Nat
  /\ stageAddr \in Nat /\ page \in Seq(Byte) /\ cksum \in Byte
  /\ d \in [FrameBytes -> Byte] /\ done \in 0 .. FrameLen
  /\ framed \in BOOLEAN /\ mixed \in BOOLEAN /\ spoiled \in BOOLEAN
  /\ img \in Images /\ at \in Nat

(* The area holds the program region of payload f. *)
Holds(area, f) == \A i \in Unit : area[i] = f[i + 1]

NoFrame == [k \in FrameBytes |-> 0]

(* The statics of updater.c, cleared by every reset, and the port's ring. *)
ReceiverReset ==
  /\ active' = FALSE
  /\ declared' = 0 /\ recvCnt' = 0 /\ stageAddr' = 0
  /\ page' = << >> /\ cksum' = 0
  /\ d' = NoFrame /\ done' = 0
  /\ framed' = TRUE /\ mixed' = FALSE
  /\ sector' = 0 /\ cp' = 0

Init ==
  /\ \E f \in Images : Len(f) >= Region /\ app = [i \in Unit |-> f[i + 1]]
  /\ app[Last] = Marker
  /\ spi \in [Unit -> Byte]
  /\ protected = TRUE
  /\ pc = "boot" /\ sector = 0 /\ cp = 0
  /\ active = FALSE /\ declared = 0 /\ recvCnt = 0
  /\ stageAddr = 0 /\ page = << >> /\ cksum = 0
  /\ d = NoFrame /\ done = 0
  /\ framed = TRUE /\ mixed = FALSE /\ spoiled = FALSE
  /\ img \in Images /\ at = Len(img)
-----------------------------------------------------------------------------
(***************************************************************************)
(* The bootloader.  With neither marker there is nothing to run, and it    *)
(* has no USB: no action but a Restart is left.                            *)
(***************************************************************************)

(* The marker is intact: run the installed program. *)
BootChain ==
  /\ pc = "boot"
  /\ app[Last] = Marker
  /\ pc' = "idle"
  /\ UNCHANGED <<flash, sector, cp, receiver, frame, link, host>>

(* It is not, but an image is staged: erase the region to copy it. *)
BootErase ==
  /\ pc = "boot"
  /\ app[Last] # Marker /\ spi[Last] = Marker
  /\ app' = [i \in Unit |-> Erased]
  /\ cp' = 0
  /\ pc' = "copy"
  /\ UNCHANGED <<spi, protected, spoiled, sector, receiver, frame, link, host>>

(* Copy one unit, in ascending order: the marker is the last. *)
BootCopy ==
  /\ pc = "copy"
  /\ app' = [app EXCEPT ![cp] = spi[cp]]
  /\ IF cp = Last THEN pc' = "boot" /\ UNCHANGED cp
                  ELSE cp' = cp + 1 /\ UNCHANGED pc
  /\ UNCHANGED <<spi, protected, spoiled, sector, receiver, frame, link, host>>
-----------------------------------------------------------------------------
(***************************************************************************)
(* Frames from the host.  They queue between the host and cdc_read() and   *)
(* are handled one at a time and in order, and the host does not wait for  *)
(* an answer, so a frame is sent here when its handler begins, or would.   *)
(* A frame is lost whole or in part; a part moves the place where          *)
(* cdc_read(), which counts 64 bytes, cuts the stream.                     *)
(***************************************************************************)
AtRest == pc \in Booting \cup {"idle"}

(* The host opens a session that the remote does not hear of: a transfer   *)
(* that is in progress goes on with what the new session sends.            *)
StartUnheard(f) ==
  /\ AtRest
  /\ img' = f /\ at' = 0
  /\ framed' \in BOOLEAN
  /\ mixed' = active
  /\ UNCHANGED <<flash, pc, sector, cp, receiver, frame>>

(* The host sends the next frame of its session. *)
FrameSent ==
  /\ at + FrameLen <= Len(img)
  /\ at' = at + FrameLen
  /\ UNCHANGED img

(* It is lost, or a part of it. *)
LoseFrame ==
  /\ AtRest
  /\ FrameSent
  /\ framed' \in BOOLEAN
  /\ mixed' = (mixed \/ (active /\ ~framed'))
  /\ UNCHANGED <<flash, pc, sector, cp, receiver, frame>>

(* What start() makes of the counters of an earlier transfer. *)
CountersKept ==                              \* mutant: resumes the old count
  /\ UNCHANGED recvCnt
  /\ stageAddr' = 0 /\ cksum' = 0 /\ page' = << >>
CountersReset == recvCnt' = 0 /\ stageAddr' = 0 /\ cksum' = 0 /\ page' = << >>

(* spi_unprotect(). *)
UnprotectSkipped == UNCHANGED protected      \* mutant: protection left on
Unprotect == protected' = FALSE

(* start(): reset the counters, drop the block protection, and go on to    *)
(* erase the staging window.                                               *)
Begin(size) ==
  /\ pc = "idle"
  /\ declared' = size
  /\ CountersReset
  /\ active' = TRUE
  /\ Unprotect
  /\ sector' = 0
  /\ pc' = "erase"
  /\ UNCHANGED <<spi, app, spoiled, cp, frame, framed>>

(* Frame 0x82. *)
Start(f) ==
  /\ framed
  /\ Begin(Declared(f))
  /\ img' = f /\ at' = 0
  /\ mixed' = FALSE

(* Out of step, parts of two frames look like a start. *)
StrayStart(size) ==
  /\ ~framed
  /\ Begin(size)
  /\ FrameSent
  /\ mixed' = TRUE

(* One 64 KB sector of the window start() erases. *)
EraseSector ==
  /\ pc = "erase"
  /\ spi' = [i \in Unit |->
               IF SectorOf[i] = sector /\ ~protected THEN Erased ELSE spi[i]]
  /\ IF sector = LastSector
       THEN pc' = "idle" /\ UNCHANGED sector
       ELSE sector' = sector + 1 /\ UNCHANGED pc
  /\ UNCHANGED <<protected, app, spoiled, cp, receiver, frame, link, host>>

(* data() is given a frame: ignored when no transfer is in progress. *)
Handle(bytes) ==
  /\ pc = "idle"
  /\ FrameSent
  /\ IF active THEN pc' = "data" /\ d' = bytes /\ done' = 0
               ELSE UNCHANGED <<pc, frame>>
  /\ UNCHANGED <<flash, sector, cp, receiver, link>>

(* Frame 0x80. *)
DataFrame == framed /\ Handle([k \in FrameBytes |-> img[at + k]])

(* Out of step, parts of two frames look like data. *)
StrayData(bytes) == ~framed /\ Handle(bytes)

(* Where the loop of data() goes once a byte is accounted for. *)
AfterByte(count) == IF count = declared THEN "final" ELSE "data"

(* One byte of the frame: into the sum, and into the page if it belongs to *)
(* the program region.                                                     *)
DataByte ==
  LET b == d[done + 1] IN
  /\ pc = "data"
  /\ done < FrameLen
  /\ cksum' = IF recvCnt < declared THEN Sum(cksum, b) ELSE cksum
  /\ page' = IF InRegion(stageAddr + Len(page)) THEN Append(page, b) ELSE page
  /\ recvCnt' = recvCnt + 1
  /\ done' = done + 1
  /\ pc' = IF Len(page') = PageLen THEN "program" ELSE AfterByte(recvCnt')
  /\ UNCHANGED <<flash, sector, cp, active, declared, stageAddr, d, link, host>>

(* data() returns. *)
Return == pc' = "idle" /\ d' = NoFrame /\ done' = 0

DataDone ==
  /\ pc = "data"
  /\ done = FrameLen
  /\ Return
  /\ UNCHANGED <<flash, sector, cp, receiver, link, host>>

(* The unit i of the staging area once the buffered page is programmed. *)
Programmed(i) ==
  IF i \in stageAddr .. stageAddr + Len(page) - 1 /\ ~protected
    THEN Overlay(spi[i], page[i - stageAddr + 1])
    ELSE spi[i]

(* stage_flush(): a full page, or what is left of one at the end. *)
StageFlush ==
  /\ pc = "program" \/ (pc = "final" /\ page # << >>)
  /\ spi' = [i \in Unit |-> Programmed(i)]
  /\ stageAddr' = stageAddr + Len(page)
  /\ page' = << >>
  /\ pc' = AfterByte(recvCnt)
  /\ UNCHANGED <<protected, app, spoiled, sector, cp, active, declared, recvCnt,
                 cksum, frame, link, host>>

(* do_finalize() after the flush: the sum decides. *)
Finalize ==
  /\ pc = "final" /\ page = << >>
  /\ IF cksum = 0 THEN pc' = "invalidate" /\ UNCHANGED <<active, mixed, frame>>
                  ELSE Return /\ active' = FALSE /\ mixed' = FALSE
  /\ UNCHANGED <<flash, sector, cp, declared, recvCnt, stageAddr, page, cksum,
                 framed, host>>

(* Erase internal sector 7, and the marker with it. *)
Invalidate ==
  /\ pc = "invalidate"
  /\ app' = [i \in Unit |-> IF i \in TopSector THEN Erased ELSE app[i]]
  /\ spoiled' = mixed
  /\ pc' = "reset"
  /\ UNCHANGED <<spi, protected, sector, cp, receiver, frame, link, host>>

(* safety_force_reset(): the starved watchdog resets the remote even when  *)
(* the reset request is ignored.                                           *)
RequestIgnored == pc = "reset" /\ UNCHANGED vars   \* mutant: no fallback
ForceReset ==
  /\ pc = "reset"
  /\ ReceiverReset
  /\ pc' = "boot"
  /\ UNCHANGED <<flash, host>>
-----------------------------------------------------------------------------
(***************************************************************************)
(* Power lost, or a watchdog reset.  A reset finds the flash operation in  *)
(* progress partly done; only a power-on restores the block protection.    *)
(* In force_reset() any other reset is ForceReset itself.  An erase of the *)
(* installed program that leaves its marker leaves it damaged.             *)
(***************************************************************************)
TornSpi ==
  CASE pc = "erase" ->
         \E S \in SUBSET {i \in Unit : SectorOf[i] = sector /\ ~protected} :
           spi' = [i \in Unit |-> IF i \in S THEN Erased ELSE spi[i]]
    [] pc \in {"program", "final"} ->
         \E S \in SUBSET Unit :
           spi' = [i \in Unit |-> IF i \in S THEN Programmed(i) ELSE spi[i]]
    [] OTHER -> UNCHANGED spi

TornApp ==
  IF pc = "invalidate"
    THEN \E S \in SUBSET TopSector :
           app' = [i \in Unit |-> IF i \in S THEN Erased ELSE app[i]]
    ELSE UNCHANGED app

Restart ==
  /\ TornSpi /\ TornApp
  /\ protected' \in IF pc = "reset" THEN {TRUE} ELSE {protected, TRUE}
  /\ spoiled' = IF pc = "invalidate" /\ app'[Last] # Marker
                  THEN mixed
                  ELSE spoiled \/ app' # app
  /\ ReceiverReset
  /\ pc' = "boot"
  /\ UNCHANGED host
-----------------------------------------------------------------------------
Bootloader == BootChain \/ BootErase \/ BootCopy

Receiver ==
  EraseSector \/ DataByte \/ DataDone \/ StageFlush \/ Finalize \/ Invalidate
  \/ ForceReset

Host == DataFrame \/ LoseFrame \/ \E f \in Images : Start(f) \/ StartUnheard(f)

OutOfStep ==
  \/ \E bytes \in StrayFrames : StrayData(bytes)
  \/ \E size \in StraySizes : StrayStart(size)

Next == Bootloader \/ Receiver \/ Host \/ OutOfStep \/ Restart

(* The receiver and the bootloader run to completion once started, and a   *)
(* host that is in a session goes on sending.                              *)
Fairness ==
  WF_vars(Bootloader) /\ WF_vars(Receiver) /\ WF_vars(DataFrame)

Spec == Init /\ [][Next]_vars
FairSpec == Spec /\ Fairness
=============================================================================
