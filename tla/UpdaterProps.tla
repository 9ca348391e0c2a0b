----------------------------- MODULE UpdaterProps -----------------------------
(***************************************************************************)
(* What the update receiver and the bootloader guarantee together, and the *)
(* invariant their proofs rest on.                                         *)
(***************************************************************************)
EXTENDS Updater

(* What build_payload() and usb_restore() send when the payload has its    *)
(* normal size: the marker closes the program region, and at least the     *)
(* whole region is declared.                                               *)
FullSize(f) == Declared(f) >= Region /\ f[Region] = Marker
FullSizeImages == \A f \in Images : FullSize(f)

(* Where in its payload the transfer in progress stands.                   *)
Handling == pc \in {"data", "program", "final", "invalidate", "reset"}
Pos == IF Handling THEN at + done - FrameLen ELSE at

(* Every frame of the payload up to Pos reached the receiver, and nothing  *)
(* else did.                                                               *)
Intact == ~mixed /\ recvCnt = Pos

(* The bytes received are in the flash and in the page, in order.          *)
Staged ==
  /\ stageAddr + Len(page) = IF recvCnt < Region THEN recvCnt ELSE Region
  /\ \A i \in Unit : i < stageAddr => spi[i] = img[i + 1]
  /\ \A j \in 1 .. Len(page) : page[j] = img[stageAddr + j]

(* What the next power-up runs: the bootloader looks at the markers only.  *)
Chosen == IF app[Last] = Marker THEN app ELSE spi
ProgramOf(f) == [i \in Unit |-> f[i + 1]]
Damaged == << >>
NextProgram == IF spoiled THEN Damaged ELSE Chosen
-----------------------------------------------------------------------------
(***************************************************************************)
(* The inductive invariant.  The first group follows a transfer that       *)
(* counts frames of one session: one that is lost leaves the count a whole *)
(* frame short of the position in the payload, and a payload ends one byte *)
(* past what it declares, so such a transfer never reaches its declared    *)
(* count.  The second group follows the two flashes.                       *)
(***************************************************************************)
TransferInv ==
  /\ at <= Len(img)
  /\ pc \in Booting => ~active
  /\ mixed => active
  /\ active /\ ~framed => mixed
  /\ Handling => active /\ at >= FrameLen
  /\ active => ~protected
  /\ pc \in {"final", "invalidate", "reset"} => recvCnt = declared
  /\ pc \in {"invalidate", "reset"} => page = << >>

SessionInv ==
  active /\ ~mixed =>
    /\ declared = Declared(img)
    /\ recvCnt = Pos \/ recvCnt + FrameLen <= Pos
    /\ Handling => \A k \in FrameBytes : d[k] = img[at - FrameLen + k]

StagingInv ==
  /\ pc = "erase" =>
       /\ active /\ recvCnt = 0 /\ stageAddr = 0 /\ page = << >>
       /\ \A i \in Unit : SectorOf[i] < sector => spi[i] = Erased
  /\ active /\ pc # "erase" =>
       /\ stageAddr + Len(page) = IF recvCnt < Region THEN recvCnt ELSE Region
       /\ \A i \in Unit : i >= stageAddr => spi[i] = Erased
  /\ active /\ pc # "erase" /\ Intact =>
       /\ \A i \in Unit : i < stageAddr => spi[i] = img[i + 1]
       /\ \A j \in 1 .. Len(page) : page[j] = img[stageAddr + j]

FlashInv ==
  /\ pc \in Running => (app[Last] = Marker <=> pc # "reset")
  /\ ~spoiled => \E f \in Images : Holds(Chosen, f)
  /\ pc = "copy" => /\ app[Last] # Marker
                    /\ \A i \in Unit : i < cp => app[i] = spi[i]

IInv == TypeOK /\ TransferInv /\ SessionInv /\ StagingInv /\ FlashInv
-----------------------------------------------------------------------------
(* At every instant a power cut leaves a whole program to boot: what the   *)
(* bootloader will choose, the installed program or the staged image, is a *)
(* payload with its marker, every unit of it (updater.c, "the anti-brick   *)
(* mechanism" of updater.h).                                               *)
WholeProgram == \E f \in Images : Holds(Chosen, f) /\ f[Region] = Marker

(* It is so but for two accidents that the code does not prevent: it       *)
(* committed a mixture of two sessions, or the erase of the installed      *)
(* program was cut short and left the marker.                              *)
AlwaysBootable == spoiled \/ WholeProgram

(* By the time do_finalize() gives up the installed program, the staging   *)
(* area holds the payload of this very session and all of it, whatever     *)
(* frames were lost, sessions abandoned or sectors left half erased,       *)
(* unless a start went unheard, or a part of a frame was lost, while the   *)
(* transfer was in progress.                                               *)
CommitsWhatWasSent ==
  pc \in {"invalidate", "reset"} /\ ~mixed => Holds(spi, img)

(* Throughout an unbroken transfer the flash and the page buffer together  *)
(* hold exactly the bytes received, and the flash beyond them is erased.   *)
StagesWhatIsReceived ==
  active /\ Intact /\ pc # "erase" =>
    Staged /\ \A i \in Unit : i >= stageAddr => spi[i] = Erased

(* The comment that opens updater.c: when `declared' bytes are in and the  *)
(* sum is 0, "the SPI marker is already in the staged image".              *)
MarkerStagedBeforeInvalidate == pc = "invalidate" => spi[Last] = Marker

(* The update replaces the program in one step, with the offered one; the  *)
(* two accidents are the only steps that leave anything else.              *)
Promise == INSTANCE AtomicUpdate WITH
  Firmwares <- {ProgramOf(f) : f \in Images},
  runs      <- NextProgram,
  offered   <- ProgramOf(img)
UpdateIsAtomic == Promise!Spec

(* Once the power stays up, a remote that has given up its installed       *)
(* program gets to run the staged one, if that is no mixture.              *)
CommitCompletes ==
  <>[][~Restart]_vars =>
    []<>(spoiled \/ pc \notin {"invalidate", "reset", "boot", "copy"})

(* A transfer nobody disturbs ends: from the moment nothing is lost, no    *)
(* session is opened and the power stays up, an unbroken transfer does not *)
(* stay in progress.                                                       *)
Undisturbed ==
  <>[][~Restart /\ ~LoseFrame /\ ~\E f \in Images : Start(f) \/ StartUnheard(f)]_vars
TransferEnds == Undisturbed => []<>~(active /\ Intact)
=============================================================================
